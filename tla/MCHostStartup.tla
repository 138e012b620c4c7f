---------------------------- MODULE MCHostStartup ----------------------------
(***************************************************************************)
(* A small instance of HostStartup: an action that opens and one that      *)
(* saves, and around a document, a config, an environment and callbacks    *)
(* that fit, each way one of them can be wrong.                            *)
(***************************************************************************)
EXTENDS HostStartup

Type(kind) == [k |-> kind, allowed |-> {}]
Kinds == [k |-> "enum", allowed |-> {"a"}]
Param(name, source, type, required) == [name |-> name, source |-> source, type |-> type, required |-> required]

Plain == [type |-> "plain", slots |-> <<>>]
Card == [type |-> "card", slots |-> <<[name |-> "body", type |-> Type("string"), required |-> TRUE],
                                      [name |-> "size", type |-> Type("integer"), required |-> FALSE]>>]
Open == [id |-> "open", block |-> "plain", mutates |-> FALSE,
         params |-> <<Param("title", "utterance", Type("string"), FALSE),
                      Param("record", "context", Type("string"), TRUE),
                      Param("any", "utterance", Type("json"), FALSE)>>]
Save == [id |-> "save", block |-> "card", mutates |-> TRUE,
         params |-> <<Param("kind", "utterance", Kinds, TRUE),
                      Param("count", "utterance", Type("integer"), TRUE),
                      Param("ratio", "utterance", Type("number"), FALSE),
                      Param("tab", "context", Type("string"), FALSE)>>]
Twins == <<Param("kind", "utterance", Kinds, TRUE), Param("kind", "utterance", Type("boolean"), FALSE)>>

Field == [head |-> "selected_record_id", key |-> None]
Key == [head |-> "params", key |-> "tab"]
Good == [wellformed |-> TRUE, version |-> "0.1", blocks |-> <<Plain, Card>>, actions |-> <<Open, Save>>,
         paths |-> [record |-> Field, tab |-> Key]]

MCDocs ==
  {Good,
   [Good EXCEPT !.wellformed = FALSE], [Good EXCEPT !.version = "0.2"],
   [Good EXCEPT !.blocks = <<Card>>], [Good EXCEPT !.blocks = <<Plain, Card, Plain>>],
   [Good EXCEPT !.actions = <<Open, Save, Open>>], [Good EXCEPT !.actions = <<Save>>],
   [Good EXCEPT !.actions = <<Open, [Save EXCEPT !.params = Twins]>>],
   [Good EXCEPT !.actions = <<Open, [Open EXCEPT !.id = "*"]>>],
   [Good EXCEPT !.paths = [record |-> Field]], [Good EXCEPT !.paths = [tab |-> Key]]}
  \cup {[Good EXCEPT !.paths.tab = [head |-> h, key |-> k]] :
          h \in {"route", "params", "extensions", "elsewhere"}, k \in {None, "", "tab"}}

MCContexts ==
  {[fields |-> [f \in {"route", "selected_record_id", "view_type"} |-> v],
    params |-> [k \in {"tab"} |-> v], extensions |-> [k \in {"tab"} |-> v]] :
     v \in {None, [k |-> "string", v |-> "here"]}}
MCValues == {[k |-> "string", v |-> "a"], [k |-> "string", v |-> "z"], [k |-> "integer", v |-> 1],
             [k |-> "integral", v |-> 1], [k |-> "boolean", v |-> TRUE]}

---------------------------------------------------------------------------
(* The bindings.                                                           *)
Maps == [handlers |-> {"open", "save"}, dry_runs |-> {"save"}, slot_builders |-> {"save"}]
MCMaps ==
  {Maps, [Maps EXCEPT !.handlers = {"open"}], [Maps EXCEPT !.handlers = @ \cup {"ghost"}],
   [Maps EXCEPT !.dry_runs = {}], [Maps EXCEPT !.dry_runs = {"open", "save"}],
   [Maps EXCEPT !.dry_runs = {"save", "ghost"}], [Maps EXCEPT !.slot_builders = {"ghost"}],
   [Maps EXCEPT !.handlers = {"save"}]}

Binding == [llm_spec |-> "good", llm_callable |-> FALSE, resolve_context_param |-> FALSE,
            config |-> None, bad_table |-> FALSE, maps |-> Maps]
MCConstructor ==
  {[Binding EXCEPT !.llm_spec = s, !.llm_callable = c, !.resolve_context_param = r] :
     s \in {None, "good", "bad"}, c \in BOOLEAN, r \in BOOLEAN}
  \cup {[Binding EXCEPT !.config = c, !.bad_table = t] : c \in {None, "good", "bad"}, t \in BOOLEAN}
  \cup {[Binding EXCEPT !.maps = m, !.resolve_context_param = r] : m \in MCMaps, r \in BOOLEAN}

---------------------------------------------------------------------------
(* The service.                                                            *)
Route == [form |-> "ok", of |-> None]
ForEach == [form |-> "template", of |-> None]
Broken == [form |-> "bad", of |-> None]
To(id) == [form |-> "ok", of |-> id]
Section(execute, dry_run) == [execute |-> execute, dry_run |-> dry_run, build_slots |-> None, slots |-> None]
Table(source) == [body |-> [k |-> source, of |-> IF source = "preview" THEN "summary" ELSE "kind"]]

Explicit == [open |-> Section(To("open"), None),
             save |-> [Section(To("save"), To("save")) EXCEPT !.slots = Table("param")]]
Wildcard == [n \in {"*", "save"} |->
               IF n = "*" THEN Section(ForEach, None)
               ELSE [Section(None, To("save")) EXCEPT !.slots = Table("preview")]]
MCTables ==
  {Explicit, Wildcard, [n \in {} |-> Route],
   [Explicit EXCEPT !.save.slots = None], [Explicit EXCEPT !.save.slots = <<>>],
   [Explicit EXCEPT !.save.slots = None, !.save.build_slots = Route],
   [Explicit EXCEPT !.save.build_slots = Route],
   [Explicit EXCEPT !.save.execute = None], [Explicit EXCEPT !.save.dry_run = None],
   [Explicit EXCEPT !.save.dry_run = Broken], [Explicit EXCEPT !.open.execute = Broken],
   [Explicit EXCEPT !.open.dry_run = To("open")],
   [Wildcard EXCEPT !["*"].build_slots = ForEach, !.save.slots = None],
   [Wildcard EXCEPT !["*"].dry_run = ForEach], [Wildcard EXCEPT !["*"].dry_run = ForEach, !.save.dry_run = None],
   [n \in {"*", "save", "ghost"} |-> IF n = "ghost" THEN Section(Route, None) ELSE Wildcard[n]],
   [n \in {"save"} |-> Explicit.save],
   [Explicit EXCEPT !.open.execute = ForEach], [Explicit EXCEPT !.open.execute = To("save")],
   [Wildcard EXCEPT !["*"].execute = To("save")]}

Config ==
  [parses |-> TRUE, actions |-> Wildcard, danger_allow_missing_secret |-> FALSE, signing_key_env |-> None,
   verify |-> Route, authorize |-> Route, base_url |-> "local_http", danger_allow_remote_http |-> FALSE,
   otlp_endpoint |-> None, llm |-> [provider |-> "anthropic", model |-> FALSE, script |-> FALSE]]
MCUpstreams ==
  {[Config EXCEPT !.danger_allow_missing_secret = s, !.danger_allow_remote_http = r, !.base_url = u,
                  !.signing_key_env = k] :
     s \in BOOLEAN, r \in BOOLEAN, u \in {"local_http", "remote_http", "https", "unparseable"}, k \in {None, "key"}}
MCConfigs ==
  MCUpstreams
  \cup {[Config EXCEPT !.actions = t] : t \in MCTables}
  \cup {[Config EXCEPT !.verify = Broken], [Config EXCEPT !.authorize = Broken], [Config EXCEPT !.parses = FALSE]}
  \cup {[Config EXCEPT !.otlp_endpoint = e] : e \in {"good", "bad"}}
  \cup {[Config EXCEPT !.llm = [provider |-> p, model |-> m, script |-> m]] :
          p \in {"anthropic", "ollama", "scripted", "other"}, m \in BOOLEAN}
MCEnvs == {{"secret", "api_key"}, {"secret", "api_key", "key"}, {"api_key"}, {"secret"}, {"secret", "api_key", "otlp"}}

---------------------------------------------------------------------------
(* The Rust program: a document, its own definitions, and bindings.        *)
RustDoc == [Good EXCEPT !.blocks = <<Plain>>, !.actions = <<Open, [Save EXCEPT !.block = "plain"]>>]
MCExtras == [actions |-> {Open, [Save EXCEPT !.id = "extra"]}, blocks |-> {Plain, Card},
             paths |-> [tab |-> [head |-> "elsewhere", key |-> None]]]
MCBindings ==
  {[handler |-> TRUE, dry_run |-> TRUE, slots |-> TRUE, async |-> FALSE],
   [handler |-> TRUE, dry_run |-> FALSE, slots |-> FALSE, async |-> TRUE],
   [handler |-> TRUE, dry_run |-> TRUE, slots |-> TRUE, async |-> TRUE],
   [handler |-> FALSE, dry_run |-> FALSE, slots |-> FALSE, async |-> FALSE]}

MCInputs(h) ==
  LET With(docs, configs, envs, bindings) == [doc : docs, config : configs, env : envs, binding : bindings]
  IN CASE h = "rust"  -> With({RustDoc}, {Config}, {{}}, {Binding})
       [] h = "serve" -> With({Good}, MCConfigs, MCEnvs, {Binding})
                         \cup With(MCDocs, {[Config EXCEPT !.actions = t] : t \in MCTables}, {{"secret", "api_key"}}, {Binding})
       [] OTHER       -> With({Good}, {Config}, {{}}, MCConstructor)
                         \cup With(MCDocs, {Config}, {{}},
                                   {[Binding EXCEPT !.maps = m, !.resolve_context_param = r] : m \in MCMaps, r \in BOOLEAN})
=============================================================================
