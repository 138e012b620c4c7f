---------------------------- MODULE HostStartup ----------------------------
(***************************************************************************)
(* How a host comes up with a registry: a Rust program that calls the      *)
(* builder, the Node and the Python binding's Agent constructor, and the   *)
(* standalone service with its config file. Each goes through its stages   *)
(* in order and refuses at the first that finds a fault; nothing listens   *)
(* before the last.                                                        *)
(*                                                                         *)
(* The document, the config, the environment and the callbacks of a host   *)
(* are chosen in Init. A route text is [path, form, of]: form "bad" does   *)
(* not parse, "template" contains {action}, of names the action that was   *)
(* substituted. File contents and addresses are left out.                  *)
(***************************************************************************)
EXTENDS RegistryBuild

CONSTANTS Hosts,      \* a subset of {"rust", "node", "python", "serve"}
          Inputs(_),  \* the inputs of a host: [doc, config, env, binding]
          Ids,        \* action ids a Rust program attaches handlers to
          Bindings,   \* what a Rust program binds to an action
          Extras,     \* definitions a Rust program registers itself
          Contexts,   \* app contexts, as MappedResolve takes them
          Values,     \* JSON values of params and slots
          Keys,       \* keys a model may send that are no param of the action
          MaxCalls    \* bound on builder calls of a Rust program

ASSUME MaxCallsAssumption == MaxCalls \in Nat

(* A document that parses to anything holds sequences of definitions.      *)
ASSUME InputsAssumption ==
  /\ Hosts \subseteq {"rust", "node", "python", "serve"}
  /\ \A h \in Hosts : \A i \in Inputs(h) :
       LET actions == i.doc.actions
           blocks == i.doc.blocks
       IN /\ actions \in Seq({actions[k] : k \in DOMAIN actions})
          /\ blocks \in Seq({blocks[k] : k \in DOMAIN blocks})
          /\ \A k \in DOMAIN actions : actions[k].mutates \in BOOLEAN

(* Params are of the types and sources there are.                          *)
IsDefinition(def) ==
  /\ def.params \in Seq({def.params[k] : k \in DOMAIN def.params})
  /\ \A k \in DOMAIN def.params :
       /\ def.params[k].source \in {"context", "utterance"} /\ def.params[k].required \in BOOLEAN
       /\ def.params[k].type.k \in {"string", "integer", "number", "boolean", "enum", "json"}
       /\ def.params[k].type.k = "enum" => def.params[k].type.allowed # None

ASSUME DefinitionsAssumption ==
  /\ \A h \in Hosts : \A i \in Inputs(h) : \A k \in DOMAIN i.doc.actions : IsDefinition(i.doc.actions[k])
  /\ \A def \in Extras.actions : IsDefinition(def)

ASSUME ProgramAssumption ==
  /\ \A b \in Bindings : b.dry_run \in BOOLEAN
  /\ \A def \in Extras.actions : def.mutates \in BOOLEAN

(* Every field of the app context and every entry of its maps can be set.  *)
ASSUME ContextsAssumption ==
  /\ \A field \in {"route", "selected_record_id", "view_type"} : \E c \in Contexts : c.fields[field] # None
  /\ \A h \in Hosts : \A i \in Inputs(h) : \A p \in DOMAIN i.doc.paths :
       LET key == i.doc.paths[p].key
       IN key \notin {None, ""} => /\ \E c \in Contexts : c.params[key] # None
                                  /\ \E c \in Contexts : c.extensions[key] # None

(* What the deserializer of the config lets pass: any text for a route, and *)
(* tables whose sources are of the kinds there are and whose constants are  *)
(* values.                                                                  *)
IsRoute(text) == text = [form |-> text.form, of |-> text.of] /\ text.form \in {"ok", "bad", "template"}

ASSUME ConfigAssumption ==
  "serve" \in Hosts =>
    \A i \in Inputs("serve") : \A id \in DOMAIN i.config.actions :
      LET entry == i.config.actions[id]
      IN /\ \A field \in {"execute", "dry_run", "build_slots"} : entry[field] = None \/ IsRoute(entry[field])
         /\ entry.slots # None => \A n \in DOMAIN entry.slots :
              /\ entry.slots[n].k \in {"const", "param", "preview"}
              /\ entry.slots[n].k = "const" => entry.slots[n].of # None

ASSUME NoneAssumption == \A text \in {"p", "s"} : None # [k |-> "string", v |-> text]

VARIABLES host, input, stage, fault, builder, resolved, registry

vars == <<host, input, stage, fault, builder, resolved, registry>>

doc == input.doc
config == input.config

Stages ==
  CASE host = "rust"   -> <<"building", "build">>
    [] host = "node"   -> <<"schema", "llm_choice", "agent_config", "slot_tables", "resolver", "assemble">>
    [] host = "python" -> <<"schema", "resolver", "llm_choice", "agent_config", "assemble">>
    [] host = "serve"  -> <<"schema", "config", "telemetry", "resolve", "llm", "client", "attach", "build",
                            "resolver", "listen">>

Init ==
  /\ host \in Hosts /\ input \in Inputs(host)
  /\ stage = 1 /\ fault = "ok"
  /\ builder = IF host = "rust" THEN EmptyBuilder ELSE FromSchema(doc)
  /\ resolved = [actions |-> <<>>] /\ registry = NoRegistry

Up == fault = "ok" /\ stage > Len(Stages)
At(name) == fault = "ok" /\ stage \in DOMAIN Stages /\ Stages[stage] = name

(* A stage is passed, or the host refuses with the fault it found.         *)
Checked(found) == fault' = found /\ stage' = IF found = "ok" THEN stage + 1 ELSE stage

---------------------------------------------------------------------------
(* A Rust program: builder calls in any order, then build.                 *)

Calls == Len(builder.attachments) + Len(builder.actions) + Len(builder.blocks)
Call(b) == /\ At("building") /\ Calls < MaxCalls /\ builder' = b
           /\ UNCHANGED <<host, input, stage, fault, resolved, registry>>

CallFromSchema ==
  /\ At("building") /\ builder = EmptyBuilder /\ builder' = FromSchema(doc)
  /\ UNCHANGED <<host, input, stage, fault, resolved, registry>>
CallAttach == \E id \in Ids, dry_run, slots \in BOOLEAN :
                Call(Attach(builder, id, dry_run, slots))
CallBind == \E id \in Ids, binding \in Bindings : Call(Bind(builder, id, binding))
CallAction == \E def \in Extras.actions, dry_run \in BOOLEAN : Call(Action(builder, def, dry_run, FALSE))
CallBlock == \E def \in Extras.blocks : Call(Block(builder, def))
CallContextParam == \E param \in DOMAIN Extras.paths : Call(ContextParam(builder, param, Extras.paths[param]))

StartBuild ==
  /\ At("building") /\ Checked("ok")
  /\ UNCHANGED <<host, input, builder, resolved, registry>>

(* RegistryBuilder::build consumes the builder.                            *)
Build ==
  /\ At("build") /\ Checked(BuildFault(builder))
  /\ registry' = IF BuildFault(builder) = "ok" THEN Frozen(builder) ELSE NoRegistry
  /\ UNCHANGED <<host, input, builder, resolved>>

---------------------------------------------------------------------------
(* The document and its resolver, for every host that reads one.           *)

LoadSchema ==
  /\ At("schema") /\ Checked(FromJson(doc))
  /\ UNCHANGED <<host, input, builder, resolved, registry>>

(* RegistrySchema::context_resolver. A Python callback takes its place and *)
(* takes over its coverage.                                                *)
HasCallback == host = "python" /\ input.binding.resolve_context_param

BuildResolver ==
  /\ At("resolver")
  /\ Checked(IF HasCallback \/ Unmapped(doc) = {} THEN "ok" ELSE "UnmappedContextParam")
  /\ UNCHANGED <<host, input, builder, resolved, registry>>

---------------------------------------------------------------------------
(* The constructors of the bindings.                                       *)

ChooseLlm ==
  /\ At("llm_choice")
  /\ LET b == input.binding
     IN Checked(IF (b.llm_spec # None) = b.llm_callable THEN "ExactlyOneLlm"
                ELSE IF b.llm_spec = "bad" THEN "LlmSpec" ELSE "ok")
  /\ UNCHANGED <<host, input, builder, resolved, registry>>

(* parse_agent_config: no document means the defaults.                     *)
ParseAgentConfig ==
  /\ At("agent_config") /\ Checked(IF input.binding.config = "bad" THEN "AgentConfig" ELSE "ok")
  /\ UNCHANGED <<host, input, builder, resolved, registry>>

ParseSlotTables ==
  /\ At("slot_tables") /\ Checked(IF input.binding.bad_table THEN "SlotTable" ELSE "ok")
  /\ UNCHANGED <<host, input, builder, resolved, registry>>

Assemble ==
  /\ At("assemble")
  /\ LET found == AssembleRegistry(doc, input.binding.maps)
         with == WithMaps(doc, input.binding.maps)
     IN /\ Checked(found)
        /\ builder' = with
        /\ registry' = IF found = "ok" THEN Frozen(with) ELSE NoRegistry
  /\ UNCHANGED <<host, input, resolved>>

---------------------------------------------------------------------------
(* The service: cleverhans.toml against document and environment.          *)

Parses(route) == route.form # "bad"

(* Mutant: {action} is left as it stands.                                  *)
SubstituteNothing(route, id) == route

Substitute(route, id) == IF route.form = "template" THEN [route EXCEPT !.form = "ok", !.of = id] ELSE route

(* An action's route: its own entry's, else the wildcard's with {action}   *)
(* replaced; an entry without the field falls back too.                    *)
Template(id, field) ==
  IF id \in DOMAIN config.actions /\ config.actions[id][field] # None THEN config.actions[id][field]
  ELSE IF "*" \in DOMAIN config.actions /\ config.actions["*"][field] # None
       THEN Substitute(config.actions["*"][field], id) ELSE None

Slots(id) == IF id \in DOMAIN config.actions THEN config.actions[id].slots ELSE None

RequiredSlots(def) ==
  LET blocks == {i \in DOMAIN doc.blocks : doc.blocks[i].type = def.block}
      first == doc.blocks[CHOOSE i \in blocks : \A j \in blocks : i <= j]
  IN IF blocks = {} THEN {}
     ELSE {p.name : p \in {q \in {first.slots[i] : i \in DOMAIN first.slots} : q.required}}

Uncovered(def) ==
  IF Template(def.id, "build_slots") # None THEN {}
  ELSE RequiredSlots(def) \ (IF Slots(def.id) = None THEN {} ELSE DOMAIN Slots(def.id))

ActionFault(i) ==
  LET def == doc.actions[i]
      routes == {Template(def.id, f) : f \in {"execute", "dry_run", "build_slots"}} \ {None}
  IN IF Template(def.id, "execute") = None THEN "NoExecuteRoute"
     ELSE IF def.mutates /\ Template(def.id, "dry_run") = None THEN "NoDryRunRoute"
     ELSE IF Uncovered(def) # {} THEN "UncoveredSlot"
     ELSE IF \E r \in routes : ~Parses(r) THEN "Route"
     ELSE "ok"

ResolveFault ==
  LET acting == FirstFault([i \in DOMAIN doc.actions |-> ActionFault(i)])
  IN IF "secret" \notin input.env /\ ~config.danger_allow_missing_secret THEN "MissingEnv"
     ELSE IF config.signing_key_env # None /\ config.signing_key_env \notin input.env THEN "MissingEnv"
     ELSE IF acting # "ok" THEN acting
     ELSE IF DOMAIN config.actions \ ({"*"} \cup {doc.actions[i].id : i \in DOMAIN doc.actions}) # {} THEN "UnknownAction"
     ELSE IF ~Parses(config.verify) \/ ~Parses(config.authorize) THEN "Route"
     ELSE "ok"

(* Routes and slots by action id: a BTreeMap, one entry per id.            *)
Resolved ==
  [actions |-> [id \in {doc.actions[i].id : i \in DOMAIN doc.actions} |->
     [execute |-> Template(id, "execute"), dry_run |-> Template(id, "dry_run"),
      build_slots |-> Template(id, "build_slots"), slots |-> Slots(id)]]]

ParseConfig ==
  /\ At("config") /\ Checked(IF config.parses THEN "ok" ELSE "ConfigParse")
  /\ UNCHANGED <<host, input, builder, resolved, registry>>

(* The endpoint of the config, else OTEL_EXPORTER_OTLP_ENDPOINT, else off. *)
Endpoint == IF config.otlp_endpoint # None THEN config.otlp_endpoint
            ELSE IF "otlp" \in input.env THEN "good" ELSE None

InitTelemetry ==
  /\ At("telemetry") /\ Checked(IF Endpoint = "bad" THEN "Telemetry" ELSE "ok")
  /\ UNCHANGED <<host, input, builder, resolved, registry>>

ResolveConfig ==
  /\ At("resolve") /\ Checked(ResolveFault)
  /\ resolved' = IF ResolveFault = "ok" THEN Resolved ELSE resolved
  /\ UNCHANGED <<host, input, builder, registry>>

ResolveLlm ==
  /\ At("llm")
  /\ LET llm == config.llm
     IN Checked(CASE llm.provider = "anthropic" -> IF "api_key" \in input.env THEN "ok" ELSE "MissingEnv"
                  [] llm.provider = "ollama" -> IF llm.model THEN "ok" ELSE "NoModel"
                  [] llm.provider = "scripted" -> IF llm.script THEN "ok" ELSE "NoScript"
                  [] OTHER -> "UnknownProvider")
  /\ UNCHANGED <<host, input, builder, resolved, registry>>

(* HostClient::new.                                                        *)
ClientFault ==
  IF config.base_url = "unparseable" THEN "InvalidBaseUrl"
  ELSE IF config.base_url = "remote_http" /\ ~config.danger_allow_remote_http THEN "RemotePlaintext"
  ELSE IF "secret" \notin input.env /\ ~config.danger_allow_missing_secret THEN "MissingSecret"
  ELSE "ok"

BuildClient ==
  /\ At("client") /\ Checked(ClientFault)
  /\ UNCHANGED <<host, input, builder, resolved, registry>>

(* Mutant: the slot table is kept where the host builds the card.          *)
RouteAttachmentBoth(id, routes) ==
  [id |-> id, handler |-> TRUE, dry_run |-> routes.dry_run # None,
   slots |-> routes.slots # None, async |-> routes.build_slots # None]

(* build_app's loop: each action with its routes, in document order.       *)
RouteAttachment(id, routes) ==
  [id |-> id, handler |-> TRUE, dry_run |-> routes.dry_run # None,
   slots |-> routes.build_slots = None /\ routes.slots # None, async |-> routes.build_slots # None]

AttachRoutes ==
  /\ At("attach")
  /\ builder' = [builder EXCEPT !.attachments =
       [i \in DOMAIN doc.actions |-> RouteAttachment(doc.actions[i].id, resolved.actions[doc.actions[i].id])]]
  /\ Checked("ok")
  /\ UNCHANGED <<host, input, resolved, registry>>

Listen ==
  /\ At("listen") /\ \E bound \in BOOLEAN : Checked(IF bound THEN "ok" ELSE "Bind")
  /\ UNCHANGED <<host, input, builder, resolved, registry>>

---------------------------------------------------------------------------
Next ==
  \/ CallFromSchema \/ CallAttach \/ CallBind \/ CallAction \/ CallBlock \/ CallContextParam \/ StartBuild
  \/ LoadSchema \/ BuildResolver \/ Build
  \/ ChooseLlm \/ ParseAgentConfig \/ ParseSlotTables \/ Assemble
  \/ ParseConfig \/ InitTelemetry \/ ResolveConfig \/ ResolveLlm \/ BuildClient \/ AttachRoutes \/ Listen

Spec == Init /\ [][Next]_vars

---------------------------------------------------------------------------
(* A registry that any host froze is complete: no id twice, every action   *)
(* has its block, a dry run exactly if it mutates and one slot builder at  *)
(* most, and its document is what was declared, no definition lost         *)
(* (RegistryBuilder::build, "inverse of from_schema modulo handlers").     *)
AcceptedComplete ==
  registry # NoRegistry =>
    /\ \A r, s \in registry.regs : r.def.id = s.def.id => r = s
    /\ \A r \in registry.regs :
         /\ r.dry_run = r.def.mutates
         /\ ~(r.slots /\ r.async)
         /\ \E b \in registry.blocks : b.type = r.def.block
    /\ \A b, c \in registry.blocks : b.type = c.type => b = c
    /\ Cardinality(registry.regs) = Len(builder.actions) + Len(builder.pending)
    /\ Schema(registry) =
         [actions |-> {builder.actions[i].def : i \in DOMAIN builder.actions}
                      \cup {builder.pending[i] : i \in DOMAIN builder.pending},
          blocks  |-> {builder.blocks[i] : i \in DOMAIN builder.blocks},
          context_params |-> builder.context_params]

(* Where the schema shown to the model and validation's checks differ: a    *)
(* float without a fraction is an integer to JSON Schema and none to        *)
(* ValueType::check, and of params of one name only the last is shown.      *)
StricterThanShown(def, args) ==
  \/ \E i \in Shown(def) : /\ def.params[i].type.k = "integer" /\ def.params[i].name \in DOMAIN args
                          /\ args[def.params[i].name].k = "integral"
  \/ \E i, j \in Shown(def) : i # j /\ def.params[i].name = def.params[j].name

(* The arguments validation accepts are arguments the model was told of.    *)
(* The reverse fails in two ways only: a key the schema leaves open is      *)
(* refused, as a context param's, and a value the schema admits misfits     *)
(* where the checks are stricter (tool_defs, ValueType, fill_params).       *)
ToolsTellValidation ==
  \A r \in registry.regs :
    LET tool == ToolDef(r.def)
        names == {r.def.params[i].name : i \in DOMAIN r.def.params}
    IN \A given \in SUBSET (names \cup Keys) : \A args \in [given -> Values] :
         /\ FillVerdict(r.def, args) = "ok" => Admits(tool, args) /\ given \subseteq DOMAIN tool.properties
         /\ FillVerdict(r.def, args) = "UnknownParam" =>
              Admits(tool, args) /\ ~(given \subseteq DOMAIN tool.properties)
         /\ FillVerdict(r.def, args) = "misfit" /\ Admits(tool, args) => StricterThanShown(r.def, args)

(* The checks of the bindings in front of the builder refuse nothing that  *)
(* the builder would accept and hide no fault of it: a binding assembles   *)
(* exactly when the maps name the document's actions, each has a handler,  *)
(* and the builder is content (assemble_registry).                         *)
HostsAgree ==
  host \in {"node", "python"} /\ (Up \/ At("assemble") \/ (fault # "ok" /\ Stages[stage] = "assemble")) =>
    LET maps == input.binding.maps
        ids == {doc.actions[i].id : i \in DOMAIN doc.actions}
    IN (AssembleRegistry(doc, maps) = "ok") =
         (/\ maps.handlers = ids /\ maps.dry_runs \cup maps.slot_builders \subseteq ids
          /\ BuildFault(WithMaps(doc, maps)) = "ok")

(* Tables that take their content from what the action really has.         *)
SourcesExist(def, table) ==
  \A n \in DOMAIN table :
    CASE table[n].k = "const" -> TRUE
      [] table[n].k = "param" -> \E i \in DOMAIN def.params : def.params[i].name = table[n].of
      [] OTHER -> def.mutates /\ table[n].of = "summary"

(* A resolved route parses; it has an unsubstituted {action} only if the    *)
(* action's own entry has, and names another action only if the text it     *)
(* comes from does.                                                         *)
RouteMeant(id, field) ==
  LET route == resolved.actions[id][field]
      texts == {config.actions[e][field] : e \in DOMAIN config.actions \cap {id, "*"}} \ {None}
  IN route # None =>
       /\ Parses(route)
       /\ route.form = "template" => id \in DOMAIN config.actions /\ route = config.actions[id][field]
       /\ route.of \in {None, id} \cup {text.of : text \in texts}

(* A host that is up can propose every action it registered: each context  *)
(* param can resolve in some context, and a service is not reachable in    *)
(* plaintext or without its secret by accident, gives every action an      *)
(* execute route, a mutating one a dry run, calls no action's route for    *)
(* another's unless told to, and fills every required slot.                *)
UpIsReady ==
  Up /\ host # "rust" =>
    /\ ~HasCallback => \A r \in registry.regs : \A i \in DOMAIN r.def.params :
         r.def.params[i].source = "context" =>
           \E c \in Contexts : MappedResolve(doc.paths, r.def.params[i].name, c) # None
    /\ host = "serve" =>
         /\ config.base_url = "remote_http" => config.danger_allow_remote_http
         /\ "secret" \in input.env \/ config.danger_allow_missing_secret
         /\ \A r \in registry.regs :
              LET routes == resolved.actions[r.def.id]
                  blocks == {b \in registry.blocks : b.type = r.def.block}
                  params == [n \in {r.def.params[i].name : i \in DOMAIN r.def.params} |-> [k |-> "string", v |-> "p"]]
              IN /\ routes.execute # None /\ (r.def.mutates => routes.dry_run # None)
                 /\ \A field \in {"execute", "dry_run", "build_slots"} : RouteMeant(r.def.id, field)
                 /\ routes.build_slots = None =>
                      LET table == IF routes.slots = None THEN <<>> ELSE routes.slots
                      IN SourcesExist(r.def, table) => \A b \in blocks :
                           {f \in SlotFaults(b, DeclarativeSlots(table, params, [k |-> "string", v |-> "s"])) :
                              f.reason = "missing"} = {}

(* The registry refuses what the configuration accepted only for the        *)
(* document, which resolve does not check, or for a dry run route that      *)
(* reaches an action that does not mutate, as a wildcard's does.            *)
RefusedForCause ==
  host = "serve" /\ fault # "ok" /\ Stages[stage] = "build" =>
    \/ \E i, j \in DOMAIN doc.actions : i # j /\ doc.actions[i].id = doc.actions[j].id
    \/ \E i, j \in DOMAIN doc.blocks : i # j /\ doc.blocks[i].type = doc.blocks[j].type
    \/ \E i \in DOMAIN doc.actions :
         \/ \A j \in DOMAIN doc.blocks : doc.blocks[j].type # doc.actions[i].block
         \/ ~doc.actions[i].mutates /\ Template(doc.actions[i].id, "dry_run") # None

(* A service comes up ready, or it is refused for a cause its author can    *)
(* find in document or config (resolve: "every failure names its cause      *)
(* before the service binds").                                              *)
ServiceReady == UpIsReady /\ RefusedForCause
=============================================================================
