--------------------------- MODULE RegistryBuild ---------------------------
(***************************************************************************)
(* The registry: the document a host writes, the handlers it binds, and    *)
(* the checks between them and a frozen registry. RegistryBuilder::build   *)
(* is a sequence of loops that return at the first fault; here each loop   *)
(* is the faults its elements would raise, in the loop's order, and Build  *)
(* returns the first. Handlers are only present or absent.                 *)
(*                                                                         *)
(* A document is [version, blocks, actions, paths]: blocks and actions in  *)
(* sequence, duplicates included, paths a function from parameter names to *)
(* [head, key], key "" for an empty one and None for none.                 *)
(***************************************************************************)
EXTENDS Naturals, Sequences, FiniteSets

CONSTANT None

---------------------------------------------------------------------------
(* Types. A JSON value is [k, v]: its kind and what tells it from others   *)
(* of the kind. "integral" is a float without a fraction.                  *)

Checks(type, value) ==
  CASE type.k = "string"  -> value.k = "string"
    [] type.k = "integer" -> value.k = "integer"
    [] type.k = "number"  -> value.k \in {"integer", "integral", "number"}
    [] type.k = "boolean" -> value.k = "boolean"
    [] type.k = "enum"    -> value.k = "string" /\ value.v \in type.allowed
    [] type.k = "json"    -> TRUE

(* Mutant: an enum is checked like any string.                             *)
EnumAsString(type) == [type |-> "string", enum |-> None]

json_schema(type) ==
  CASE type.k = "json" -> [type |-> "any", enum |-> None]
    [] type.k = "enum" -> [type |-> "string", enum |-> type.allowed]
    [] OTHER           -> [type |-> type.k, enum |-> None]

(* What a model told a schema may send for it.                             *)
Conforms(schema, value) ==
  /\ CASE schema.type = "any" -> TRUE
       [] schema.type = "integer" -> value.k \in {"integer", "integral"}
       [] schema.type = "number" -> value.k \in {"integer", "integral", "number"}
       [] OTHER -> value.k = schema.type
  /\ schema.enum # None => value.v \in schema.enum

---------------------------------------------------------------------------
(* The document: from_json's gates and the resolver over its paths.        *)

(* Mutant: a path is checked by its head only.                             *)
HeadIsValid(path) == path.head \in {"route", "selected_record_id", "view_type", "params", "extensions"}

(* A field of the context by its name, or one literal key of a map.        *)
context_path_is_valid(path) ==
  \/ path.key = None /\ path.head \in {"route", "selected_record_id", "view_type"}
  \/ path.key # None /\ path.key # "" /\ path.head \in {"params", "extensions"}

FromJson(doc) ==
  IF ~doc.wellformed THEN "Parse"
  ELSE IF doc.version # "0.1" THEN "UnsupportedVersion"
  ELSE IF \E p \in DOMAIN doc.paths : ~context_path_is_valid(doc.paths[p]) THEN "InvalidContextPath"
  ELSE "ok"

(* Context-sourced params of the document that its paths leave out.        *)
Unmapped(doc) ==
  {p \in UNION {{doc.actions[i].params[j] : j \in DOMAIN doc.actions[i].params} : i \in DOMAIN doc.actions} :
     p.source = "context" /\ p.name \notin DOMAIN doc.paths}

(* MappedContextResolver::resolve in a context whose fields, params and    *)
(* extensions are functions to values or None.                             *)
MappedResolve(paths, name, c) ==
  IF name \notin DOMAIN paths THEN None
  ELSE LET path == paths[name]
       IN IF path.key = None
          THEN IF path.head \in {"route", "selected_record_id", "view_type"} THEN c.fields[path.head] ELSE None
          ELSE CASE path.head = "params" -> c.params[path.key]
                 [] path.head = "extensions" -> c.extensions[path.key]
                 [] OTHER -> None

---------------------------------------------------------------------------
(* Cards. A table maps slot names to sources [k, of]; params and preview   *)
(* are what validation filled and the dry run answered.                    *)

SlotValue(source, params, preview) ==
  CASE source.k = "const" -> source.of
    [] source.k = "param" -> IF source.of \in DOMAIN params THEN params[source.of] ELSE None
    [] source.k = "preview" -> IF source.of = "summary" THEN preview ELSE None

DeclarativeSlots(table, params, preview) ==
  [n \in {m \in DOMAIN table : SlotValue(table[m], params, preview) # None} |->
     SlotValue(table[n], params, preview)]

(* BlockDef::check_slots.                                                  *)
SlotFaults(block, slots) ==
  LET specs == {block.slots[i] : i \in DOMAIN block.slots}
  IN {[slot |-> p.name, reason |-> "mistyped"] :
        p \in {q \in specs : q.name \in DOMAIN slots /\ ~Checks(q.type, slots[q.name])}}
     \cup {[slot |-> p.name, reason |-> "missing"] : p \in {q \in specs : q.required /\ q.name \notin DOMAIN slots}}
     \cup {[slot |-> n, reason |-> "unknown"] : n \in DOMAIN slots \ {p.name : p \in specs}}

---------------------------------------------------------------------------
(* The builder. An attachment is [id, handler, dry_run, slots, async].     *)

ActionRegistration(def, dry_run, slots, async) ==
  [def |-> def, dry_run |-> dry_run, slots |-> slots, async |-> async]

EmptyBuilder ==
  [blocks |-> <<>>, pending |-> <<>>, attachments |-> <<>>, actions |-> <<>>, context_params |-> <<>>]
FromSchema(doc) ==
  [EmptyBuilder EXCEPT !.blocks = doc.blocks, !.pending = doc.actions, !.context_params = doc.paths]

Attach(b, id, dry_run, slots) ==
  [b EXCEPT !.attachments = Append(@,
     [id |-> id, handler |-> TRUE, dry_run |-> dry_run, slots |-> slots, async |-> FALSE])]
Bind(b, id, binding) ==
  [b EXCEPT !.attachments = Append(@,
     [id |-> id, handler |-> binding.handler, dry_run |-> binding.dry_run,
      slots |-> binding.slots, async |-> binding.async])]
Block(b, def) == [b EXCEPT !.blocks = Append(@, def)]

(* A later path of a param replaces an earlier one; none is checked.       *)
Mapped(paths, param, path) ==
  [p \in DOMAIN paths \cup {param} |-> IF p = param THEN path ELSE paths[p]]
ContextParam(b, param, path) == [b EXCEPT !.context_params = Mapped(@, param, path)]

Action(b, def, dry_run, slots) ==
  [b EXCEPT !.actions = Append(@, ActionRegistration(def, dry_run, slots, FALSE))]

(* The first attachment of an id takes the first pending def of that id,   *)
(* the second the second: the def at position k is taken by the attachment *)
(* that has as many of its id before it.                                   *)
Before(s, i) == Cardinality({j \in 1..(i - 1) : s[j].id = s[i].id})
Takes(b, a, k) ==
  /\ b.pending[k].id = b.attachments[a].id
  /\ Before(b.pending, k) = Before(b.attachments, a)

AttachFault(b, a) ==
  LET at == b.attachments[a]
  IN IF ~\E k \in DOMAIN b.pending : Takes(b, a, k)
     THEN IF (\E j \in 1..(a - 1) : b.attachments[j].id = at.id) \/ (\E i \in DOMAIN b.actions : b.actions[i].def.id = at.id)
          THEN "DuplicateAttachment" ELSE "UnknownAttachment"
     ELSE IF ~at.handler THEN "MissingHandler"
     ELSE IF at.slots /\ at.async THEN "ConflictingSlotBuilders"
     ELSE "ok"

Unattached(b) == {k \in DOMAIN b.pending : ~\E a \in DOMAIN b.attachments : Takes(b, a, k)}

BlockFault(b, i) ==
  IF \E j \in 1..(i - 1) : b.blocks[j].type = b.blocks[i].type THEN "DuplicateBlock" ELSE "ok"

(* The programmatic registrations, then the attached ones in their order.  *)
Attached(b, a) ==
  LET at == b.attachments[a]
  IN ActionRegistration(b.pending[CHOOSE k \in DOMAIN b.pending : Takes(b, a, k)], at.dry_run, at.slots, at.async)
Registrations(b) == b.actions \o [a \in DOMAIN b.attachments |-> Attached(b, a)]

(* Mutant: a dry run nobody will call is let pass.                         *)
DryRunMissing(reg) == IF reg.def.mutates /\ ~reg.dry_run THEN "MissingDryRun" ELSE "ok"

(* A dry run is there exactly if the action mutates.                       *)
DryRunFault(reg) ==
  CASE reg.def.mutates /\ ~reg.dry_run -> "MissingDryRun"
    [] ~reg.def.mutates /\ reg.dry_run -> "UnexpectedDryRun"
    [] OTHER -> "ok"

RegistrationFault(b, i) ==
  LET reg == Registrations(b)[i]
  IN IF ~\E k \in DOMAIN b.blocks : b.blocks[k].type = reg.def.block THEN "UnknownBlockType"
     ELSE IF DryRunFault(reg) # "ok" THEN DryRunFault(reg)
     ELSE IF \E j \in 1..(i - 1) : Registrations(b)[j].def.id = reg.def.id THEN "DuplicateAction"
     ELSE "ok"

(* A loop returns at the first element that has a fault.                   *)
FirstFault(fault) ==
  IF \A i \in DOMAIN fault : fault[i] = "ok" THEN "ok"
  ELSE fault[CHOOSE i \in DOMAIN fault : fault[i] # "ok" /\ \A j \in DOMAIN fault : fault[j] # "ok" => i <= j]

BuildFault(b) ==
  LET attaching == FirstFault([a \in DOMAIN b.attachments |-> AttachFault(b, a)])
      blocks == FirstFault([i \in DOMAIN b.blocks |-> BlockFault(b, i)])
  IN IF attaching # "ok" THEN attaching
     ELSE IF Unattached(b) # {} THEN "UnattachedAction"
     ELSE IF blocks # "ok" THEN blocks
     ELSE FirstFault([i \in DOMAIN Registrations(b) |-> RegistrationFault(b, i)])

NoRegistry == [regs |-> {}, blocks |-> {}, context_params |-> <<>>]
Frozen(b) ==
  [regs   |-> {Registrations(b)[i] : i \in DOMAIN Registrations(b)},
   blocks |-> {b.blocks[i] : i \in DOMAIN b.blocks},
   context_params |-> b.context_params]

(* Registry::schema gives the document back, without its order.            *)
Schema(reg) ==
  [actions |-> {r.def : r \in reg.regs}, blocks |-> reg.blocks, context_params |-> reg.context_params]

---------------------------------------------------------------------------
(* Calls. The model is shown the utterance params, and validation checks a *)
(* call's arguments, a function from keys to values, against them.         *)

Shown(def) == {i \in DOMAIN def.params : def.params[i].source = "utterance"}
ShownNames(def) == {def.params[i].name : i \in Shown(def)}

(* Registry::tool_defs: the last param of a name, and which of them a call  *)
(* must carry. Nothing forbids other properties.                           *)
ToolDef(def) ==
  LET named(n) == {i \in Shown(def) : def.params[i].name = n}
      last(n) == CHOOSE i \in named(n) : \A j \in named(n) : j <= i
  IN [name       |-> def.id,
      properties |-> [n \in ShownNames(def) |-> json_schema(def.params[last(n)].type)],
      required   |-> {def.params[i].name : i \in {j \in Shown(def) : def.params[j].required}}]

(* A model told a tool may send any object with the required properties and *)
(* values that conform where the schema has one.                           *)
Admits(tool, args) ==
  /\ tool.required \subseteq DOMAIN args
  /\ \A n \in DOMAIN args \cap DOMAIN tool.properties : Conforms(tool.properties[n], args[n])

(* fill_params' loop over the utterance params, then its search for keys    *)
(* that are none.                                                          *)
Misfits(def, args) ==
  {i \in Shown(def) :
     IF def.params[i].name \in DOMAIN args THEN ~Checks(def.params[i].type, args[def.params[i].name])
     ELSE def.params[i].required}

(* Mutant: keys nobody declared are let pass.                              *)
FillVerdictLax(def, args) == IF Misfits(def, args) # {} THEN "misfit" ELSE "ok"

FillVerdict(def, args) ==
  IF Misfits(def, args) # {} THEN "misfit"
  ELSE IF DOMAIN args \subseteq ShownNames(def) THEN "ok"
  ELSE "UnknownParam"

---------------------------------------------------------------------------
(* assemble_registry: the checks of the language bindings in front of the  *)
(* builder. maps is [handlers, dry_runs, slot_builders], sets of ids; a    *)
(* map's entry is taken out by the first action of its id.                 *)
AssembleFault(doc, maps, i) ==
  LET def == doc.actions[i]
      earlier == \E j \in 1..(i - 1) : doc.actions[j].id = def.id
  IN IF earlier \/ def.id \notin maps.handlers THEN "NoHandler"
     ELSE IF ~def.mutates /\ def.id \in maps.dry_runs THEN "UncalledDryRun"
     ELSE IF def.mutates /\ def.id \notin maps.dry_runs THEN "NoDryRun"
     ELSE "ok"

(* Mutant: only the handlers are checked for keys nobody asked for.        *)
UnknownHandlerKey(doc, maps) == maps.handlers \ {doc.actions[i].id : i \in DOMAIN doc.actions} # {}

UnknownKey(doc, maps) ==
  (maps.handlers \cup maps.dry_runs \cup maps.slot_builders) \ {doc.actions[i].id : i \in DOMAIN doc.actions} # {}

WithMaps(doc, maps) ==
  [FromSchema(doc) EXCEPT !.attachments =
     [i \in DOMAIN doc.actions |->
        [id |-> doc.actions[i].id, handler |-> TRUE, dry_run |-> doc.actions[i].id \in maps.dry_runs,
         slots |-> doc.actions[i].id \in maps.slot_builders, async |-> FALSE]]]

AssembleRegistry(doc, maps) ==
  LET checked == FirstFault([i \in DOMAIN doc.actions |-> AssembleFault(doc, maps, i)])
  IN IF checked # "ok" THEN checked
     ELSE IF UnknownKey(doc, maps) THEN "UnknownKey"
     ELSE BuildFault(WithMaps(doc, maps))
=============================================================================
