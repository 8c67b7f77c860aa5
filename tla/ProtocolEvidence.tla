---------------------------- MODULE ProtocolEvidence ----------------------------
(***************************************************************************)
(* The check that comes before every Codex review (inspectCodexProtocol of *)
(* src/codex/protocol-evidence.ts, called by src/codex/executor.ts): the   *)
(* installed Codex prints its version and generates its protocol, once as  *)
(* TypeScript and once as JSON schemas, into a temporary directory that is *)
(* read back and compared with what the review relies on, all under one    *)
(* deadline and one signal.  A schema is a tree of nodes with references.  *)
(***************************************************************************)
EXTENDS Naturals, Sequences, FiniteSets

CONSTANTS
  Nodes,    \* the nodes of a JSON schema, 1 the whole document
  MaxRefs,  \* bound on its references
  Samples,  \* the schemas that a Codex here generates
  Required  \* the generated paths that the review relies on

VARIABLES doc,       \* the schema in the required JSON files
          generated, \* extension -> the required paths that are there and in order
          ev,        \* the check
          late,      \* the deadline has passed
          aborted    \* the signal was given

evidenceVars == <<doc, generated, ev, late, aborted>>
Outside == <<doc, generated>>

-----------------------------------------------------------------------------
(* Schemas.  A node is below its parent as a variant (allOf, anyOf, oneOf)  *)
(* or as the property; a $ref may name any node; one node allows the value. *)

TreeShapes ==
  {t \in [parent : [Nodes -> Nodes \cup {0}], property : SUBSET Nodes] :
     /\ t.parent[1] = 0 /\ 1 \notin t.property
     /\ \A n \in Nodes \ {1} : t.parent[n] \in 1 .. n - 1
     /\ \A m, n \in t.property : m # n => t.parent[m] # t.parent[n]}
References ==
  {r \in [Nodes -> Nodes \cup {0}] : Cardinality({n \in Nodes : r[n] # 0}) <= MaxRefs}
Schemas ==
  {[parent |-> t.parent, property |-> t.property, ref |-> r] : t \in TreeShapes, r \in References}

VariantsOf(d, n) == {m \in Nodes \ d.property : d.parent[m] = n}
PropertyOf(d, S) == {m \in d.property : d.parent[m] \in S}

(* expandSchema: a reference that was followed above is not followed again, *)
(* and the variants are expanded with the references followed above.        *)
Expand(d, expand, n, visited) ==
  LET to == d.ref[n]
  IN {n} \cup (IF to # 0 /\ to \notin visited THEN expand[<<to, visited \cup {to}>>] ELSE {})
         \cup UNION {expand[<<m, visited>>] : m \in VariantsOf(d, n)}
Expanded_OnePass(d, start) ==
  {start} \cup VariantsOf(d, start)
    \cup (IF d.ref[start] = 0 THEN {} ELSE {d.ref[start]} \cup VariantsOf(d, d.ref[start]))
Expanded(d, start) ==
  LET expand[call \in Nodes \X SUBSET Nodes] == Expand(d, expand, call[1], call[2])
  IN expand[<<start, {}>>]

Below(d, S) == PropertyOf(d, UNION {Expanded(d, n) : n \in S})

(* schemasAtPropertyPath, for a path of k properties.                       *)
AtPath(d, k) ==
  LET at[i \in 0..k] == IF i = 0 THEN {1} ELSE Below(d, at[i - 1])
  IN at[k]

(* Of the property at the end of a path the value it must allow: one path   *)
(* stands for all of REQUIRED_JSON_SCHEMA_EXPECTATIONS.                     *)
Expectation == [properties |-> 1]

(* validateGeneratedJsonSchema of property-enum and property-type.          *)
Ends(d, k) == UNION {Expanded(d, n) : n \in AtPath(d, k)}
Validates(d) == d.allows \in Ends(d, Expectation.properties)

-----------------------------------------------------------------------------
(* The check                                                                *)

Phases == <<"version", "generate-ts", "generate-json-schema">>
Kinds == {"executable-missing", "generation-failed", "protocol-incompatible", "cancelled", "timeout"}

EvidenceInit ==
  /\ late = FALSE /\ aborted \in BOOLEAN
  /\ doc \in Samples
  /\ generated = [ts |-> {}, json |-> {}]
  /\ ev = [pc |-> "startup", phase |-> 0, todo |-> {}, made |-> {}, dir |-> FALSE]

Running == ev.pc \notin Kinds \cup {"evidence"}
(* The temporary directory is removed however the check ends.               *)
End(kind) == ev' = [ev EXCEPT !.pc = kind, !.dir = FALSE]
Goes(pc) == ev' = [ev EXCEPT !.pc = pc]

DeadlinePasses == Running /\ ~late /\ late' = TRUE /\ UNCHANGED <<doc, generated, ev, aborted>>
Abort == Running /\ ~aborted /\ aborted' = TRUE /\ UNCHANGED <<doc, generated, ev, late>>

(* throwIfCancelled, then the deadline, where both are asked.               *)
Stops == IF aborted THEN End("cancelled") ELSE End("timeout")

Startup ==
  /\ ev.pc = "startup"
  /\ IF aborted THEN End("cancelled") ELSE ev' = [ev EXCEPT !.pc = "find", !.phase = 1, !.dir = TRUE]
  /\ UNCHANGED <<Outside, late, aborted>>

(* runCodex: ensureExecutableAvailable looks at the candidates again before *)
(* every phase.                                                             *)
FindExecutable ==
  /\ ev.pc = "find"
  /\ \/ (aborted \/ late) /\ Stops
     \/ ~aborted /\ ~late /\ Goes("spawn")
     \/ ~aborted /\ End("executable-missing")
  /\ UNCHANGED <<Outside, late, aborted>>

Spawn ==
  /\ ev.pc = "spawn"
  /\ IF late THEN End("timeout") ELSE Goes("runs")
  /\ UNCHANGED <<Outside, late, aborted>>

ToGenerate == IF ev.phase = 2 THEN {"ts"} ELSE IF ev.phase = 3 THEN {"json"} ELSE {}

(* The child exits with 0, having generated what it would: of the version   *)
(* the text is checked, of a tree the files are read later.                 *)
ChildSucceeds ==
  /\ ev.pc = "runs"
  /\ \E made \in SUBSET Required :
       generated' = [x \in {"ts", "json"} |-> IF x \in ToGenerate THEN made ELSE generated[x]]
  /\ \/ /\ ev.phase = 1
        /\ End("protocol-incompatible")
     \/ ev' = [ev EXCEPT !.pc = "next", !.made = @ \cup ToGenerate]
  /\ UNCHANGED <<doc, late, aborted>>

(* The child fails, or execa ends it for the deadline or the signal, which  *)
(* the catch asks for in this order.                                        *)
ChildFails ==
  /\ ev.pc = "runs"
  /\ \E kind \in {"timeout", "cancelled", "executable-missing", "generation-failed"} :
       /\ kind = "timeout" => late
       /\ kind = "cancelled" <=> aborted /\ kind # "timeout"
       /\ End(kind)
  /\ UNCHANGED <<Outside, late, aborted>>

NextPhase ==
  /\ ev.pc = "next"
  /\ IF aborted THEN End("cancelled")
     ELSE IF ev.phase < Len(Phases) THEN ev' = [ev EXCEPT !.pc = "find", !.phase = @ + 1]
     ELSE ev' = [ev EXCEPT !.pc = "ts", !.todo = Required]
  /\ UNCHANGED <<Outside, late, aborted>>

(* A required path is there with all its tokens.                            *)
Present(file, tree) == file \in generated[tree]

(* inspectTree: the required paths must be listed; every file is read,      *)
(* hashed and compared.                                                     *)
ReadFile(file) ==
  /\ ev.pc \in {"ts", "json"} /\ file \in ev.todo
  /\ IF aborted \/ late THEN Stops
     ELSE IF ~Present(file, ev.pc) \/ (ev.pc = "json" /\ ~Validates(doc))
     THEN End("protocol-incompatible")
     ELSE ev' = [ev EXCEPT !.todo = @ \ {file}]
  /\ UNCHANGED <<Outside, late, aborted>>

TreeRead ==
  /\ ev.pc \in {"ts", "json"} /\ ev.todo = {}
  /\ IF ev.pc = "json" THEN End("evidence")
     ELSE IF aborted THEN End("cancelled")
     ELSE ev' = [ev EXCEPT !.pc = "json", !.todo = Required]
  /\ UNCHANGED <<Outside, late, aborted>>

EvidenceNext ==
  \/ DeadlinePasses \/ Abort \/ Startup \/ FindExecutable \/ Spawn \/ ChildSucceeds \/ ChildFails
  \/ NextPhase \/ TreeRead \/ \E file \in Required : ReadFile(file)

-----------------------------------------------------------------------------
(* The nodes that references and variants lead to: what is in every set that*)
(* holds the first and what its nodes refer to and have for variants.       *)
Closed(d, S) == \A n \in S : VariantsOf(d, n) \subseteq S /\ (d.ref[n] # 0 => d.ref[n] \in S)
Leads(d, start) == {n \in Nodes : \A S \in SUBSET Nodes : start \in S /\ Closed(d, S) => n \in S}

LeadEnds(d, k) ==
  LET first == PropertyOf(d, Leads(d, 1))
      last == IF k = 1 THEN first ELSE PropertyOf(d, UNION {Leads(d, n) : n \in first})
  IN UNION {Leads(d, n) : n \in last}
Allowed == doc.allows \in LeadEnds(doc, 1)

(* A review starts only with a Codex whose generated protocol was all read  *)
(* and holds every required file, whose schema allows, at the end of some   *)
(* chain of references and variants, what the review relies on, and none    *)
(* is refused for a chain of references that runs in a circle, whatever the *)
(* schema; a refusal names a cause that is there; and no temporary          *)
(* directory stays.                                                         *)
EvidenceIsEarned ==
  /\ ev.pc = "evidence" =>
       /\ ev.made = {"ts", "json"} /\ Allowed
       /\ \A x \in {"ts", "json"} : generated[x] = Required
  /\ ev.pc = "protocol-incompatible" /\ ev.phase > 1 =>
       ~Allowed \/ \E x \in {"ts", "json"} : generated[x] # Required
  /\ ev.pc = "cancelled" => aborted
  /\ ev.pc = "timeout" => late
  /\ ~Running => ~ev.dir
  /\ ev.pc = "startup" /\ ~late /\ ~aborted =>
       \A d \in Schemas, k \in 1..2 : Ends(d, k) = LeadEnds(d, k)

(* What each place of the check has established: the phases that ran have   *)
(* made their trees, the files that were read were there and in order, and  *)
(* a refusal of a file comes in the third phase, for a cause that is there. *)
Places == {"startup", "find", "spawn", "runs", "next", "ts", "json", "evidence"} \cup Kinds
Made(phase) == {x \in {"ts", "json"} : phase > 1 /\ (x = "json" => phase > 2)}
EvidenceFits ==
  /\ doc \in Samples /\ generated \in [{"ts", "json"} -> SUBSET Required]
  /\ ev \in [pc : Places, phase : 0..3, todo : SUBSET Required, made : SUBSET {"ts", "json"}, dir : BOOLEAN]
  /\ late \in BOOLEAN /\ aborted \in BOOLEAN
  /\ ev.pc = "startup" => ev.made = {}
  /\ ev.pc \in {"find", "spawn", "runs"} => ev.made = Made(ev.phase - 1) /\ ev.phase > 0
  /\ ev.pc = "next" => ev.made = Made(ev.phase) /\ ev.phase > 0
  /\ ev.pc \in {"ts", "json", "evidence"} => ev.made = {"ts", "json"} /\ ev.phase = 3
  /\ ev.pc = "ts" => Required \ ev.todo \subseteq generated["ts"]
  /\ ev.pc = "json" => /\ generated["ts"] = Required
                       /\ Required \ ev.todo \subseteq generated["json"]
                       /\ Required \ ev.todo # {} => Validates(doc)
  /\ ev.pc = "evidence" => Validates(doc) /\ \A x \in {"ts", "json"} : generated[x] = Required
  /\ ev.pc = "protocol-incompatible" /\ ev.phase > 1 =>
       ~Validates(doc) \/ \E x \in {"ts", "json"} : generated[x] # Required
  /\ ev.pc = "cancelled" => aborted
  /\ ev.pc = "timeout" => late
  /\ ~Running => ~ev.dir

EvidenceSpec == EvidenceInit /\ [][EvidenceNext]_evidenceVars
===============================================================================
