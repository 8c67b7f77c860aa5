----------------------------- MODULE AgentSetup -----------------------------
(***************************************************************************)
(* Preparing a project for coding agents (src/integrations/agent-path.ts,  *)
(* claude-code.ts): a section of AGENTS.md between two markers, and an     *)
(* entry under SessionStart in .claude/settings.json.  Both files belong to*)
(* the user, who has edited them, and older versions have left entries and *)
(* sections of their own.  Each file is replaced by rename, so a command   *)
(* that is killed leaves the old one.                                      *)
(*                                                                         *)
(* Settings are groups of entries under a matcher; a group that cannot be  *)
(* parsed is passed over.  The text is a sequence of lines, "block" being  *)
(* the one line between the markers.                                       *)
(***************************************************************************)
EXTENDS Naturals, Sequences

CONSTANTS MaxGroups, MaxEntries, MaxText   \* bounds on the files met first

VARIABLES settings, text,        \* the two files
          settings0, text0,      \* as they were before the first setup
          setups                 \* setups finished, at most two

setupVars == <<settings, text, settings0, text0, setups>>

Lists(S, n) == UNION {[1..m -> S] : m \in 0..n}
Has(list, e) == \E i \in DOMAIN list : list[i] = e
FirstOf(S) == IF S = {} THEN 0 ELSE CHOOSE i \in S : \A j \in S : i <= j

Canonical == "startup|resume"
Groups == [matcher : {Canonical, "startup"}, parsed : BOOLEAN,
           entries : Lists({"managed", "other"}, MaxEntries)]
Missing == <<"missing">>

SetupInit ==
  /\ \/ settings \in Lists(Groups, MaxGroups) /\ text = Missing
     \/ settings = <<>> /\ text \in {Missing} \cup Lists({"user", "start", "block", "end"}, MaxText)
  /\ settings0 = settings /\ text0 = text /\ setups = 0

(* Lists, put together; the elements of a list that are in S.              *)
Joined(lists) ==
  LET upTo[n \in 0..Len(lists)] == IF n = 0 THEN <<>> ELSE upTo[n - 1] \o lists[n]
  IN upTo[Len(lists)]
Only(list, S) == Joined([i \in DOMAIN list |-> IF list[i] \in S THEN <<list[i]>> ELSE <<>>])

(* isManagedEntry decides by the last arguments of an entry.                *)
Others(entries) == Only(entries, {"other"})

(* reconcileManagedEntries: every managed entry goes, and every group that  *)
(* has none left.                                                           *)
Rest(g) ==
  IF ~g.parsed THEN <<g>>
  ELSE IF Others(g.entries) = <<>> THEN <<>> ELSE <<[g EXCEPT !.entries = Others(g.entries)]>>
Swept_FirstOnly(groups) ==
  LET first == FirstOf({j \in DOMAIN groups : groups[j].parsed /\ Has(groups[j].entries, "managed")}) IN
  Joined([i \in DOMAIN groups |->
            IF i # first /\ groups[i].entries # <<>> THEN <<groups[i]>> ELSE Rest(groups[i])])
Swept(groups) == Joined([i \in DOMAIN groups |-> Rest(groups[i])])

(* One entry is put into the first canonical group, or into a new group.    *)
Reconciled(groups) ==
  LET rest == Swept(groups)
      home == FirstOf({j \in DOMAIN rest : rest[j].parsed /\ rest[j].matcher = Canonical})
  IN IF home = 0
       THEN Append(rest, [matcher |-> Canonical, parsed |-> TRUE, entries |-> <<"managed">>])
       ELSE [rest EXCEPT ![home].entries = Append(@, "managed")]

(* mergeAgentInstruction: what follows a start without an end is dropped.   *)
Block == <<"start", "block", "end">>
Merged(lines) ==
  LET start == FirstOf({i \in DOMAIN lines : lines[i] = "start"})
      end == FirstOf({i \in start + 1..Len(lines) : lines[i] = "end"})
  IN IF lines = Missing THEN Block
     ELSE IF start = 0 THEN lines \o Block
     ELSE SubSeq(lines, 1, start - 1) \o Block
          \o (IF end = 0 THEN <<>> ELSE SubSeq(lines, end + 1, Len(lines)))

(* enableAgentPath: the instruction, then the hook, each only if wanted; the*)
(* hook also fails on settings that are no JSON object.                     *)
EnableAgentPath ==
  /\ setups < 2 /\ setups' = setups + 1
  /\ \/ text' = Merged(text) /\ settings' = Reconciled(settings)
     \/ text' = Merged(text) /\ UNCHANGED settings
     \/ settings' = Reconciled(settings) /\ UNCHANGED text
  /\ UNCHANGED <<settings0, text0>>

SetupNext == EnableAgentPath
SetupSpec == SetupInit /\ [][SetupNext]_setupVars

-----------------------------------------------------------------------------
Entries(groups) == Joined([i \in DOMAIN groups |-> IF groups[i].parsed THEN groups[i].entries ELSE <<>>])
UserText(lines) == Only(lines, {"user"})
WellMarked(lines) == \A i \in DOMAIN lines :
  lines[i] = "start" => i + 2 <= Len(lines) /\ SubSeq(lines, i, i + 2) = Block

(* Whatever is in the files, a setup ends with one managed entry, in a group*)
(* that fires on every start, keeps all else in its order, and a second one *)
(* changes nothing; text between proper markers is all that it replaces.    *)
SetupConverges ==
  /\ settings # settings0 =>
       /\ \E i \in DOMAIN settings : LET g == settings[i] IN
            g.parsed /\ g.matcher = Canonical /\ Has(g.entries, "managed")
       /\ Only(Entries(settings), {"managed"}) = <<"managed">>
       /\ Others(Entries(settings)) = Others(Entries(settings0))
       /\ Reconciled(settings) = settings
  /\ text # text0 =>
       /\ Merged(text) = text
       /\ WellMarked(text0) => UserText(text) = UserText(text0)

-----------------------------------------------------------------------------
(* What the proofs need: the files are what the first setups have made of   *)
(* those that they met.                                                     *)
GroupLike == [matcher : {Canonical, "startup"}, parsed : BOOLEAN, entries : Seq({"managed", "other"})]
SettingsLike == Seq(GroupLike)
TextLike == Seq({"user", "start", "block", "end", "missing"})
SetupFits ==
  /\ settings0 \in SettingsLike /\ text0 \in TextLike
  /\ settings \in {settings0, Reconciled(settings0)}
  /\ text \in {text0, Merged(text0)}
=============================================================================
