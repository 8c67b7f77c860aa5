------------------------- MODULE ExecutionTelemetry -------------------------
(***************************************************************************)
(* The clockwork of one attempt (src/review/execution-telemetry.ts): the   *)
(* phases it went through and how long each took, and how much of that it  *)
(* waited for its provider and was served by it.  The journal keeps a      *)
(* snapshot in the state database (src/state/review-execution-journal.ts); *)
(* when the process dies, the sweep of another one, with a clock of its    *)
(* own, finishes the snapshot and puts down its own reading as the end.    *)
(***************************************************************************)
EXTENDS Integers, Sequences

CONSTANTS MaxTime, MaxPhases, MaxActivity   \* bounds

VARIABLES clock,      \* the latest reading, in time since the attempt began
          phases,     \* transitions: phase, attempt, when it began, duration
          window,     \* the provider window: its kind, attempt and beginning
          waited, served,   \* time of windows that are closed
          activity,   \* signs of activity
          finished,   \* a terminal event was recorded
          kept,       \* the snapshot in the database
          owner       \* "running", "gone" with its record running, or "done"

telemetryVars == <<clock, phases, window, waited, served, activity, finished, kept, owner>>

Closing == {"validation-repair", "completion"}
Phases == {"context-build", "turn-start", "provider-work"} \cup Closing
Closed == [kind |-> "closed", attempt |-> 0, since |-> 0]
Last(list) == list[Len(list)]

(* The tracker records the first phase before anything is kept.             *)
TelemetryInit ==
  /\ clock = 0 /\ phases = <<[phase |-> "context-build", attempt |-> 0, at |-> 0, lasted |-> 0]>>
  /\ window = Closed /\ waited = 0 /\ served = 0 /\ activity = 0
  /\ finished = FALSE /\ owner = "running"
  /\ kept = [at |-> 0, lived |-> 0, phases |-> phases, window |-> Closed, waited |-> 0, served |-> 0]

-----------------------------------------------------------------------------
(* Readings never go back: normalizeReading.                                *)
Read(reading) == reading \in clock..MaxTime

(* closeProviderWindow                                                      *)
Waited(w, from, to) == IF w.kind = "queued" THEN to - w.since + from ELSE from
Served(w, from, to) == IF w.kind = "active" THEN to - w.since + from ELSE from

Lasting(list, to) ==
  [i \in DOMAIN list |-> IF i = Len(list) THEN [list[i] EXCEPT !.lasted = to - list[i].at] ELSE list[i]]

(* recordPhase: the same phase of the same attempt is not a new one.        *)
Entered(phase, attempt, t) ==
  /\ phases' = Append(Lasting(phases, t), [phase |-> phase, attempt |-> attempt, at |-> t, lasted |-> 0])
  /\ IF phase = "turn-start" \/ phase \in Closing
       THEN /\ window' = IF phase = "turn-start"
                           THEN [kind |-> "queued", attempt |-> attempt, since |-> t] ELSE Closed
            /\ waited' = Waited(window, waited, t) /\ served' = Served(window, served, t)
       ELSE UNCHANGED <<window, waited, served>>

(* snapshot, with the current phase and the open window up to the reading;  *)
(* "lived" is history, the last reading that its own process kept.          *)
Snapshot(t) ==
  [at |-> t, lived |-> t, phases |-> IF finished THEN phases ELSE Lasting(phases, t), window |-> window,
   waited |-> Waited(window, waited, t), served |-> Served(window, served, t)]

(* After an event the journal keeps a snapshot, or leaves it for a later    *)
(* one; the two readings are taken as one.                                  *)
MayKeep(t) == kept' = kept \/ kept' = Snapshot(t)'

RecordPhase ==
  /\ owner = "running" /\ ~finished /\ Len(phases) < MaxPhases
  /\ \E phase \in Phases, t \in 0..MaxTime :
       \E attempt \in IF phase = "turn-start" THEN {1, 2} ELSE {0} :
       /\ Read(t) /\ clock' = t
       /\ phase # Last(phases).phase \/ attempt # Last(phases).attempt
       /\ Entered(phase, attempt, t)
       /\ UNCHANGED <<activity, finished, owner>> /\ MayKeep(t)

(* recordActivity: the first sign of the provider ends the wait.            *)
RecordActivity ==
  /\ owner = "running" /\ ~finished /\ activity < MaxActivity
  /\ \E t \in 0..MaxTime :
       /\ Read(t) /\ clock' = t /\ activity' = activity + 1
       /\ IF window.kind = "queued"
            THEN /\ waited' = waited + t - window.since
                 /\ window' = [window EXCEPT !.kind = "active", !.since = t]
            ELSE UNCHANGED <<waited, window>>
       /\ UNCHANGED <<phases, served, finished, owner>> /\ MayKeep(t)

(* The terminal event; finish either keeps it, or fails and leaves the      *)
(* record running for ever, since the tracker takes no second one.          *)
RecordTerminal ==
  /\ owner = "running" /\ ~finished /\ finished' = TRUE
  /\ \E t \in 0..MaxTime :
       /\ Read(t) /\ clock' = t /\ phases' = Lasting(phases, t)
       /\ waited' = Waited(window, waited, t) /\ served' = Served(window, served, t)
       /\ window' = Closed
       /\ \/ kept' = Snapshot(t)' /\ owner' = "done"
          \/ UNCHANGED <<kept, owner>>
  /\ UNCHANGED activity

Die ==
  /\ owner = "running" /\ owner' = "gone"
  /\ UNCHANGED <<clock, phases, window, waited, served, activity, finished, kept>>

FinishedAt_Again(k, t) ==
  LET end == IF t > Last(k.phases).at THEN t ELSE Last(k.phases).at IN
  [at |-> t, lived |-> k.lived, phases |-> Lasting(k.phases, end), window |-> Closed,
   waited |-> Waited(k.window, k.waited, end), served |-> Served(k.window, k.served, end)]
(* finishPersistedReviewExecutionTelemetry: the time since the snapshot goes*)
(* to the last phase and to the window that was open; a clock that is behind*)
(* adds nothing, and its reading still is what the record says of its end.  *)
FinishedAt(k, t) ==
  LET end == IF t > Last(k.phases).at THEN t ELSE Last(k.phases).at
      more == IF end > k.at THEN end - k.at ELSE 0
  IN [at |-> t, lived |-> k.lived,
      phases |-> [i \in DOMAIN k.phases |->
                    IF i = Len(k.phases) THEN [k.phases[i] EXCEPT !.lasted = @ + more] ELSE k.phases[i]],
      window |-> Closed,
      waited |-> k.waited + (IF k.window.kind = "queued" THEN more ELSE 0),
      served |-> k.served + (IF k.window.kind = "active" THEN more ELSE 0)]

Sweep ==
  /\ owner = "gone" /\ owner' = "done"
  /\ \E t \in -MaxTime..MaxTime : kept' = FinishedAt(kept, t)
  /\ UNCHANGED <<clock, phases, window, waited, served, activity, finished>>

TelemetryNext ==
  RecordPhase \/ RecordActivity \/ RecordTerminal \/ Die \/ Sweep
TelemetrySpec == TelemetryInit /\ [][TelemetryNext]_telemetryVars

-----------------------------------------------------------------------------
(* The time of the phases of S among the first n, for every n.              *)
Sums(list, S) ==
  LET sum[n \in 0 .. Len(list)] ==
        IF n = 0 THEN 0 ELSE sum[n - 1] + (IF n \in S THEN list[n].lasted ELSE 0)
  IN sum
Total(list, S) == Sums(list, S)[Len(list)]
(* A phase is the provider's if a turn started since the last closing one.  *)
Provider(list) == {i \in DOMAIN list : \E j \in 1..i :
  list[j].phase = "turn-start" /\ \A k \in (j + 1)..i : list[k].phase \notin Closing}

(* How long an attempt went on, as far as its record can tell.              *)
Span(k) == IF k.at > k.lived THEN k.at ELSE k.lived

(* What is kept accounts for every moment once, also when a process was     *)
(* killed between any two events and another one finished the record: the   *)
(* phases take the time up to the recorded end or, where the clock of the   *)
(* finisher was behind and its end lies before the last sign of life, up to *)
(* that sign; the provider's phases are the time waited and served, and     *)
(* none is negative.                                                        *)
TimeAddsUp ==
  /\ Total(kept.phases, DOMAIN kept.phases) = Span(kept)
  /\ Total(kept.phases, Provider(kept.phases)) = kept.waited + kept.served
  /\ \A i \in DOMAIN kept.phases : kept.phases[i].lasted >= 0

-----------------------------------------------------------------------------
(* What the proofs need                                                     *)

Transition == [phase : Phases, attempt : Nat, at : Nat, lasted : Nat]
Windows == [kind : {"closed", "queued", "active"}, attempt : Nat, since : Nat]
Accounts(list, at, from, to) ==
  /\ list \in Seq(Transition) /\ Len(list) # 0
  /\ Total(list, DOMAIN list) = at /\ Total(list, Provider(list)) = from + to
IsOpen(w, list) == w.kind # "closed" <=> Len(list) \in Provider(list)

(* Up to the beginning of the phase that goes on, what the provider took is *)
(* known but for the window that is open.                                   *)
GoesOn(list, w, from, to, now) ==
  /\ w \in Windows /\ w.since <= now /\ from \in Nat /\ to \in Nat /\ now \in Nat
  /\ Accounts(list, Last(list).at, from,
              to + IF w.kind = "closed" THEN 0 ELSE Last(list).at - w.since)
  /\ Last(list).at <= now /\ Last(list).lasted = 0 /\ IsOpen(w, list)
TrackerFits ==
  /\ finished \in BOOLEAN
  /\ ~finished => GoesOn(phases, window, waited, served, clock)
(* A snapshot that another process may finish knows whether a window is open*)
KeptFits ==
  /\ DOMAIN kept = {"at", "lived", "phases", "window", "waited", "served"}
  /\ kept.at \in Int /\ kept.lived \in Nat /\ kept.waited \in Nat /\ kept.served \in Nat
  /\ Accounts(kept.phases, Span(kept), kept.waited, kept.served)
  /\ owner # "done" => /\ kept.at = kept.lived /\ Last(kept.phases).at <= kept.lived
                       /\ kept.window \in Windows /\ IsOpen(kept.window, kept.phases)
TelemetryFits == TrackerFits /\ KeptFits
=============================================================================
