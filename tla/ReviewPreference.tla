--------------------------- MODULE ReviewPreference ---------------------------
(***************************************************************************)
(* The local preferences (src/review-preference.ts), the commands that     *)
(* change them (`diffowl backend`, `model`, `reasoning` of src/cli.ts) and *)
(* what a review makes of them (src/effective-config.ts).  The file is     *)
(* shared by all worktrees.  A command reads it twice, once to learn which *)
(* backend is meant and once to change it, and replaces it by rename;      *)
(* nothing keeps two commands apart.                                       *)
(*                                                                         *)
(* Models and reasoning variants are model values.                         *)
(***************************************************************************)
EXTENDS Naturals

CONSTANTS Writers, Backends,
          Default,        \* opencode, in Backends
          Models, Fits,   \* Fits[b]: the models whose name backend b accepts
          Variants,
          MaxChanges      \* bound on the commands

VARIABLES file,     \* preferences.yml
          writer,   \* what each command has read and wants
          changes,
          asked     \* what users asked for: <<backend, model, variant>>

preferenceVars == <<file, writer, changes, asked>>

NoModel == [b \in Backends |-> "none"]
Empty == [kind |-> "none", backend |-> "none", models |-> NoModel, variants |-> NoModel]
Invalid == [Empty EXCEPT !.kind = "invalid"]
Legacy(model) == [Empty EXCEPT !.kind = "legacy", !.models[Default] = model]
Idle == [at |-> "idle", op |-> "none", backend |-> "none", value |-> "none", read |-> Empty]

PreferenceInit ==
  /\ file \in {Empty, Invalid} \cup {Legacy(m) : m \in Fits[Default]}
  /\ writer = [w \in Writers |-> Idle]
  /\ changes = 0 /\ asked = {}

-----------------------------------------------------------------------------
(* resolveReviewBackendPreference                                           *)
BackendOf(preferences, direct) ==
  IF direct # "none" THEN direct
  ELSE IF preferences.kind = "current" /\ preferences.backend # "none" THEN preferences.backend
  ELSE Default

Values(op, b) ==
  IF op = "backend" THEN {"set"} ELSE IF op = "model" THEN Fits[b] ELSE Variants

(* What the commands want; an invalid name of a model ends them.  Each has  *)
(* its first look at the file, except `backend`.                            *)
Want(w) ==
  /\ writer[w] = Idle /\ changes < MaxChanges
  /\ \E op \in {"backend", "model", "reasoning"} :
       /\ op # "backend" => file.kind # "invalid"
       /\ \E b \in IF op = "backend" THEN Backends ELSE {BackendOf(file, "none")} :
          \E value \in {"reset"} \cup Values(op, b) :
            writer' = [writer EXCEPT ![w] =
              [at |-> "load", op |-> op, backend |-> b, value |-> value, read |-> Empty]]
  /\ changes' = changes + 1
  /\ UNCHANGED <<file, asked>>

(* loadReviewPreferences and toCurrentPreferences.  A legacy file stands    *)
(* for the OpenCode backend; a change to its model or reasoning drops that. *)
AsCurrent(op) ==
  [file EXCEPT !.kind = "current",
     !.backend = IF file.kind = "legacy" /\ op = "backend" THEN Default ELSE @]

(* An invalid file, or reasoning without a model, fails the command.        *)
Load(w) ==
  /\ writer[w].at = "load"
  /\ LET c == writer[w] IN
     IF \/ file.kind = "invalid"
        \/ c.op = "reasoning" /\ c.value # "reset" /\ file.models[c.backend] = "none"
       THEN writer' = [writer EXCEPT ![w] = Idle] /\ UNCHANGED asked
       ELSE /\ writer' = [writer EXCEPT ![w].at = "replace", ![w].read = AsCurrent(c.op)]
            /\ asked' = IF c.op = "reasoning" /\ c.value # "reset"
                          THEN asked \cup {<<c.backend, file.models[c.backend], c.value>>}
                          ELSE asked
  /\ UNCHANGED <<file, changes>>

Saved(c, value) == IF c.value = "reset" THEN "none" ELSE value
ChangedBackend(c) == [c.read EXCEPT !.backend = Saved(c, c.backend)]
ChangedReasoning(c) ==
  [c.read EXCEPT !.variants[c.backend] =
     IF c.read.models[c.backend] = "none" THEN "none" ELSE Saved(c, c.value)]

ChangedModel_KeepsReasoning(c) == [c.read EXCEPT !.models[c.backend] = Saved(c, c.value)]
(* Another model loses the reasoning of the one before.                     *)
ChangedModel(c) ==
  [c.read EXCEPT !.models[c.backend] = Saved(c, c.value),
                 !.variants[c.backend] = IF c.read.models[c.backend] = c.value THEN @ ELSE "none"]

(* What each save makes of the preferences it read.                         *)
Replacement(c) ==
  IF c.op = "backend" THEN ChangedBackend(c)
  ELSE IF c.op = "model" THEN ChangedModel(c) ELSE ChangedReasoning(c)

(* writeReviewPreferences: preferences that say nothing remove the file.    *)
Replace(w) ==
  /\ writer[w].at = "replace"
  /\ LET next == Replacement(writer[w]) IN
     file' = IF next.backend = "none" /\ next.models = NoModel THEN Empty ELSE next
  /\ writer' = [writer EXCEPT ![w] = Idle]
  /\ UNCHANGED <<changes, asked>>

(* A command that is killed leaves a temporary file of its own.             *)
Kill(w) ==
  /\ writer[w] # Idle /\ writer' = [writer EXCEPT ![w] = Idle]
  /\ UNCHANGED <<file, changes, asked>>

-----------------------------------------------------------------------------
(* loadEffectiveReviewConfig: a backend and a model named outside the file  *)
(* make do without it; a saved variant serves only the saved model, and the *)
(* deprecated one of .diffowl.yml serves where there is none.               *)
Configured(direct, command, environment, legacyVariant) ==
  LET outside == IF command # "none" THEN command ELSE environment
      explicit == direct # "none" /\ outside # "none"
      preferences == IF explicit /\ file.kind = "invalid" THEN Empty ELSE file
      backend == BackendOf(preferences, direct)
      saved == preferences.models[backend]
      model == IF outside # "none" THEN outside ELSE saved
      variant == IF model = saved THEN preferences.variants[backend] ELSE "none"
  IN IF preferences.kind = "invalid" \/ model \notin Fits[backend] THEN <<"failed">>
     ELSE <<backend, model, IF variant # "none" THEN variant ELSE legacyVariant,
            IF variant # "none" THEN "saved" ELSE "other">>

PreferenceNext ==
  \E w \in Writers : Want(w) \/ Load(w) \/ Replace(w) \/ Kill(w)
PreferenceSpec == PreferenceInit /\ [][PreferenceNext]_preferenceVars

-----------------------------------------------------------------------------
(* However commands of several worktrees interleave, are killed, or undo    *)
(* one another's change, a review runs a model that its backend accepts, and*)
(* a saved reasoning variant reaches only the backend and the model it was  *)
(* saved for.                                                               *)
ReasoningFitsModel ==
  \A direct \in Backends \cup {"none"}, command, environment \in Models \cup {"none"} :
    LET review == Configured(direct, command, environment, "legacy") IN
    review # <<"failed">> =>
      /\ review[2] \in Fits[review[1]]
      /\ review[4] = "saved" => <<review[1], review[2], review[3]>> \in asked

-----------------------------------------------------------------------------
(* What the proofs need                                                     *)

(* Preferences name models of their backends, and variants as asked for.    *)
PreferencesFit(f, a) ==
  /\ DOMAIN f = {"kind", "backend", "models", "variants"}
  /\ f.backend \in Backends \cup {"none"}
  /\ DOMAIN f.models = Backends /\ DOMAIN f.variants = Backends
  /\ f.models = [b \in Backends |-> f.models[b]]
  /\ f.variants = [b \in Backends |-> f.variants[b]]
  /\ \A b \in Backends : f.models[b] \in Fits[b] \cup {"none"}
  /\ \A b \in Backends : f.variants[b] # "none" => <<b, f.models[b], f.variants[b]>> \in a

WriterFits(c, a) ==
  /\ DOMAIN c = {"at", "op", "backend", "value", "read"}
  /\ c.at \in {"idle", "load", "replace"}
  /\ c.at # "idle" => c.backend \in Backends /\ c.value \in {"reset"} \cup Values(c.op, c.backend)
  /\ c.at # "idle" => c.op \in {"backend", "model", "reasoning"}
  /\ c.at = "replace" => PreferencesFit(c.read, a)
  /\ c.at = "replace" /\ c.op = "reasoning" /\ c.value # "reset" =>
       <<c.backend, c.read.models[c.backend], c.value>> \in a

PreferenceFits ==
  /\ PreferencesFit(file, asked)
  /\ writer = [w \in Writers |-> writer[w]]
  /\ \A w \in Writers : WriterFits(writer[w], asked)
================================================================================
