----------------------------- MODULE ReviewDocument -----------------------------
(***************************************************************************)
(* Finding the review in a model's text while it still streams             *)
(* (inspectReviewText of src/review/document.ts): executors end a turn as  *)
(* soon as the text so far holds a closed document.  A step appends one    *)
(* token: the marker word, a newline, a brace, a quote, a backslash or     *)
(* anything else.                                                          *)
(***************************************************************************)
EXTENDS Naturals, Sequences, FiniteSets

CONSTANTS
  Starts,      \* what an answer begins with
  MaxMore,     \* bound on the tokens that follow
  MaxAttempts  \* SCHEMA_VALIDATION_MAX_ATTEMPTS

VARIABLES text,    \* the answer so far
          more,    \* how many of its tokens have streamed in
          attempt, \* which answer it is
          ended    \* "no", "accept" or "fail"

documentVars == <<text, more, attempt, ended>>

Tokens == {"marker", "newline", "open", "close", "quote", "escape", "word"}
Last(S) == CHOOSE n \in S : \A m \in S : m <= n
First(S) == CHOOSE n \in S : \A m \in S : n <= m

DocumentInit == text \in Starts /\ more = 0 /\ attempt = 1 /\ ended = "no"

-----------------------------------------------------------------------------
(* lastStandaloneMarkerIndex: a marker that is a line of its own, or the    *)
(* last thing that has arrived of one.                                      *)
Standalone(t, i) ==
  /\ t[i] = "marker"
  /\ i = 1 \/ t[i - 1] = "newline"
  /\ i = Len(t) \/ t[i + 1] = "newline"
Markers(t) == {i \in 1..Len(t) : Standalone(t, i)}
From(t) == IF Markers(t) = {} THEN 1 ELSE Last(Markers(t)) + 1

(* extractBalancedJson, from left to right from the first brace: the state  *)
(* of the scan after every token, with its depth and whether it stands in a *)
(* string or after a backslash.                                             *)
Scanned_PlainBraces(c, at) ==
  IF c = "open" THEN [at EXCEPT !.depth = @ + 1]
  ELSE IF c = "close" THEN [at EXCEPT !.depth = @ - 1] ELSE at
Scanned(c, at) ==
  IF at.escaped THEN [at EXCEPT !.escaped = FALSE]
  ELSE IF c = "escape" THEN [at EXCEPT !.escaped = TRUE]
  ELSE IF c = "quote" THEN [at EXCEPT !.inString = ~@]
  ELSE IF at.inString THEN at
  ELSE IF c = "open" THEN [at EXCEPT !.depth = @ + 1]
  ELSE IF c = "close" THEN [at EXCEPT !.depth = @ - 1]
  ELSE at

Opens(t) == {i \in From(t)..Len(t) : t[i] = "open"}
Scan(t, start) ==
  LET scan[i \in (start - 1)..Len(t)] ==
        IF i < start THEN [depth |-> 0, inString |-> FALSE, escaped |-> FALSE]
        ELSE Scanned(t[i], scan[i - 1])
  IN scan
Closes(t) == {i \in First(Opens(t))..Len(t) : t[i] = "close" /\ Scan(t, First(Opens(t)))[i].depth = 0}
HasObject(t) == Opens(t) # {} /\ Closes(t) # {}
Object(t) == SubSeq(t, First(Opens(t)), First(Closes(t)))

(* What JSON.parse and the schema say of an object depends on its text      *)
(* alone: here, no backslash outside of strings and no bare word.           *)
Parses(object) ==
  \A i \in 1..Len(object) :
    LET before == Scan(object, 1)[i - 1]
    IN before.inString \/ object[i] \in {"open", "close", "quote", "newline"}

(* inspectReviewText *)
Closed(t) == Markers(t) # {} /\ HasObject(t)
Valid(t) == Closed(t) /\ Parses(Object(t))

-----------------------------------------------------------------------------
Stream(c) ==
  /\ ended = "no" /\ more < MaxMore
  /\ text' = Append(text, c) /\ more' = more + 1
  /\ UNCHANGED <<attempt, ended>>

(* The candidate is taken: the text is closed, or the turn is over, be it   *)
(* with an empty answer.                                                    *)
(* decideReviewAttempt asks for a replacement or gives up.                  *)
Decide ==
  /\ ended = "no"
  /\ IF Valid(text) THEN ended' = "accept" /\ UNCHANGED <<text, more, attempt>>
     ELSE IF attempt < MaxAttempts
     THEN attempt' = attempt + 1 /\ text' \in Starts /\ more' = 0 /\ UNCHANGED ended
     ELSE ended' = "fail" /\ UNCHANGED <<text, more, attempt>>

DocumentNext == Decide \/ \E c \in Tokens : Stream(c)

-----------------------------------------------------------------------------
(* A token stands in a string of the sequence when an odd number of quotes  *)
(* that no backslash escapes stand before it.                               *)
Escaped(s, i) ==
  LET run == {k \in 0 .. i - 1 : \A j \in (i - k)..(i - 1) : s[j] = "escape"}
  IN Last(run) % 2 = 1
Quoted(s, i) == Cardinality({j \in 1 .. i - 1 : s[j] = "quote" /\ ~Escaped(s, j)}) % 2 = 1
Count(s, c, n) == Cardinality({i \in 1..n : s[i] = c /\ ~Quoted(s, i) /\ ~Escaped(s, i)})

(* Ending a turn early loses nothing: the document taken from the text so   *)
(* far is one whole object, braces in its strings aside, that follows a     *)
(* marker line; and it is the document that the finished text would have    *)
(* given, unless the model goes on to print the marker again.               *)
TakenIsWhole ==
  Closed(text) =>
    LET o == Object(text)
    IN /\ Count(o, "open", Len(o)) = Count(o, "close", Len(o))
       /\ \A n \in 1 .. Len(o) - 1 : Count(o, "open", n) > Count(o, "close", n)
       /\ \A n \in Last(Markers(text)) .. Len(text) - 1 :
            LET sofar == SubSeq(text, 1, n)
            IN Closed(sofar) => Object(sofar) = o

DocumentSpec == DocumentInit /\ [][DocumentNext]_documentVars
===============================================================================
