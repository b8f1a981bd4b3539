---------------------------- MODULE OutputProofs ----------------------------
(***************************************************************************)
(* Proofs about Output for any number of transcripts.  The argument: the   *)
(* worker's transcript is always the newest, a retained one is older than  *)
(* it and newer than one being replayed, and the three are different, so   *)
(* that whatever a failure drops is older than what it keeps.              *)
(***************************************************************************)
EXTENDS Output, TLAPS

\* Where a transcript can be, and how the three places compare.
PlacesApart ==
    /\ \A c \in Callers : stage[c] # "idle" => text[c] \in 1 .. handed /\ text[c] # retained
    /\ stage["worker"] # "idle" => text["worker"] = handed
    /\ stage["worker"] # "idle" /\ stage["replay"] # "idle" => text["worker"] # text["replay"]
    /\ stage["replay"] # "idle" /\ retained # NoText => retained > text["replay"]
    /\ retained <= handed
    /\ retained # NoText => retained \in failed
    /\ \A t \in Texts : t > handed => delivered[t] = 0

\* A call that is alone is alone now, and what it will paste is its own.
AloneHolds ==
    \A c \in Callers : alone[c] /\ stage[c] # "idle" =>
        /\ stage[Other(c)] = "idle"
        /\ stage[c] = "paste" => clipboard = text[c]

OutputInv ==
    /\ OutputTypeOK /\ PlacesApart /\ KeptUntilDelivered /\ AloneHolds /\ InsertedIsOwn

-----------------------------------------------------------------------------
(* The three ends of a command, for whichever caller awaited it *)

\* A failed call leaves its text retained, or one that is newer and failed too.
LEMMA FailsLedger ==
    ASSUME OutputInv, NEW c \in Callers, stage[c] # "idle",
           NEW error \in Errors, Fails(c, error), text' = text
    PROVE  /\ PlacesApart' /\ KeptUntilDelivered'
           /\ stage' \in [Callers -> Stages] /\ result' \in [Callers -> Results]
           /\ retained' \in Texts \cup {NoText} /\ handed' \in Texts \cup {0}
           /\ delivered' \in [Texts -> Nat] /\ failed' \in SUBSET Texts
<1>. USE TextsAssumption DEF Texts, NoText
<1>1. /\ stage' = [stage EXCEPT ![c] = "idle"] /\ retained' = RetainedAfterFailure(c)
      /\ failed' = failed \cup {text[c]} /\ handed' = handed /\ delivered' = delivered
      /\ result' = [result EXCEPT ![c] = error]
  BY DEF Fails
<1>2. text[c] \in 1 .. handed /\ text[c] # retained /\ text[c] \in Texts
  BY DEF OutputInv, PlacesApart, OutputTypeOK
<1>3. retained' \in {text[c], retained} /\ (c = "worker" => retained' = text[c])
  BY <1>1 DEF RetainedAfterFailure
<1>4. retained' >= text[c]
  BY <1>1, <1>2 DEF RetainedAfterFailure, OutputInv, PlacesApart, OutputTypeOK, Callers
<1>5. /\ stage' \in [Callers -> Stages] /\ result' \in [Callers -> Results]
      /\ retained' \in Texts \cup {NoText} /\ handed' \in Texts \cup {0}
      /\ delivered' \in [Texts -> Nat] /\ failed' \in SUBSET Texts
  BY <1>1, <1>2, <1>3 DEF OutputInv, OutputTypeOK, Stages, Results, Errors
<1>6. PlacesApart'
  BY <1>1, <1>2, <1>3, <1>4 DEF OutputInv, OutputTypeOK, PlacesApart, RetainedAfterFailure, Callers
<1>7. KeptUntilDelivered'
  <2>. SUFFICES ASSUME NEW t \in 1 .. handed
                PROVE  /\ delivered[t] <= 1
                       /\ delivered[t] = 1 => ~InFlight(t)' /\ retained' # t
                       /\ delivered[t] = 0 => InFlight(t)' \/ retained' = t \/ \E u \in failed' : u > t
    BY <1>1 DEF KeptUntilDelivered
  <2>1. /\ delivered[t] <= 1
        /\ delivered[t] = 1 => ~InFlight(t) /\ retained # t
        /\ delivered[t] = 0 => InFlight(t) \/ retained = t \/ \E u \in failed : u > t
    BY DEF OutputInv, KeptUntilDelivered
  <2>2. InFlight(t)' => InFlight(t)
    BY <1>1 DEF InFlight, OutputInv, OutputTypeOK
  <2>3. delivered[t] = 1 => t # text[c]
    BY <2>1 DEF InFlight
  <2>4. ASSUME delivered[t] = 0
        PROVE  InFlight(t)' \/ retained' = t \/ \E u \in failed' : u > t
    <3>1. CASE t = text[c]
      <4>1. retained' = t \/ (retained' = retained /\ retained # NoText)
        BY <1>1, <3>1 DEF RetainedAfterFailure
      <4>2. retained' = retained /\ retained # NoText => retained \in failed
        BY DEF OutputInv, PlacesApart
      <4>. QED  BY <4>1, <4>2, <1>1, <1>2, <1>4, <3>1 DEF OutputInv, OutputTypeOK
    <3>2. CASE t # text[c] /\ InFlight(t)
      BY <1>1, <3>2 DEF InFlight, OutputInv, OutputTypeOK
    <3>3. CASE retained = t
      <4>1. retained' = t \/ (retained' = text[c] /\ c = "worker")
        BY <1>1, <3>3 DEF RetainedAfterFailure
      <4>2. c = "worker" => text[c] = handed
        BY DEF OutputInv, PlacesApart
      <4>. QED  BY <4>1, <4>2, <3>3, <1>1, <1>2 DEF OutputInv, OutputTypeOK
    <3>4. CASE \E u \in failed : u > t
      BY <3>4, <1>1
    <3>. QED  BY <2>1, <2>4, <3>1, <3>2, <3>3, <3>4
  <2>. QED  BY <2>1, <2>2, <2>3, <2>4, <1>3
<1>. QED  BY <1>5, <1>6, <1>7

\* A call that succeeds had a text that nothing was reported of, and that is nowhere else.
LEMMA SucceedsLedger ==
    ASSUME OutputInv, NEW c \in Callers, stage[c] # "idle",
           NEW how \in Results, Succeeds(c, how), text' = text
    PROVE  /\ PlacesApart' /\ KeptUntilDelivered'
           /\ stage' \in [Callers -> Stages] /\ result' \in [Callers -> Results]
           /\ retained' \in Texts \cup {NoText} /\ handed' \in Texts \cup {0}
           /\ delivered' \in [Texts -> Nat] /\ failed' \in SUBSET Texts
<1>. USE TextsAssumption DEF Texts, NoText
<1>1. /\ stage' = [stage EXCEPT ![c] = "idle"] /\ result' = [result EXCEPT ![c] = how]
      /\ delivered' = [delivered EXCEPT ![text[c]] = @ + 1]
      /\ retained' = retained /\ handed' = handed /\ failed' = failed
  BY DEF Succeeds
<1>2. text[c] \in 1 .. handed /\ text[c] # retained /\ text[c] \in Texts
  BY DEF OutputInv, PlacesApart, OutputTypeOK
<1>3. /\ stage' \in [Callers -> Stages] /\ result' \in [Callers -> Results]
      /\ retained' \in Texts \cup {NoText} /\ handed' \in Texts \cup {0}
      /\ delivered' \in [Texts -> Nat] /\ failed' \in SUBSET Texts
  BY <1>1, <1>2 DEF OutputInv, OutputTypeOK, Stages
<1>4. PlacesApart'
  BY <1>1, <1>2 DEF OutputInv, OutputTypeOK, PlacesApart, Callers
<1>5. ~InFlight(text[c])'
  BY <1>1 DEF InFlight, OutputInv, OutputTypeOK, PlacesApart, Callers
<1>6. delivered[text[c]] = 0
  BY <1>2 DEF OutputInv, KeptUntilDelivered, InFlight, OutputTypeOK
<1>7. KeptUntilDelivered'
  <2>. SUFFICES ASSUME NEW t \in 1 .. handed
                PROVE  /\ delivered'[t] <= 1
                       /\ delivered'[t] = 1 => ~InFlight(t)' /\ retained' # t
                       /\ delivered'[t] = 0 => InFlight(t)' \/ retained' = t \/ \E u \in failed' : u > t
    BY <1>1 DEF KeptUntilDelivered
  <2>1. CASE t = text[c]
    BY <2>1, <1>1, <1>2, <1>5, <1>6 DEF OutputInv, OutputTypeOK
  <2>2. CASE t # text[c]
    <3>1. delivered'[t] = delivered[t]
      BY <1>1, <2>2 DEF OutputInv, OutputTypeOK
    <3>2. InFlight(t)' <=> InFlight(t)
      BY <1>1, <2>2 DEF InFlight, OutputInv, OutputTypeOK
    <3>. QED  BY <3>1, <3>2, <1>1 DEF OutputInv, KeptUntilDelivered
  <2>. QED  BY <2>1, <2>2
<1>. QED  BY <1>3, <1>4, <1>7

\* A call that goes on to its next command is where it was.
LEMMA GoesOnLedger ==
    ASSUME OutputInv, NEW c \in Callers, stage[c] # "idle",
           NEW next \in {"copy", "paste"}, GoesOn(c, next), text' = text
    PROVE  /\ PlacesApart' /\ KeptUntilDelivered'
           /\ stage' \in [Callers -> Stages] /\ result' \in [Callers -> Results]
           /\ retained' \in Texts \cup {NoText} /\ handed' \in Texts \cup {0}
           /\ delivered' \in [Texts -> Nat] /\ failed' \in SUBSET Texts
<1>1. /\ stage' = [stage EXCEPT ![c] = next] /\ result' = result /\ retained' = retained
      /\ handed' = handed /\ delivered' = delivered /\ failed' = failed
  BY DEF GoesOn, history
<1>2. stage' \in [Callers -> Stages]
  BY <1>1 DEF OutputInv, OutputTypeOK, Stages
<1>3. \A d \in Callers : stage'[d] # "idle" <=> stage[d] # "idle"
  BY <1>1 DEF OutputInv, OutputTypeOK
<1>4. PlacesApart'
  BY <1>1, <1>3 DEF OutputInv, PlacesApart, Callers
<1>5. \A t : InFlight(t)' <=> InFlight(t)
  BY <1>3 DEF InFlight
<1>6. KeptUntilDelivered'
  BY <1>1, <1>5 DEF OutputInv, KeptUntilDelivered
<1>. QED  BY <1>1, <1>2, <1>4, <1>6 DEF OutputInv, OutputTypeOK

-----------------------------------------------------------------------------
(* The actions *)

\* A new transcript is newer than what is retained or replayed, and reported of nothing.
LEMMA WorkerInjectsInv == ASSUME OutputInv, WorkerInjects PROVE OutputInv'
<1>. USE TextsAssumption DEF Texts, NoText
<1>0. PICK t \in Nat : t = handed + 1
  BY DEF OutputInv, OutputTypeOK
<1>1. /\ handed' = t /\ t = handed + 1 /\ t \in Texts /\ stage["worker"] = "idle" /\ delivered' = delivered
      /\ text' = [text EXCEPT !["worker"] = t] /\ shown' = [shown EXCEPT !["worker"] = NoText]
      /\ clipboard' = clipboard
      /\ retained' = IF FirstCommand = "none" THEN t ELSE retained
  BY <1>0 DEF WorkerInjects, Begins, OutputInv, OutputTypeOK
<1>2. /\ "worker" \in Callers /\ "replay" \in Callers /\ Other("worker") = "replay"
      /\ delivered[t] = 0 /\ FirstCommand \in {"copy", "wtype", "none"}
  BY <1>1 DEF Callers, Other, FirstCommand, OutputInv, PlacesApart, OutputTypeOK
<1>3. \/ /\ FirstCommand # "none"
         /\ stage' = [stage EXCEPT !["worker"] = FirstCommand]
         /\ alone' = [d \in Callers |-> stage["replay"] = "idle" /\ (d = "worker" \/ alone[d])]
         /\ result' = result /\ failed' = failed
      \/ /\ FirstCommand = "none"
         /\ result' = [result EXCEPT !["worker"] = "BackendUnavailable"]
         /\ failed' = failed \cup {t} /\ stage' = stage /\ alone' = alone
  BY <1>1, <1>2 DEF WorkerInjects, Begins
<1>4. OutputTypeOK'
  <2>1. /\ stage' \in [Callers -> Stages] /\ result' \in [Callers -> Results]
        /\ alone' \in [Callers -> BOOLEAN] /\ failed' \in SUBSET Texts
    BY <1>1, <1>2, <1>3 DEF OutputInv, OutputTypeOK, Stages, Results
  <2>. QED  BY <2>1, <1>1 DEF OutputInv, OutputTypeOK
<1>5. PlacesApart'
  BY <1>1, <1>2, <1>3 DEF OutputInv, OutputTypeOK, PlacesApart, Callers
<1>6. KeptUntilDelivered'
  <2>1. ASSUME NEW u \in 1 .. handed
        PROVE  InFlight(u)' <=> InFlight(u)
    BY <1>1, <1>2, <1>3 DEF InFlight, OutputInv, OutputTypeOK
  <2>2. InFlight(t)' \/ retained' = t
    BY <1>1, <1>2, <1>3 DEF InFlight, OutputInv, OutputTypeOK
  <2>3. ASSUME NEW u \in 1 .. handed, retained' # retained
        PROVE  \E v \in failed' : v > u
    <3>1. t \in failed'
      BY <1>1, <1>3, <2>3
    <3>2. t > u
      BY <1>1 DEF OutputInv, OutputTypeOK
    <3>. QED  BY <3>1, <3>2
  <2>4. failed \subseteq failed'
    BY <1>3
  <2>5. \A u \in 1 .. handed' : u = t \/ u \in 1 .. handed
    BY <1>1 DEF OutputInv, OutputTypeOK
  <2>. SUFFICES ASSUME NEW u \in 1 .. handed'
                PROVE  /\ delivered'[u] <= 1
                       /\ delivered'[u] = 1 => ~InFlight(u)' /\ retained' # u
                       /\ delivered'[u] = 0 => InFlight(u)' \/ retained' = u \/ \E v \in failed' : v > u
    BY DEF KeptUntilDelivered
  <2>6. CASE u = t
    BY <2>6, <1>1, <1>2, <2>2
  <2>7. CASE u \in 1 .. handed
    <3>1. /\ delivered[u] <= 1
          /\ delivered[u] = 1 => ~InFlight(u) /\ retained # u
          /\ delivered[u] = 0 => InFlight(u) \/ retained = u \/ \E v \in failed : v > u
      BY <2>7 DEF OutputInv, KeptUntilDelivered
    <3>2. retained' \in {retained, t} /\ u # t
      BY <1>1, <2>7 DEF OutputInv, OutputTypeOK
    <3>. QED  BY <1>1, <2>1, <2>3, <2>4, <2>7, <3>1, <3>2
  <2>. QED  BY <2>5, <2>6, <2>7
<1>7. AloneHolds'
  BY <1>1, <1>2, <1>3 DEF OutputInv, OutputTypeOK, AloneHolds, Callers, Other
<1>8. InsertedIsOwn'
  BY <1>1, <1>2, <1>3 DEF OutputInv, OutputTypeOK, InsertedIsOwn, Callers
<1>. QED  BY <1>4, <1>5, <1>6, <1>7, <1>8 DEF OutputInv

\* A replay moves the retained transcript to its call.
LEMMA ReplayInjectsInv == ASSUME OutputInv, ReplayInjects PROVE OutputInv'
<1>. USE TextsAssumption DEF Texts, NoText
<1>0. PICK r : r = retained
  OBVIOUS
<1>1. /\ r = retained /\ retained # NoText /\ handed' = handed /\ stage["replay"] = "idle"
      /\ delivered' = delivered /\ clipboard' = clipboard
      /\ text' = [text EXCEPT !["replay"] = retained]
      /\ shown' = [shown EXCEPT !["replay"] = NoText]
      /\ retained' = IF FirstCommand = "none" THEN retained ELSE NoText
  BY <1>0 DEF ReplayInjects, Begins, TakenTranscript
<1>2. /\ "worker" \in Callers /\ "replay" \in Callers /\ Other("replay") = "worker"
      /\ FirstCommand \in {"copy", "wtype", "none"} /\ retained \in Texts
  BY <1>1 DEF Callers, Other, FirstCommand, OutputInv, OutputTypeOK
<1>3. \/ /\ FirstCommand # "none"
         /\ stage' = [stage EXCEPT !["replay"] = FirstCommand]
         /\ alone' = [d \in Callers |-> stage["worker"] = "idle" /\ (d = "replay" \/ alone[d])]
         /\ result' = result /\ failed' = failed
      \/ /\ FirstCommand = "none"
         /\ result' = [result EXCEPT !["replay"] = "BackendUnavailable"]
         /\ failed' = failed \cup {retained} /\ stage' = stage /\ alone' = alone
  BY <1>1, <1>2 DEF ReplayInjects, Begins
<1>4. OutputTypeOK'
  <2>1. /\ stage' \in [Callers -> Stages] /\ result' \in [Callers -> Results]
        /\ alone' \in [Callers -> BOOLEAN] /\ failed' \in SUBSET Texts
    BY <1>1, <1>2, <1>3 DEF OutputInv, OutputTypeOK, Stages, Results
  <2>. QED  BY <2>1, <1>1, <1>2 DEF OutputInv, OutputTypeOK
<1>5. PlacesApart'
  BY <1>1, <1>2, <1>3 DEF OutputInv, OutputTypeOK, PlacesApart, Callers
<1>6. KeptUntilDelivered'
  <2>1. ASSUME NEW u \in 1 .. handed
        PROVE  /\ InFlight(u) => InFlight(u)'
               /\ InFlight(u)' => InFlight(u) \/ (u = retained /\ retained' # u)
    BY <1>1, <1>2, <1>3 DEF InFlight, OutputInv, OutputTypeOK
  <2>2. InFlight(r)' \/ retained' = r
    BY <1>1, <1>2, <1>3 DEF InFlight, OutputInv, OutputTypeOK
  <2>3. failed \subseteq failed'
    BY <1>3
  <2>4. retained' \in {retained, NoText}
    BY <1>1
  <2>. QED  BY <1>1, <2>1, <2>2, <2>3, <2>4 DEF OutputInv, OutputTypeOK, KeptUntilDelivered
<1>7. AloneHolds'
  BY <1>1, <1>2, <1>3 DEF OutputInv, OutputTypeOK, AloneHolds, Callers, Other
<1>8. InsertedIsOwn'
  BY <1>1, <1>2, <1>3 DEF OutputInv, OutputTypeOK, InsertedIsOwn, Callers
<1>. QED  BY <1>4, <1>5, <1>6, <1>7, <1>8 DEF OutputInv

\* wtype inserts the caller's own text, whatever it then reports.
LEMMA TypesInv == ASSUME OutputInv, NEW c \in Callers, Types(c) PROVE OutputInv'
<1>. USE DEF NoText
<1>1. /\ stage[c] = "wtype" /\ text' = text /\ clipboard' = clipboard /\ alone' = alone
      /\ shown' \in {shown, [shown EXCEPT ![c] = text[c]]}
      /\ \/ Succeeds(c, "inserted") /\ shown' = [shown EXCEPT ![c] = text[c]]
         \/ GoesOn(c, "copy")
         \/ Fails(c, "BackendUnavailable")
  BY DEF Types
<1>2. /\ PlacesApart' /\ KeptUntilDelivered'
      /\ stage' \in [Callers -> Stages] /\ result' \in [Callers -> Results]
      /\ retained' \in Texts \cup {NoText} /\ handed' \in Texts \cup {0}
      /\ delivered' \in [Texts -> Nat] /\ failed' \in SUBSET Texts
  <2>1. CASE Succeeds(c, "inserted")
    BY <1>1, <2>1, SucceedsLedger DEF Results
  <2>2. CASE GoesOn(c, "copy")
    BY <1>1, <2>2, GoesOnLedger
  <2>3. CASE Fails(c, "BackendUnavailable")
    BY <1>1, <2>3, FailsLedger DEF Errors
  <2>. QED  BY <1>1, <2>1, <2>2, <2>3
<1>3. OutputTypeOK'
  BY <1>1, <1>2 DEF OutputInv, OutputTypeOK
<1>4. AloneHolds'
  BY <1>1 DEF OutputInv, OutputTypeOK, AloneHolds, Succeeds, GoesOn, Fails, Callers, Other
<1>5. InsertedIsOwn'
  BY <1>1 DEF OutputInv, OutputTypeOK, InsertedIsOwn, Succeeds, GoesOn, Fails
<1>. QED  BY <1>2, <1>3, <1>4, <1>5 DEF OutputInv

\* After a copy that succeeded the clipboard is the caller's, until another copies.
LEMMA CopiesInv == ASSUME OutputInv, NEW c \in Callers, Copies(c) PROVE OutputInv'
<1>. USE DEF NoText
<1>1. /\ stage[c] = "copy" /\ text' = text /\ shown' = shown /\ alone' = alone
      /\ clipboard' \in {clipboard, text[c]}
      /\ \/ GoesOn(c, "paste") /\ clipboard' = text[c]
         \/ Succeeds(c, "requires_manual_paste")
         \/ Fails(c, "BackendFailed")
  BY DEF Copies, AfterFailedCopy
<1>2. /\ PlacesApart' /\ KeptUntilDelivered'
      /\ stage' \in [Callers -> Stages] /\ result' \in [Callers -> Results]
      /\ retained' \in Texts \cup {NoText} /\ handed' \in Texts \cup {0}
      /\ delivered' \in [Texts -> Nat] /\ failed' \in SUBSET Texts
  <2>1. CASE GoesOn(c, "paste")
    BY <1>1, <2>1, GoesOnLedger
  <2>2. CASE Succeeds(c, "requires_manual_paste")
    BY <1>1, <2>2, SucceedsLedger DEF Results
  <2>3. CASE Fails(c, "BackendFailed")
    BY <1>1, <2>3, FailsLedger DEF Errors
  <2>. QED  BY <1>1, <2>1, <2>2, <2>3
<1>3. OutputTypeOK'
  BY <1>1, <1>2 DEF OutputInv, OutputTypeOK
<1>4. AloneHolds'
  BY <1>1 DEF OutputInv, OutputTypeOK, AloneHolds, Succeeds, GoesOn, Fails, Callers, Other
<1>5. InsertedIsOwn'
  BY <1>1 DEF OutputInv, OutputTypeOK, InsertedIsOwn, Succeeds, GoesOn, Fails
<1>. QED  BY <1>2, <1>3, <1>4, <1>5 DEF OutputInv

\* A call that was alone until the keys are sent finds its own text on the clipboard.
LEMMA PastesInv == ASSUME OutputInv, NEW c \in Callers, Pastes(c) PROVE OutputInv'
<1>. USE DEF NoText
<1>1. /\ stage[c] = "paste" /\ text' = text /\ clipboard' = clipboard /\ alone' = alone
      /\ shown' \in {shown, [shown EXCEPT ![c] = clipboard]}
      /\ \/ Succeeds(c, "inserted") /\ shown' = [shown EXCEPT ![c] = clipboard]
         \/ Fails(c, "BackendFailed")
  BY DEF Pastes
<1>2. /\ PlacesApart' /\ KeptUntilDelivered'
      /\ stage' \in [Callers -> Stages] /\ result' \in [Callers -> Results]
      /\ retained' \in Texts \cup {NoText} /\ handed' \in Texts \cup {0}
      /\ delivered' \in [Texts -> Nat] /\ failed' \in SUBSET Texts
  <2>1. CASE Succeeds(c, "inserted")
    BY <1>1, <2>1, SucceedsLedger DEF Results
  <2>2. CASE Fails(c, "BackendFailed")
    BY <1>1, <2>2, FailsLedger DEF Errors
  <2>. QED  BY <1>1, <2>1, <2>2
<1>3. OutputTypeOK'
  BY <1>1, <1>2 DEF OutputInv, OutputTypeOK
<1>4. AloneHolds'
  BY <1>1 DEF OutputInv, OutputTypeOK, AloneHolds, Succeeds, Fails, Callers, Other
<1>5. InsertedIsOwn'
  BY <1>1 DEF OutputInv, OutputTypeOK, InsertedIsOwn, AloneHolds, Succeeds, Fails
<1>. QED  BY <1>2, <1>3, <1>4, <1>5 DEF OutputInv

-----------------------------------------------------------------------------
\* Nothing has been handed over at the start.
LEMMA OutputInitInv == OutputInit => OutputInv
<1>. SUFFICES ASSUME OutputInit PROVE OutputInv
  OBVIOUS
<1>. USE TextsAssumption DEF OutputInit, Texts, NoText
<1>1. OutputTypeOK
  BY DEF OutputTypeOK, Stages, Results
<1>2. PlacesApart
  BY DEF PlacesApart, Callers
<1>3. KeptUntilDelivered
  BY DEF KeptUntilDelivered
<1>4. AloneHolds /\ InsertedIsOwn
  BY DEF AloneHolds, InsertedIsOwn
<1>. QED  BY <1>1, <1>2, <1>3, <1>4 DEF OutputInv

\* Every step of either caller preserves the invariant.
LEMMA OutputNextInv == OutputInv /\ [OutputNext]_outputVars => OutputInv'
<1>. SUFFICES ASSUME OutputInv, [OutputNext]_outputVars PROVE OutputInv'
  OBVIOUS
<1>1. CASE WorkerInjects
  BY <1>1, WorkerInjectsInv
<1>2. CASE ReplayInjects
  BY <1>2, ReplayInjectsInv
<1>3. CASE \E c \in Callers : Types(c) \/ Copies(c) \/ Pastes(c)
  BY <1>3, TypesInv, CopiesInv, PastesInv
<1>4. CASE UNCHANGED outputVars
  BY <1>4 DEF outputVars, history, OutputInv, OutputTypeOK, PlacesApart, KeptUntilDelivered,
     InFlight, AloneHolds, InsertedIsOwn
<1>. QED  BY <1>1, <1>2, <1>3, <1>4 DEF OutputNext, Rests

\* The inductive invariant of the two callers, for any number of transcripts.
THEOREM OutputInductive == OutputSpec => []OutputInv
BY OutputInitInv, OutputNextInv, PTL DEF OutputSpec

\* No failure of a backend, at any point of either caller's call, loses a transcript
\* that is not older than one that failed, and none is tried after it was delivered.
THEOREM KeptAndNotRepeated == OutputSpec => []KeptUntilDelivered
BY OutputInductive, PTL DEF OutputInv

\* A call that no other overlapped and that reports an insertion inserted its own text.
THEOREM OwnTextInserted == OutputSpec => []InsertedIsOwn
BY OutputInductive, PTL DEF OutputInv
=============================================================================
