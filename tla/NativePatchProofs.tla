-------------------------- MODULE NativePatchProofs --------------------------
(* Proofs about NativePatch. *)
EXTENDS NativePatch, TLAPS

BudgetKind == {"changes", "saves", "mishaps"}

LEMMA BudgetKinds == DOMAIN Budget = BudgetKind
  BY DEF Budget, BudgetKind

LEMMA Spending ==
  ASSUME TypeOK, NEW kind \in BudgetKind, Spend(kind)
  PROVE  spent' \in [DOMAIN Budget -> Nat]
  BY BudgetKinds DEF TypeOK, Spend

(***************************************************************************)
(* Types.                                                                  *)
(***************************************************************************)

LEMMA InitTyped == Init => TypeOK
<1> SUFFICES ASSUME Init  PROVE TypeOK
  OBVIOUS
<1>1. disk \in [Path -> Structure \cup {None}]
  BY DEF Init
<1> QED
  BY <1>1, BudgetKinds DEF Init, TypeOK, Timer, NoSave, SaveState, LinkState, ObservingState,
     GivenUp, Fate

\* The steps of the observation.
ObservationStep ==
  PersonEdits \/ ObservationTimerFires \/ ReleaseTimerFires \/ InitTimerFires \/ Applies

LEMMA MutatedTyped == \A token \in Structure \cup {None} : Mutated(token) \in ObservingState
  BY DEF Mutated, ObservingState

LEMMA TimersTyped ==
  ASSUME TypeOK
  PROVE  NotifiedTimers \subseteq Timer /\ TimersAfterMutation \subseteq Timer
  BY DEF TypeOK, NotifiedTimers, TimersAfterMutation, Timer

LEMMA NotifiedTyped ==
  ASSUME TypeOK, Notified
  PROVE  /\ timers' \subseteq Timer /\ observing' \in ObservingState
         /\ failed' \subseteq GivenUp
<1>1. observing' \in ObservingState
  BY DEF TypeOK, Notified, IsListening, ObservingState
<1>2. failed' \subseteq GivenUp
  BY DEF TypeOK, Notified
<1> QED
  BY <1>1, <1>2, TimersTyped DEF Notified

LEMMA BecomesTyped ==
  ASSUME TypeOK, NEW fate \in Fate, Becomes(fate)  PROVE edit' \in Fate
  BY DEF TypeOK, Becomes

LEMMA ObservationTyped == ASSUME TypeOK, ObservationStep  PROVE TypeOK'
<1> USE DEF TypeOK
<1>1. spent' \in [DOMAIN Budget -> Nat]
  BY Spending DEF ObservationStep, PersonEdits, ObservationTimerFires, HasNothingToTell, Tells,
     CannotTell, ReleaseTimerFires, InitTimerFires, Applies, BudgetKind
<1>2. IsListening \in BOOLEAN
  BY DEF IsListening
<1>3. /\ [observing EXCEPT !.causes = FALSE] \in ObservingState
      /\ [observing EXCEPT !.causes = FALSE, !.token = structure] \in ObservingState
      /\ [observing EXCEPT !.suppressed = FALSE] \in ObservingState
      /\ observing.token \in Structure \cup {None}
  BY DEF ObservingState
<1>4. CASE PersonEdits
  <2>1. edit' \in Fate
    BY <1>4 DEF PersonEdits, Fate
  <2> QED
    BY <1>1, <1>2, <1>4, <2>1, NotifiedTyped DEF PersonEdits, fileVars, answerVars
<1>5. CASE ObservationTimerFires
  <2>1. edit' \in Fate
    BY <1>5, BecomesTyped DEF ObservationTimerFires, HasNothingToTell, Tells, CannotTell, Fate
  <2>2. observing' \in ObservingState
    BY <1>3, <1>5 DEF ObservationTimerFires, HasNothingToTell, Tells, CannotTell
  <2>3. missed' \in BOOLEAN /\ failed' \subseteq GivenUp
    BY <1>5 DEF ObservationTimerFires, HasNothingToTell, Tells, CannotTell, GivenUp
  <2> QED
    BY <1>1, <1>5, <2>1, <2>2, <2>3 DEF ObservationTimerFires, fileVars, answerVars
<1>6. CASE ReleaseTimerFires
  BY <1>1, <1>3, <1>6 DEF ReleaseTimerFires, fileVars, answerVars
<1>7. CASE InitTimerFires
  <2>1. observing' \in ObservingState /\ missed' \in BOOLEAN
    BY <1>7, MutatedTyped DEF InitTimerFires, MutationEnds
  <2> QED
    BY <1>1, <1>7, <2>1, TimersTyped DEF InitTimerFires, fileVars, answerVars
<1>8. CASE Applies
  <2>1. observing' \in ObservingState /\ missed' \in BOOLEAN
    BY <1>3, <1>8, MutatedTyped DEF Applies, MutationEnds
  <2>2. edit' \in Fate /\ failed' \subseteq GivenUp
    BY <1>8, BecomesTyped DEF Applies, Fate
  <2> QED
    BY <1>1, <1>8, <2>1, <2>2, TimersTyped DEF Applies, fileVars, answerVars
<1> QED
  BY <1>4, <1>5, <1>6, <1>7, <1>8 DEF ObservationStep

\* The steps of the connection.
LinkStep ==
  \/ TransportOpens \/ TransportCloses \/ WindowIsShown \/ WindowIsHidden
  \/ RegistrationTimerFires \/ RegistersByMessage

LEMMA RegistrationTyped ==
  ASSUME TypeOK, NEW rest \in SUBSET Timer, SendsRegistration(rest)
  PROVE  /\ link' \in LinkState /\ observing' \in ObservingState /\ timers' \subseteq Timer
         /\ missed' \in BOOLEAN /\ edit' \in Fate /\ failed' \subseteq GivenUp
         /\ spent' \in [DOMAIN Budget -> Nat]
<1>1. spent' \in [DOMAIN Budget -> Nat]
  BY Spending DEF SendsRegistration, BudgetKind, TypeOK
<1>2. link' \in LinkState
  BY DEF SendsRegistration, TypeOK, LinkState
<1>3. observing' \in ObservingState
  <2>1. structure \in Structure /\ observing.token \in Structure \cup {None}
    BY DEF TypeOK, ObservingState
  <2> QED
    BY <2>1, MutatedTyped DEF SendsRegistration, TypeOK
<1>4. timers' \subseteq Timer
  BY DEF SendsRegistration, Timer
<1>5. missed' \in BOOLEAN /\ edit' \in Fate /\ failed' \subseteq GivenUp
  BY DEF SendsRegistration, TypeOK, Fate, GivenUp
<1> QED
  BY <1>1, <1>2, <1>3, <1>4, <1>5

LEMMA LinkTyped == ASSUME TypeOK, LinkStep  PROVE TypeOK'
<1>1. CASE TransportOpens \/ TransportCloses \/ WindowIsShown \/ WindowIsHidden
  <2>1. spent' \in [DOMAIN Budget -> Nat]
    BY <1>1, Spending DEF TransportOpens, TransportCloses, WindowIsShown, WindowIsHidden,
       BudgetKind, TypeOK
  <2>2. link' \in LinkState
    BY <1>1 DEF TransportOpens, TransportCloses, WindowIsShown, WindowIsHidden, TypeOK, LinkState
  <2>3. save' \in SaveState /\ (save'.awaited => save'.pending)
    BY <1>1 DEF TransportOpens, TransportCloses, WindowIsShown, WindowIsHidden, TypeOK, SaveState
  <2>4. timers' \subseteq Timer /\ failed' \subseteq GivenUp
    BY <1>1 DEF TransportOpens, TransportCloses, WindowIsShown, WindowIsHidden, TypeOK, Timer,
       GivenUp
  <2>5. UNCHANGED <<untouchedByLink, observing, missed, edit>>
    BY <1>1 DEF TransportOpens, TransportCloses, WindowIsShown, WindowIsHidden
  <2> QED
    BY <2>1, <2>2, <2>3, <2>4, <2>5 DEF TypeOK, untouchedByLink, fileVars
<1>2. CASE UNCHANGED <<link, observing, missed, failed, edit, spent, save, untouchedByLink>>
           /\ timers' \subseteq timers
  BY <1>2 DEF TypeOK, untouchedByLink, fileVars
<1>3. ASSUME NEW rest \in SUBSET Timer, SendsRegistration(rest), UNCHANGED <<untouchedByLink, save>>
      PROVE  TypeOK'
  BY <1>3, RegistrationTyped DEF TypeOK, untouchedByLink, fileVars
<1>4. timers \in SUBSET Timer /\ timers \ {"registration"} \in SUBSET Timer
  BY DEF TypeOK
<1> QED
  BY <1>1, <1>2, <1>3, <1>4 DEF LinkStep, RegistrationTimerFires, RegistersByMessage, RetriedTimers

\* The steps of saves and closes.
SaveStep ==
  \/ PersonSaves \/ RequestSave \/ MaxWrites \/ MaxDoesNotWrite \/ SaveTimerFires
  \/ DeadlinePasses \/ BridgeGivesUp \/ RequestClose \/ Disposes

LEMMA SaveTyped == ASSUME TypeOK, SaveStep  PROVE TypeOK'
<1> USE DEF TypeOK
<1>1. spent' \in [DOMAIN Budget -> Nat]
  BY Spending DEF SaveStep, PersonSaves, RequestSave, MaxWrites, MaxDoesNotWrite, SaveTimerFires,
     DeadlinePasses, BridgeGivesUp, RequestClose, Disposes, BudgetKind
<1>2. CASE PersonSaves
  BY <1>1, <1>2, NotifiedTyped DEF PersonSaves, untouchedByWrite, answerVars
<1>3. CASE MaxWrites
  BY <1>1, <1>3, NotifiedTyped DEF MaxWrites, untouchedByWrite, answerVars
<1>4. CASE MaxDoesNotWrite
  BY <1>1, <1>4 DEF MaxDoesNotWrite, untouchedBySave, untouchedByWrite, answerVars
<1>5. CASE RequestSave
  <2>1. CASE Refuses
    BY <1>1, <1>5, <2>1 DEF RequestSave, Refuses, untouchedBySave, untouchedByWrite, fileVars
  <2>2. ASSUME NEW destination \in Path \cup {None}, NEW overwrite \in BOOLEAN,
               CanSaveTo(destination, overwrite),
               save' = [pending |-> TRUE, destination |-> destination,
                        expired |-> FALSE, awaited |-> TRUE],
               writing' = writing \cup {IF destination = None THEN filepath ELSE destination},
               timers' = timers \cup {"save"},
               reply' = "none",
               UNCHANGED <<dirty, filepath, disk, phase, observing>>
        PROVE  TypeOK'
    <3>1. save' \in SaveState /\ save'.pending
      BY <2>2 DEF SaveState
    <3>2. writing' \subseteq Path /\ timers' \subseteq Timer
      BY <2>2 DEF CanSaveTo, Timer
    <3> QED
      BY <1>1, <1>5, <2>2, <3>1, <3>2 DEF RequestSave, untouchedBySave, untouchedByWrite
  <2> QED
    BY <1>5, <2>1, <2>2 DEF RequestSave
<1>6. CASE SaveTimerFires
  <2>1. NoSave \in SaveState /\ ~NoSave.awaited
    BY DEF NoSave, SaveState
  <2> QED
    BY <1>1, <1>6, <2>1 DEF SaveTimerFires, untouchedBySave, untouchedByWrite, fileVars, PolledTimers, Answered
<1>7. CASE DeadlinePasses \/ BridgeGivesUp
  <2>1. /\ [save EXCEPT !.awaited = FALSE] \in SaveState
        /\ ~[save EXCEPT !.awaited = FALSE].awaited
        /\ [save EXCEPT !.expired = TRUE] \in SaveState
        /\ [save EXCEPT !.expired = TRUE].pending = save.pending
    BY DEF SaveState
  <2>2. save' \in SaveState /\ (save'.awaited => save'.pending)
    BY <1>7, <2>1 DEF DeadlinePasses, BridgeGivesUp
  <2> QED
    BY <1>1, <1>7, <2>2 DEF DeadlinePasses, BridgeGivesUp, untouchedBySave, untouchedByWrite, fileVars
<1>8. CASE RequestClose
  BY <1>1, <1>8 DEF RequestClose, untouchedBySave, untouchedByWrite, fileVars
<1>9. CASE Disposes
  <2>1. NoSave \in SaveState /\ ~NoSave.awaited /\ link' \in LinkState
    BY <1>9 DEF Disposes, NoSave, SaveState, LinkState
  <2> QED
    BY <1>1, <1>9, <2>1 DEF Disposes
<1> QED
  BY <1>2, <1>3, <1>4, <1>5, <1>6, <1>7, <1>8, <1>9 DEF SaveStep

LEMMA StepKinds == Next => ObservationStep \/ LinkStep \/ SaveStep
  BY DEF Next, ObservationStep, LinkStep, SaveStep

LEMMA NextTyped == ASSUME TypeOK, [Next]_vars  PROVE TypeOK'
<1>1. CASE UNCHANGED vars
  BY <1>1 DEF vars, TypeOK
<1> QED
  BY <1>1, StepKinds, ObservationTyped, LinkTyped, SaveTyped

\* The object, its timers and the files keep their types.
THEOREM NativeTypesHold == Spec => []TypeOK
  BY InitTyped, NextTyped, PTL DEF Spec

(***************************************************************************)
(* Saving.  The flag of an open patch is honest.                           *)
(***************************************************************************)

FlagInv == phase = "open" /\ ~dirty => filepath \in Path /\ disk[filepath] = structure

LEMMA FlagKept == ASSUME TypeOK, FlagInv, [Next]_vars  PROVE FlagInv'
<1>1. CASE ObservationStep
  BY <1>1 DEF ObservationStep, PersonEdits, ObservationTimerFires, ReleaseTimerFires,
     InitTimerFires, Applies, FlagInv, fileVars, answerVars
<1>2. CASE LinkStep
  BY <1>2 DEF LinkStep, TransportOpens, TransportCloses, WindowIsShown, WindowIsHidden,
     RegistrationTimerFires, RegistersByMessage, FlagInv, untouchedByLink, fileVars
<1>3. CASE SaveStep
  <2>1. CASE PersonSaves \/ MaxWrites
    BY <2>1 DEF PersonSaves, MaxWrites, FlagInv, TypeOK, untouchedBySave, untouchedByWrite
  <2>2. CASE SaveStep /\ ~PersonSaves /\ ~MaxWrites
    BY <2>2 DEF SaveStep, RequestSave, Refuses, MaxDoesNotWrite, SaveTimerFires, DeadlinePasses,
       BridgeGivesUp, RequestClose, Disposes, FlagInv, untouchedBySave, untouchedByWrite, fileVars, answerVars
  <2> QED
    BY <1>3, <2>1, <2>2
<1>4. CASE UNCHANGED vars
  BY <1>4 DEF vars, FlagInv
<1> QED
  BY <1>1, <1>2, <1>3, <1>4, StepKinds

LEMMA FlagHolds == Spec => [](TypeOK /\ FlagInv)
<1>1. Init => FlagInv
  BY DEF Init, FlagInv
<1> QED
  BY <1>1, FlagKept, NativeTypesHold, PTL DEF Spec

\* A save that is reported as done is in the file of the patch, and in the one
\* that was asked for.
LEMMA SavesAreTrue ==
  ASSUME TypeOK, FlagInv, Next, save.pending, phase = "open", ~save'.pending, reply' = "saved"
  PROVE  disk[filepath] = structure /\ DestinationMatches
<1>1. ~ObservationStep /\ ~LinkStep
  BY DEF ObservationStep, PersonEdits, ObservationTimerFires, ReleaseTimerFires,
     InitTimerFires, Applies, LinkStep, TransportOpens, TransportCloses, WindowIsShown,
     WindowIsHidden, RegistrationTimerFires, RegistersByMessage, answerVars, untouchedByLink, TypeOK, SaveState
<1>2. IsSaved
  BY <1>1, StepKinds DEF SaveStep, PersonSaves, RequestSave, Refuses, MaxWrites,
     MaxDoesNotWrite, SaveTimerFires, DeadlinePasses, BridgeGivesUp, RequestClose, Disposes,
     answerVars, TypeOK, SaveState
<1> QED
  BY <1>2 DEF IsSaved, FlagInv

\* A close that reports nothing discarded leaves the content in the file.
LEMMA ClosesAreTrue ==
  ASSUME TypeOK, FlagInv, Next, phase = "open", phase' = "closing", reply' = "closing"
  PROVE  filepath # None /\ disk[filepath] = structure
<1>1. ~ObservationStep /\ ~LinkStep
  BY DEF ObservationStep, PersonEdits, ObservationTimerFires, ReleaseTimerFires,
     InitTimerFires, Applies, LinkStep, TransportOpens, TransportCloses, WindowIsShown,
     WindowIsHidden, RegistrationTimerFires, RegistersByMessage, answerVars, untouchedByLink
<1>2. ~dirty
  BY <1>1, StepKinds DEF SaveStep, PersonSaves, RequestSave, Refuses, MaxWrites,
     MaxDoesNotWrite, SaveTimerFires, DeadlinePasses, BridgeGivesUp, RequestClose, Disposes,
     answerVars, MayClose
<1> QED
  BY <1>2, NativeAssumption DEF FlagInv

\* What is answered about the file is true, for any number of edits, saves and
\* mishaps.
THEOREM AnswersAreAlwaysTrue == Spec => AnswersAreTrue
<1>1. TypeOK /\ FlagInv /\ [Next]_vars =>
        [/\ save.pending /\ save.awaited /\ phase = "open" /\ ~save'.pending /\ reply' = "saved"
            => disk[filepath] = structure /\ DestinationMatches
         /\ phase = "open" /\ phase' = "closing" /\ reply' = "closing"
            => filepath # None /\ disk[filepath] = structure]_vars
  BY SavesAreTrue, ClosesAreTrue
<1> QED
  BY <1>1, FlagHolds, PTL DEF Spec, AnswersAreTrue

(***************************************************************************)
(* Observation.                                                            *)
(***************************************************************************)

\* Before the first observation nothing is released; a suppressed object has no
\* pending cause; and what is not pending is accounted for.
AccountInv ==
  /\ "init" \in timers => observing.suppressed /\ "release" \notin timers
                           /\ "registration" \notin timers /\ ~link.open
  /\ observing.suppressed => ~observing.causes
  /\ ~Alive => ~link.open
  /\ Alive /\ "init" \notin timers /\ ~observing.causes => missed \/ observing.token = structure

LEMMA MutatedFields ==
  \A token : /\ Mutated(token).suppressed /\ ~Mutated(token).causes
             /\ Mutated(token).token = token
  BY DEF Mutated

LEMMA AccountKept == ASSUME TypeOK, AccountInv, [Next]_vars  PROVE AccountInv'
<1> USE DEF AccountInv, Alive
<1>1. CASE ObservationStep
  <2>1. CASE PersonEdits
    <3>1. /\ observing'.suppressed = observing.suppressed
          /\ observing'.causes <=> observing.causes \/ IsListening
          /\ observing'.token = observing.token
      BY <2>1 DEF PersonEdits, Notified, IsListening, TypeOK, ObservingState
    <3>2. /\ "init" \in timers' <=> "init" \in timers
          /\ "release" \in timers' <=> "release" \in timers
          /\ "registration" \in timers' <=> "registration" \in timers
      BY <2>1 DEF PersonEdits, Notified, NotifiedTimers
    <3>3. IsListening \/ missed'
      BY <2>1 DEF PersonEdits
    <3>4. UNCHANGED <<link, phase>>
      BY <2>1 DEF PersonEdits, answerVars
    <3>5. "init" \in timers' => observing'.suppressed /\ "release" \notin timers'
                               /\ "registration" \notin timers' /\ ~link'.open
      BY <3>1, <3>2, <3>4
    <3>6. observing'.suppressed => ~observing'.causes
      BY <3>1 DEF IsListening
    <3>7. ~observing'.causes => missed'
      BY <3>1, <3>3
    <3> QED
      BY <3>4, <3>5, <3>6, <3>7
  <2>2. CASE ObservationTimerFires
    <3>1. /\ \A timer \in {"init", "release", "registration"} : timer \in timers' <=> timer \in timers
          /\ UNCHANGED <<structure, link, phase>>
      BY <2>2 DEF ObservationTimerFires, answerVars
    <3>2. CASE HasNothingToTell
      <4>1. /\ observing'.suppressed = observing.suppressed /\ ~observing'.causes
            /\ observing'.token = observing.token /\ missed' = missed
            /\ observing.causes => observing.suppressed \/ observing.token = structure
        BY <3>2 DEF HasNothingToTell, IsDifferent, TypeOK, ObservingState
      <4> QED
        BY <3>1, <4>1
    <3>3. CASE Tells
      <4>1. /\ observing'.suppressed = observing.suppressed /\ ~observing'.causes
            /\ observing'.token = structure
        BY <3>3 DEF Tells, TypeOK, ObservingState
      <4> QED
        BY <3>1, <4>1
    <3>4. CASE CannotTell
      BY <3>1, <3>4 DEF CannotTell
    <3> QED
      BY <2>2, <3>2, <3>3, <3>4 DEF ObservationTimerFires
  <2>3. CASE ReleaseTimerFires
    <3>1. /\ ~observing'.suppressed /\ observing'.causes = observing.causes
          /\ observing'.token = observing.token
      BY <2>3 DEF ReleaseTimerFires, TypeOK, ObservingState
    <3> QED
      BY <2>3, <3>1 DEF ReleaseTimerFires, answerVars
  <2>4. CASE InitTimerFires
    BY <2>4, MutatedFields DEF InitTimerFires, MutationEnds, TimersAfterMutation, answerVars
  <2>5. CASE Applies
    BY <2>5, MutatedFields DEF Applies, MutationEnds, TimersAfterMutation, answerVars
  <2> QED
    BY <1>1, <2>1, <2>2, <2>3, <2>4, <2>5 DEF ObservationStep
<1>2. CASE LinkStep
  <2>1. CASE RegistrationTimerFires \/ RegistersByMessage
    <3>1. "init" \notin timers
      BY <2>1 DEF RegistrationTimerFires, RegistersByMessage
    <3>2. UNCHANGED <<structure, phase>>
      BY <2>1 DEF RegistrationTimerFires, RegistersByMessage, untouchedByLink
    <3>3. CASE UNCHANGED <<link, observing, missed>> /\ timers' \subseteq timers
      BY <3>1, <3>2, <3>3
    <3>4. ASSUME NEW rest \in SUBSET timers, SendsRegistration(rest), link.open
          PROVE  AccountInv'
      <4>1. (link'.open => link.open) /\ "init" \notin timers'
        BY <3>1, <3>4 DEF SendsRegistration, TypeOK, LinkState
      <4>2. \/ UNCHANGED <<link, observing, missed>> /\ timers' \subseteq timers
            \/ observing' = Mutated(structure)
            \/ /\ observing' = Mutated(observing.token)
               /\ missed' = (missed \/ observing.token # structure)
        BY <3>4 DEF SendsRegistration
      <4>3. CASE observing' = Mutated(structure)
        BY <3>1, <3>2, <3>4, <4>1, <4>3, MutatedFields
      <4>4. CASE /\ observing' = Mutated(observing.token)
                 /\ missed' = (missed \/ observing.token # structure)
        <5>1. missed' \/ observing'.token = structure'
          BY <3>2, <4>4, MutatedFields
        <5> QED
          BY <3>1, <3>2, <3>4, <4>1, <4>4, <5>1, MutatedFields
      <4> QED
        BY <3>3, <4>2, <4>3, <4>4
    <3> QED
      BY <2>1, <3>3, <3>4 DEF RegistrationTimerFires, RegistersByMessage, RegistrationIsDue,
         RetriedTimers
  <2>2. CASE TransportOpens \/ TransportCloses \/ WindowIsShown \/ WindowIsHidden
    <3>1. WindowIsShown \/ WindowIsHidden => link'.open = link.open
      BY DEF WindowIsShown, WindowIsHidden, TypeOK, LinkState
    <3> QED
      BY <2>2, <3>1 DEF TransportOpens, TransportCloses, WindowIsShown, WindowIsHidden,
         untouchedByLink
  <2> QED
    BY <1>2, <2>1, <2>2 DEF LinkStep
<1>3. CASE SaveStep
  <2>1. CASE PersonSaves \/ MaxWrites
    <3>1. /\ observing'.suppressed = observing.suppressed
          /\ observing'.causes <=> observing.causes \/ IsListening
          /\ observing'.token = observing.token
      BY <2>1 DEF PersonSaves, MaxWrites, Notified, IsListening, TypeOK, ObservingState
    <3>2. \A timer \in {"init", "release", "registration"} : timer \in timers' <=> timer \in timers
      BY <2>1 DEF PersonSaves, MaxWrites, Notified, NotifiedTimers
    <3> QED
      BY <2>1, <3>1, <3>2 DEF PersonSaves, MaxWrites, IsListening, untouchedBySave, untouchedByWrite, answerVars
  <2>2. CASE Disposes
    BY <2>2 DEF Disposes
  <2>3. CASE RequestSave \/ SaveTimerFires
    <3>1. \A timer \in {"init", "release", "registration"} : timer \in timers' <=> timer \in timers
      BY <2>3 DEF RequestSave, Refuses, SaveTimerFires, PolledTimers
    <3> QED
      BY <2>3, <3>1 DEF RequestSave, Refuses, SaveTimerFires, untouchedBySave, untouchedByWrite
  <2>4. CASE MaxDoesNotWrite \/ DeadlinePasses \/ BridgeGivesUp \/ RequestClose
    BY <2>4 DEF MaxDoesNotWrite, DeadlinePasses, BridgeGivesUp, RequestClose, IsRequested,
       untouchedBySave, untouchedByWrite, answerVars
  <2> QED
    BY <1>3, <2>1, <2>2, <2>3, <2>4 DEF SaveStep
<1>4. CASE UNCHANGED vars
  BY <1>4 DEF vars
<1> QED
  BY <1>1, <1>2, <1>3, <1>4, StepKinds

\* While the object listens and has no cause pending, the bridge was told of the
\* content, or a plan left it, unless a change was missed.
THEOREM QuietIsAlwaysAccounted == Spec => []QuietIsAccounted
<1>1. Init => AccountInv
  <2>1. Init => ~link.open
    BY DEF Init
  <2>2. Init => observing.suppressed /\ ~observing.causes
    BY DEF Init
  <2>3. Init => timers = {"init"} /\ Alive
    BY DEF Init, Alive
  <2> QED
    BY <2>1, <2>2, <2>3 DEF AccountInv
<1>2. TypeOK /\ AccountInv => QuietIsAccounted
  BY DEF AccountInv, QuietIsAccounted, IsListening, Alive
<1> QED
  BY <1>1, <1>2, AccountKept, NativeTypesHold, PTL DEF Spec

(***************************************************************************)
(* Timers.  Every obligation of an open object has its timer.              *)
(***************************************************************************)

LEMMA NotifiedOwesNothing ==
  ASSUME TypeOK, AccountInv, NothingIsStranded, Alive, Notified, UNCHANGED <<link, save, phase>>
  PROVE  NothingIsStranded'
<1>1. /\ observing'.suppressed = observing.suppressed
      /\ observing'.causes <=> observing.causes \/ IsListening
  BY DEF Notified, IsListening, TypeOK, ObservingState
<1>2. timers \subseteq timers' /\ (save.pending => "save" \in timers')
      /\ (IsListening => "observation" \in timers')
      /\ failed' = (IF IsListening THEN failed \ {"observe"} ELSE failed)
  BY DEF Notified, NotifiedTimers
<1> QED
  BY <1>1, <1>2 DEF NothingIsStranded, RegistrationIsDue, Alive

LEMMA StrandedKept ==
  ASSUME TypeOK, AccountInv, NothingIsStranded, [Next]_vars  PROVE NothingIsStranded'
<1>1. CASE ObservationStep
  <2>1. CASE PersonEdits
    BY <2>1, NotifiedOwesNothing DEF PersonEdits, answerVars
  <2>2. CASE ObservationTimerFires
    <3>1. CASE HasNothingToTell \/ Tells
      <4>1. observing'.suppressed = observing.suppressed /\ ~observing'.causes
        BY <3>1 DEF HasNothingToTell, Tells, TypeOK, ObservingState
      <4>2. failed' = failed
        BY <3>1 DEF HasNothingToTell, Tells
      <4> QED
        BY <2>2, <4>1, <4>2 DEF ObservationTimerFires, NothingIsStranded, RegistrationIsDue, Alive,
           answerVars
    <3>2. CASE CannotTell
      BY <2>2, <3>2 DEF ObservationTimerFires, CannotTell, NothingIsStranded, RegistrationIsDue,
         Alive, answerVars
    <3> QED
      BY <2>2, <3>1, <3>2 DEF ObservationTimerFires
  <2>3. CASE ReleaseTimerFires
    <3>1. ~observing'.suppressed /\ observing'.causes = observing.causes
      BY <2>3 DEF ReleaseTimerFires, TypeOK, ObservingState
    <3> QED
      BY <2>3, <3>1 DEF ReleaseTimerFires, NothingIsStranded, RegistrationIsDue, Alive, answerVars
  <2>4. CASE InitTimerFires
    <3>1. ~link.open /\ ~observing'.causes
      BY <2>4, MutatedFields DEF InitTimerFires, MutationEnds, AccountInv
    <3> QED
      BY <2>4, <3>1 DEF InitTimerFires, TimersAfterMutation, NothingIsStranded, RegistrationIsDue,
         Alive, answerVars
  <2>5. CASE Applies
    <3>1. ~observing'.causes /\ failed' = failed \ {"baseline"}
      BY <2>5, MutatedFields DEF Applies, MutationEnds
    <3> QED
      BY <2>5, <3>1 DEF Applies, TimersAfterMutation, NothingIsStranded, RegistrationIsDue, Alive,
         answerVars
  <2> QED
    BY <1>1, <2>1, <2>2, <2>3, <2>4, <2>5 DEF ObservationStep
<1>2. CASE LinkStep
  <2>1. CASE RegistrationTimerFires \/ RegistersByMessage
    <3>1. UNCHANGED <<save, phase>>
      BY <2>1 DEF RegistrationTimerFires, RegistersByMessage, untouchedByLink
    <3>2. CASE ~RegistrationIsDue /\ timers' = timers \ {"registration"}
               /\ UNCHANGED <<link, observing, failed>>
      BY <3>1, <3>2 DEF NothingIsStranded, RegistrationIsDue, Alive
    <3>3. CASE timers' = RetriedTimers /\ UNCHANGED <<link, observing, failed>>
      BY <3>1, <3>3 DEF RetriedTimers, NothingIsStranded, RegistrationIsDue, Alive
    <3>4. ASSUME NEW rest, timers \ {"registration"} \subseteq rest, SendsRegistration(rest)
          PROVE  NothingIsStranded'
      <4>1. CASE /\ link' = [link EXCEPT !.sent = TRUE]
                 /\ observing' = Mutated(structure)
                 /\ timers' = (rest \ {"observation"}) \cup {"release"}
        <5>1. link'.sent /\ ~observing'.causes
          BY <4>1, MutatedFields DEF TypeOK, LinkState
        <5> QED
          BY <3>1, <3>4, <4>1, <5>1 DEF NothingIsStranded, RegistrationIsDue, Alive
      <4>2. CASE /\ timers' = rest
                 /\ failed' = failed \cup {"register"}
                 /\ UNCHANGED <<link, observing>>
        BY <3>1, <3>4, <4>2 DEF NothingIsStranded, RegistrationIsDue, Alive
      <4>3. CASE /\ link' = [link EXCEPT !.sent = TRUE]
                 /\ observing' = Mutated(observing.token)
                 /\ timers' = rest \ {"observation", "release"}
                 /\ failed' = failed \cup {"baseline"}
        <5>1. link'.sent /\ ~observing'.causes
          BY <4>3, MutatedFields DEF TypeOK, LinkState
        <5> QED
          BY <3>1, <3>4, <4>3, <5>1 DEF NothingIsStranded, RegistrationIsDue, Alive
      <4> QED
        BY <3>4, <4>1, <4>2, <4>3 DEF SendsRegistration
    <3> QED
      BY <2>1, <3>2, <3>3, <3>4 DEF RegistrationTimerFires, RegistersByMessage
  <2>2. CASE TransportOpens
    BY <2>2 DEF TransportOpens, NothingIsStranded, RegistrationIsDue, Alive, untouchedByLink
  <2>3. CASE TransportCloses
    <3>1. ~link'.open /\ save'.pending = save.pending
      BY <2>3 DEF TransportCloses, TypeOK, LinkState, SaveState
    <3> QED
      BY <2>3, <3>1 DEF TransportCloses, NothingIsStranded, RegistrationIsDue, Alive,
         untouchedByLink
  <2>4. CASE WindowIsShown \/ WindowIsHidden
    <3>1. link'.open = link.open /\ link'.sent = link.sent
      BY <2>4 DEF WindowIsShown, WindowIsHidden, TypeOK, LinkState
    <3> QED
      BY <2>4, <3>1 DEF WindowIsShown, WindowIsHidden, NothingIsStranded, RegistrationIsDue,
         Alive, untouchedByLink
  <2> QED
    BY <1>2, <2>1, <2>2, <2>3, <2>4 DEF LinkStep
<1>3. CASE SaveStep
  <2>1. CASE PersonSaves \/ MaxWrites
    BY <2>1, NotifiedOwesNothing DEF PersonSaves, MaxWrites, untouchedBySave, untouchedByWrite, answerVars
  <2>2. CASE Disposes
    BY <2>2 DEF Disposes, NothingIsStranded, Alive
  <2>3. CASE RequestSave
    BY <2>3 DEF RequestSave, Refuses, NothingIsStranded, RegistrationIsDue, Alive, untouchedBySave, untouchedByWrite
  <2>4. CASE SaveTimerFires
    BY <2>4 DEF SaveTimerFires, PolledTimers, Answered, NoSave, NothingIsStranded,
       RegistrationIsDue, Alive, untouchedBySave, untouchedByWrite
  <2>5. CASE DeadlinePasses \/ BridgeGivesUp
    <3>1. save'.pending = save.pending
      BY <2>5 DEF DeadlinePasses, BridgeGivesUp, TypeOK, SaveState
    <3> QED
      BY <2>5, <3>1 DEF DeadlinePasses, BridgeGivesUp, NothingIsStranded, RegistrationIsDue, Alive,
         untouchedBySave, untouchedByWrite
  <2>6. CASE MaxDoesNotWrite \/ RequestClose
    BY <2>6 DEF MaxDoesNotWrite, RequestClose, IsRequested, NothingIsStranded, RegistrationIsDue,
       Alive, untouchedBySave, untouchedByWrite, answerVars
  <2> QED
    BY <1>3, <2>1, <2>2, <2>3, <2>4, <2>5, <2>6 DEF SaveStep
<1>4. CASE UNCHANGED vars
  BY <1>4 DEF vars, NothingIsStranded, RegistrationIsDue, Alive
<1> QED
  BY <1>1, <1>2, <1>3, <1>4, StepKinds

\* What an open object owes has a timer set: no sequence of plans,
\* notifications, registrations, saves and lost connections leaves an
\* observation suppressed, a change untold, a connection unregistered or a save
\* unanswered without the timer that ends it.
THEOREM NothingIsEverStranded == Spec => []NothingIsStranded
<1>1. Init => AccountInv /\ NothingIsStranded
  <2>1. Init => ~link.open
    BY DEF Init
  <2>2. Init => observing.suppressed /\ ~observing.causes
    BY DEF Init
  <2>3. Init => timers = {"init"} /\ Alive
    BY DEF Init, Alive
  <2>4. Init => ~save.pending
    BY DEF Init, NoSave
  <2> QED
    BY <2>1, <2>2, <2>3, <2>4 DEF AccountInv, NothingIsStranded, RegistrationIsDue
<1> QED
  BY <1>1, AccountKept, StrandedKept, NativeTypesHold, PTL DEF Spec
=============================================================================
