---------------------------- MODULE NativePatch ----------------------------
(***************************************************************************)
(* One maxforge.sync object and the patch around it: the registration with *)
(* the bridge, the observation of a person's edits between the plans of an *)
(* agent, saving and closing.  Everything runs on Max's main thread; the   *)
(* interleavings are those of its timers, deferred calls, messages and the *)
(* person at the patch.                                                    *)
(* The patch's content is one value, as its structure token would be.      *)
(***************************************************************************)
EXTENDS Naturals

CONSTANTS
  Structure,    \* contents of the patch
  Path,         \* files
  None,
  MaxChanges,   \* bounds: edits and saves of the person and plans of an agent,
  MaxSaves,     \* requests to save,
  MaxMishaps    \* connections lost, windows hidden, answers given up; events that are
                \* not sent, snapshots, attachments or writes that fail

ASSUME NativeAssumption ==
  /\ None \notin Structure \cup Path
  /\ {MaxChanges, MaxSaves, MaxMishaps} \subseteq Nat

VARIABLES
  structure,   \* the content of the patch
  dirty,       \* Max's flag of the patch
  filepath,    \* Max's path of the patch, or None
  disk,        \* the content of each file, or None
  writing,     \* the paths that Max was asked to write and has not yet
  link,        \* transport_open_, registration_sent_, and whether a view is visible
  observing,   \* edit_observation_suppressed_, pending causes, the last token
  timers,      \* the timers that are set
  save,        \* pending_patch_save_
  reply,       \* the last event that answered a save or a close
  phase,       \* "open", "closing" until the deferred disposal, "disposed"
  missed,      \* history: the content changed and no observation accounts for it
  failed,      \* history: what was given up with a reported error, and not begun anew
  edit,        \* history: what became of the person's last edit that was listened to
  spent        \* how often each bounded event happened

vars == <<structure, dirty, filepath, disk, writing, link, observing, timers, save,
          reply, phase, missed, failed, edit, spent>>

Timer == {"init", "registration", "observation", "release", "save"}

\* The report of a change, a registration, the release after a baseline was sent.
GivenUp == {"observe", "register", "baseline"}

\* An edit is told in an observation or a baseline, undone before it was told,
\* taken into the content that a plan leaves, or lost: its observation is not sent,
\* or cannot be made.
Fate == {"none", "seen", "told", "undone", "absorbed", "unsent", "unread"}

Budget ==
  [changes |-> MaxChanges, saves |-> MaxSaves, mishaps |-> MaxMishaps]

\* The state of an object that the person opened or a controller created.
NoSave == [pending |-> FALSE, destination |-> None, expired |-> FALSE, awaited |-> FALSE]

SaveState ==
  [pending : BOOLEAN, destination : Path \cup {None}, expired : BOOLEAN,
   awaited : BOOLEAN]

LinkState == [open : BOOLEAN, sent : BOOLEAN, visible : BOOLEAN]

ObservingState == [suppressed : BOOLEAN, causes : BOOLEAN, token : Structure \cup {None}]

\* The values of the variables.
TypeOK ==
  /\ structure \in Structure
  /\ dirty \in BOOLEAN
  /\ filepath \in Path \cup {None}
  /\ disk \in [Path -> Structure \cup {None}]
  /\ writing \subseteq Path
  /\ link \in LinkState
  /\ observing \in ObservingState
  /\ timers \subseteq Timer
  /\ save \in SaveState
  /\ save.awaited => save.pending
  /\ reply \in {"none", "saved", "closing", "discarded", "error"}
  /\ phase \in {"open", "closing", "disposed"}
  /\ missed \in BOOLEAN
  /\ failed \subseteq GivenUp
  /\ edit \in Fate
  /\ spent \in [DOMAIN Budget -> Nat]

Init ==
  /\ structure \in Structure
  /\ \/ dirty = TRUE /\ filepath = None /\ disk = [p \in Path |-> None]
     \/ /\ dirty = FALSE
        /\ filepath \in Path
        /\ disk = [p \in Path |-> IF p = filepath THEN structure ELSE None]
  /\ writing = {}
  /\ link \in [open : {FALSE}, sent : {FALSE}, visible : BOOLEAN]
  /\ observing = [suppressed |-> TRUE, causes |-> FALSE, token |-> None]
  /\ timers = {"init"}
  /\ save = NoSave
  /\ reply = "none"
  /\ phase = "open"
  /\ missed = FALSE
  /\ failed = {}
  /\ edit = "none"
  /\ spent = [k \in DOMAIN Budget |-> 0]

Alive == phase # "disposed"

Spend(kind) ==
  /\ spent[kind] < Budget[kind]
  /\ spent' = [spent EXCEPT ![kind] = @ + 1]

\* The bridge has one request per patch on its way.
SlotIsFree == ~save.awaited

fileVars == <<filepath, disk, writing>>
answerVars == <<save, reply, phase>>

(***************************************************************************)
(* Observation.                                                            *)
(***************************************************************************)
IsListening == ~observing.suppressed /\ link.open /\ link.sent

NotifiedTimersBug ==
  timers \cup (IF save.pending THEN {"save"}
               ELSE IF IsListening THEN {"observation"} ELSE {})

\* record_edit_notification: every notification restarts the timer of 75 ms,
\* and makes a pending save look at the patch at once.
NotifiedTimers ==
  timers \cup (IF save.pending THEN {"save"} ELSE {})
         \cup (IF IsListening THEN {"observation"} ELSE {})

Notified ==
  /\ timers' = NotifiedTimers
  /\ observing' = [observing EXCEPT !.causes = @ \/ IsListening]
  /\ failed' = IF IsListening THEN failed \ {"observe"} ELSE failed

\* begin_agent_mutation, with the content that is the last observed after it.
Mutated(token) == [suppressed |-> TRUE, causes |-> FALSE, token |-> token]

TimersAfterMutationBug == timers \ {"observation", "release"}

\* The timers after end_agent_mutation or cancel_agent_mutation.
TimersAfterMutation == (timers \ {"observation"}) \cup {"release"}

\* What becomes of an edit that is still to be told.
Becomes(fate) == edit' = IF edit = "seen" THEN fate ELSE edit

\* The person changes the patch.
PersonEdits ==
  /\ Alive
  /\ Spend("changes")
  /\ structure' \in Structure \ {structure}
  /\ dirty' = TRUE
  /\ Notified
  /\ missed' = (missed \/ ~IsListening)
  /\ edit' = IF IsListening THEN "seen" ELSE edit
  /\ UNCHANGED <<link, fileVars, answerVars>>

IsDifferent == ~observing.suppressed /\ observing.causes /\ observing.token # structure

\* send_edit_observation with nothing to send, or the cleared causes of a
\* suppressed object.
HasNothingToTell ==
  /\ ~IsDifferent
  /\ observing' = [observing EXCEPT !.causes = FALSE]
  /\ Becomes("undone")
  /\ UNCHANGED <<missed, failed, spent>>

\* The content is the last one observed whether or not the event is sent.
Tells ==
  /\ IsDifferent
  /\ observing' = [observing EXCEPT !.causes = FALSE, !.token = structure]
  /\ \/ /\ link.open
        /\ missed' = FALSE
        /\ edit' = "told"
        /\ UNCHANGED spent
     \/ /\ missed' = TRUE
        /\ Becomes("unsent")
        /\ IF link.open THEN Spend("mishaps") ELSE UNCHANGED spent
  /\ UNCHANGED failed

\* The snapshot or an attachment fails.
CannotTell ==
  /\ ~observing.suppressed
  /\ Spend("mishaps")
  /\ failed' = failed \cup {"observe"}
  /\ Becomes("unread")
  /\ UNCHANGED <<observing, missed>>

\* observation_timer_ and send_edit_observation.
ObservationTimerFires ==
  /\ Alive
  /\ "observation" \in timers
  /\ timers' = timers \ {"observation"}
  /\ HasNothingToTell \/ Tells \/ CannotTell
  /\ UNCHANGED <<structure, dirty, link, fileVars, answerVars>>

\* observation_release_timer_
ReleaseTimerFires ==
  /\ Alive
  /\ "release" \in timers
  /\ timers' = timers \ {"release"}
  /\ observing' = [observing EXCEPT !.suppressed = FALSE]
  /\ UNCHANGED <<structure, dirty, link, fileVars, answerVars, missed, failed, edit, spent>>

\* end_agent_mutation: the content becomes the last one observed, unless the
\* snapshot or an attachment fails; the observation is released either way.
MutationEnds(content) ==
  \/ observing' = Mutated(content) /\ missed' = FALSE
  \/ observing' = Mutated(None) /\ missed' = TRUE

\* init_timer_: connect_transport and end_agent_mutation.
InitTimerFires ==
  /\ Alive
  /\ "init" \in timers
  /\ timers' = TimersAfterMutation \ {"init"}
  /\ MutationEnds(structure)
  /\ UNCHANGED <<structure, dirty, link, fileVars, answerVars, failed, edit, spent>>

\* A plan of an agent, from the bridge or as a message to the object.  It is
\* applied and the new content becomes the last one observed; or it fails, the
\* rollback restores the content or does not, and nothing is observed.  An edit of
\* the person that was still to be told is not told any more.
Applies ==
  /\ Alive
  /\ "init" \notin timers
  /\ Spend("changes")
  /\ structure' \in Structure
  /\ dirty' = TRUE
  /\ timers' = TimersAfterMutation
  /\ \/ MutationEnds(structure')
     \/ /\ observing' = Mutated(observing.token)
        /\ missed' = (missed \/ observing.token # structure')
  /\ failed' = failed \ {"baseline"}
  /\ Becomes("absorbed")
  /\ UNCHANGED <<link, fileVars, answerVars>>

(***************************************************************************)
(* The connection and the registration.                                    *)
(***************************************************************************)
untouchedByLink == <<structure, dirty, fileVars, reply, phase>>

\* deliver_transport_events, the event open.  When the token is not valid or the
\* authentication not sent, the connection stays open and nothing will register.
TransportOpens ==
  /\ Alive
  /\ ~link.open
  /\ "init" \notin timers
  /\ link' = [link EXCEPT !.open = TRUE, !.sent = FALSE]
  /\ \/ /\ timers' = timers \cup {"registration"}
        /\ failed' = failed \ {"register"}
        /\ UNCHANGED spent
     \/ /\ Spend("mishaps")
        /\ failed' = failed \cup {"register"}
        /\ UNCHANGED timers
  /\ UNCHANGED <<untouchedByLink, observing, save, missed, edit>>

\* The event close, or the message disconnect.  Nobody waits for an answer any
\* more.
TransportCloses ==
  /\ Alive
  /\ link.open
  /\ Spend("mishaps")
  /\ link' = [link EXCEPT !.open = FALSE, !.sent = FALSE]
  /\ save' = [save EXCEPT !.awaited = FALSE]
  /\ UNCHANGED <<untouchedByLink, observing, timers, missed, failed, edit>>

WindowIsShown ==
  /\ Alive
  /\ ~link.visible
  /\ link' = [link EXCEPT !.visible = TRUE]
  /\ UNCHANGED <<untouchedByLink, observing, timers, save, missed, failed, edit, spent>>

WindowIsHidden ==
  /\ Alive
  /\ link.visible
  /\ Spend("mishaps")
  /\ link' = [link EXCEPT !.visible = FALSE]
  /\ UNCHANGED <<untouchedByLink, observing, timers, save, missed, failed, edit>>

\* A patch without a visible window looks again in 100 ms.
RetriedTimers == timers

RegistrationIsDue == link.open /\ ~link.sent

\* send_registration_event with a visible window, rest being the timers that are
\* set beside: the content that is sent as the baseline is the last one observed;
\* or the event cannot be made or sent; or it is sent and an attachment fails,
\* which leaves the observation suppressed.
SendsRegistration(rest) ==
  \/ /\ link' = [link EXCEPT !.sent = TRUE]
     /\ observing' = Mutated(structure)
     /\ timers' = (rest \ {"observation"}) \cup {"release"}
     /\ missed' = FALSE
     /\ edit' = "told"
     /\ failed' = failed \ {"baseline"}
     /\ UNCHANGED spent
  \/ /\ Spend("mishaps")
     /\ timers' = rest
     /\ failed' = failed \cup {"register"}
     /\ UNCHANGED <<link, observing, missed, edit>>
  \/ /\ Spend("mishaps")
     /\ link' = [link EXCEPT !.sent = TRUE]
     /\ observing' = Mutated(observing.token)
     /\ timers' = rest \ {"observation", "release"}
     /\ missed' = (missed \/ observing.token # structure)
     /\ edit' = "told"
     /\ failed' = failed \cup {"baseline"}

\* registration_timer_
RegistrationTimerFires ==
  /\ Alive
  /\ "registration" \in timers
  /\ UNCHANGED <<untouchedByLink, save>>
  /\ \/ /\ ~RegistrationIsDue
        /\ timers' = timers \ {"registration"}
        /\ UNCHANGED <<link, observing, missed, failed, edit, spent>>
     \/ /\ RegistrationIsDue
        /\ ~link.visible
        /\ timers' = RetriedTimers
        /\ UNCHANGED <<link, observing, missed, failed, edit, spent>>
     \/ /\ RegistrationIsDue
        /\ link.visible
        /\ SendsRegistration(timers \ {"registration"})

\* The message register, once more or before its time.
RegistersByMessage ==
  /\ Alive
  /\ link.open
  /\ link.visible
  /\ SendsRegistration(timers)
  /\ UNCHANGED <<untouchedByLink, save>>

(***************************************************************************)
(* Saving and closing.                                                     *)
(***************************************************************************)
untouchedByWrite == <<structure, link, missed, edit>>
untouchedBySave == <<untouchedByWrite, failed>>

\* A request reaches the patch that the bridge knows.
IsRequested == Alive /\ link.open /\ link.sent /\ SlotIsFree

Refuses == reply' = "error" /\ UNCHANGED <<dirty, fileVars, save, phase, timers, observing>>

CanSaveTo(destination, overwrite) ==
  /\ ~save.pending
  /\ IF destination = None
       THEN filepath # None
       ELSE overwrite \/ disk[destination] = None

\* maxforge.save_patch.request; Max may also reject the request to write.
RequestSave ==
  /\ IsRequested
  /\ Spend("saves")
  /\ UNCHANGED untouchedBySave
  /\ \/ Refuses
     \/ \E destination \in Path \cup {None}, overwrite \in BOOLEAN :
          /\ CanSaveTo(destination, overwrite)
          /\ save' = [pending |-> TRUE, destination |-> destination,
                      expired |-> FALSE, awaited |-> TRUE]
          /\ writing' = writing \cup {IF destination = None THEN filepath ELSE destination}
          /\ timers' = timers \cup {"save"}
          /\ reply' = "none"
          /\ UNCHANGED <<dirty, filepath, disk, phase, observing>>

\* Max writes the patch, and tells of its path and its flag.
MaxWrites ==
  /\ Alive
  /\ \E path \in writing :
       /\ writing' = writing \ {path}
       /\ filepath' = path
       /\ disk' = [disk EXCEPT ![path] = structure]
  /\ dirty' = FALSE
  /\ Notified
  /\ UNCHANGED <<untouchedByWrite, answerVars, spent>>

MaxDoesNotWrite ==
  /\ Alive
  /\ Spend("mishaps")
  /\ \E path \in writing : writing' = writing \ {path}
  /\ UNCHANGED <<untouchedBySave, answerVars, dirty, filepath, disk, observing, timers>>

\* The person saves, perhaps under another name.
PersonSaves ==
  /\ Alive
  /\ Spend("changes")
  /\ \E path \in Path :
       /\ filepath' = path
       /\ disk' = [disk EXCEPT ![path] = structure]
  /\ dirty' = FALSE
  /\ Notified
  /\ UNCHANGED <<untouchedByWrite, answerVars, writing>>

DestinationMatches == save.destination # None => filepath = save.destination

IsSavedBug == ~dirty /\ filepath # None

\* evaluate_save_completion
IsSaved == ~dirty /\ filepath # None /\ DestinationMatches

\* pending_patch_save_.reset()
Answered == NoSave

PolledTimersBug == timers \ {"save"}

\* A save that is not done is looked at again in 25 ms.
PolledTimers == timers

\* save_timer_ and check_pending_save.
SaveTimerFires ==
  /\ Alive
  /\ "save" \in timers
  /\ UNCHANGED <<untouchedBySave, dirty, fileVars, phase, observing, spent>>
  /\ \/ /\ ~save.pending
        /\ timers' = timers \ {"save"}
        /\ UNCHANGED <<save, reply>>
     \/ /\ save.pending
        /\ ~IsSaved
        /\ ~save.expired
        /\ timers' = PolledTimers
        /\ UNCHANGED <<save, reply>>
     \/ /\ save.pending
        /\ IsSaved \/ save.expired
        /\ timers' = timers \ {"save"}
        /\ save' = Answered
        /\ reply' = IF IsSaved THEN "saved" ELSE "error"

\* The four seconds of a save pass.
DeadlinePasses ==
  /\ Alive
  /\ save.pending
  /\ ~save.expired
  /\ save' = [save EXCEPT !.expired = TRUE]
  /\ UNCHANGED <<untouchedBySave, dirty, fileVars, reply, phase, timers, observing, spent>>

\* The bridge's own timeout of the request.
BridgeGivesUp ==
  /\ save.awaited
  /\ Spend("mishaps")
  /\ save' = [save EXCEPT !.awaited = FALSE]
  /\ UNCHANGED <<untouchedBySave, dirty, fileVars, reply, phase, timers, observing>>

MayCloseBug(discard) == TRUE

MayClose(discard) == discard \/ ~dirty

\* maxforge.close_patch.request: the flag is cleared, the disposal deferred.
RequestClose ==
  /\ IsRequested
  /\ UNCHANGED <<untouchedBySave, fileVars, save, timers, observing, spent>>
  /\ \E discard \in BOOLEAN :
       \/ /\ ~MayClose(discard)
          /\ reply' = "error"
          /\ UNCHANGED <<dirty, phase>>
       \/ /\ MayClose(discard)
          /\ dirty' = FALSE
          /\ reply' = IF dirty /\ discard THEN "discarded" ELSE "closing"
          /\ phase' = "closing"

\* dispose_patcher_deferred
Disposes ==
  /\ phase = "closing"
  /\ phase' = "disposed"
  /\ timers' = {}
  /\ save' = NoSave
  /\ writing' = {}
  /\ link' = [link EXCEPT !.open = FALSE, !.sent = FALSE]
  /\ UNCHANGED <<structure, dirty, filepath, disk, observing, reply, missed, failed, edit,
                 spent>>

Next ==
  \/ PersonEdits
  \/ PersonSaves
  \/ ObservationTimerFires
  \/ ReleaseTimerFires
  \/ InitTimerFires
  \/ Applies
  \/ TransportOpens
  \/ TransportCloses
  \/ WindowIsShown
  \/ WindowIsHidden
  \/ RegistrationTimerFires
  \/ RegistersByMessage
  \/ RequestSave
  \/ MaxWrites
  \/ MaxDoesNotWrite
  \/ SaveTimerFires
  \/ DeadlinePasses
  \/ BridgeGivesUp
  \/ RequestClose
  \/ Disposes

\* Max runs every timer that is set and every deferred call; time passes.
Fairness ==
  /\ WF_vars(InitTimerFires)
  /\ WF_vars(ObservationTimerFires)
  /\ WF_vars(ReleaseTimerFires)
  /\ WF_vars(RegistrationTimerFires)
  /\ WF_vars(SaveTimerFires)
  /\ WF_vars(DeadlinePasses)
  /\ WF_vars(Disposes)

Spec == Init /\ [][Next]_vars

FairSpec == Spec /\ Fairness

(***************************************************************************)
(* Properties.                                                             *)
(***************************************************************************)
\* While the object listens and no cause is pending, the content is the one it
\* last told the bridge of, or that a plan left, unless it changed at a moment
\* when nothing was listened to or its observation was not sent
\* (record_edit_notification, send_edit_observation, begin_agent_mutation,
\* end_agent_mutation).
QuietIsAccounted ==
  IsListening /\ ~observing.causes => missed \/ observing.token = structure

\* What an open object still owes has a timer set that settles it, whatever
\* plan, notification, registration, loss of the connection or save came since:
\* the release of a suppressed observation, the report of a seen change, the
\* registration of a connection, the answer to a save.  Each of the first three
\* has one way of being given up, with a reported error, until the next plan, the
\* next notification or the next connection begins it anew
\* (begin_agent_mutation, send_registration_event; observation_timer_,
\* record_edit_notification; send_authentication_event, registration_timer_;
\* save_timer_).
NothingIsStranded ==
  Alive =>
    /\ observing.suppressed /\ "baseline" \notin failed => timers \cap {"init", "release"} # {}
    /\ observing.causes /\ "observe" \notin failed => "observation" \in timers
    /\ RegistrationIsDue /\ "register" \notin failed => "registration" \in timers
    /\ save.pending => "save" \in timers

\* A change that is listened to does not wait for ever, whatever other change,
\* plan, registration, save or loss of the connection comes before its 75 ms are
\* over.  It is told; or the change is undone; or an agent's plan takes it into the
\* content that it leaves; or it is lost with the connection, a refused event or a
\* failed snapshot (record_edit_notification, observation_timer_).
EditsAreObserved == edit = "seen" ~> edit # "seen" \/ ~Alive

\* The native object "excludes agent-authored plan application, and drops events
\* when the structure token did not change" (docs/mcp.md:480): a change of the
\* person that is listened to is not dropped because a plan comes before its 75 ms
\* are over.
PlansHideNoEdits == edit # "absorbed"

\* A save is answered or times out (save_timer_, the deadline of four seconds).
SaveIsAnswered == save.pending ~> ~save.pending

\* A save that its requester still waits for is reported as done only when the
\* content is in the file of the patch, and in the file that was asked for,
\* whatever the person, Max, or a plan did while it was polled; and a close that
\* reports nothing discarded leaves the content in the file.  (A patch that is
\* about to be disposed has its flag cleared without having been saved.)
\* (check_pending_save, evaluate_save_completion, maxforge.close_patch.request).
AnswersAreTrue ==
  [][/\ save.pending /\ save.awaited /\ phase = "open" /\ ~save'.pending /\ reply' = "saved"
        => disk[filepath] = structure /\ DestinationMatches
     /\ phase = "open" /\ phase' = "closing" /\ reply' = "closing"
        => filepath # None /\ disk[filepath] = structure]_vars
=============================================================================
