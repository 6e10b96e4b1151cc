------------------------------ MODULE Composer ------------------------------
(***************************************************************************)
(* The form a host posts food with (src/mobile/src/screens/PostFood.tsx)   *)
(* and what goes on behind it while it is being filled: a photo on its way *)
(* to the image host (src/mobile/src/lib/uploads.ts), a fix being taken    *)
(* (src/mobile/src/hooks/useDeviceLocation.ts), a recogniser listening     *)
(* (src/mobile/src/hooks/useSpeech.ts) and the post itself.  The form is a *)
(* tab: it stays mounted, and filled, while the host is elsewhere.         *)
(***************************************************************************)
EXTENDS Integers

CONSTANTS
    MaxPhotos,  \* MAX_PHOTOS
    MaxWork     \* bound: things under way at once

ASSUME ComposerAssumption == {MaxPhotos, MaxWork} \subseteq Nat \ {0}

VARIABLES
    form,       \* the fields
    error,      \* whether a message stands above the buttons
    here,       \* whether this tab is the one on screen
    modal,      \* the picker, or the dialog of `Clear'
    uploading, submitting,
    location,   \* useDeviceLocation's status
    listening, blocked, \* useSpeech
    \* what is under way: photos, signed or not, the fix, posts, and runs of the recogniser
    \* that wait for permission, listen, or have said all they will
    upload, fix, creates, mic,
    platform,   \* the browser's recogniser, the phone's, or none
    \* history: the host entered something since the form was last cleared;
    \* something was under way when it was
    touched, late

screen == <<error, here, modal, uploading, submitting, location, listening, blocked>>
work == <<upload, fix, creates, mic>>
history == <<touched, late>>
vars == <<form, screen, work, platform, history>>

Locations == {"idle", "locating", "granted", "denied", "unavailable"}

\* `rest' stands for the other fields that are typed or chosen: all that a
\* post must have, or none.
Forms ==
    [rest: {"empty", "complete"}, description: BOOLEAN,
     source: {"voice", "manual"}, mode: {"voice", "manual"},
     later: BOOLEAN, photos: 0..MaxPhotos, pinned: BOOLEAN]

Blank ==
    [rest |-> "empty", description |-> FALSE, source |-> "manual",
     mode |-> "voice", later |-> FALSE, photos |-> 0, pinned |-> FALSE]

Init ==
    /\ form = Blank /\ error = FALSE /\ here = TRUE /\ modal = "none"
    /\ uploading = FALSE /\ submitting = FALSE /\ location = "idle"
    /\ listening = FALSE /\ blocked = FALSE
    /\ upload = [sign |-> 0, send |-> 0] /\ fix = "idle" /\ creates = 0
    /\ mic = [asking |-> 0, on |-> 0, spent |-> 0]
    /\ platform \in {"web", "native", "typed"}
    /\ touched = FALSE /\ late = FALSE

\* `dirty': the way the description is entered does not count.
Dirty(f) ==
    f.rest # "empty" \/ f.description \/ f.later \/ f.photos > 0 \/ f.pinned

\* validate() finds no problem.
Valid(f) == f.rest = "complete" /\ f.description

Uploads == upload.sign + upload.send
Sessions == mic.asking + mic.on + mic.spent
UnderWay == Uploads > 0 \/ fix # "idle" \/ Sessions > 0
Room ==
    Uploads + (IF fix = "idle" THEN 0 ELSE 1) + creates + Sessions < MaxWork

-----------------------------------------------------------------------------
(* The host, while nothing covers the form.                                *)

Press == here /\ modal = "none" /\ UNCHANGED <<here, platform>>
Entry == Press /\ touched' = TRUE /\ UNCHANGED late

Fill(rest) ==
    /\ Entry /\ form' = [form EXCEPT !.rest = rest]
    /\ UNCHANGED <<error, modal, uploading, submitting, location, listening, blocked, work>>

\* Typing over what was said makes it typed.
Describe(something) ==
    /\ Entry /\ form' = [form EXCEPT !.description = something, !.source = "manual"]
    /\ UNCHANGED <<error, modal, uploading, submitting, location, listening, blocked, work>>

Schedule ==
    /\ Entry /\ form' = [form EXCEPT !.later = ~@]
    /\ UNCHANGED <<error, modal, uploading, submitting, location, listening, blocked, work>>

\* Changing the way of entry stops a recogniser that is known to listen.
SwitchMode(mode) ==
    /\ Press /\ platform # "typed"
    /\ form' = [form EXCEPT !.mode = mode] /\ listening' = FALSE
    /\ UNCHANGED <<error, modal, uploading, submitting, location, blocked, work, history>>

\* start(): the phone asks for the microphone first; a browser does by itself.
Start ==
    /\ Room
    /\ IF platform = "native"
       THEN mic' = [mic EXCEPT !.asking = @ + 1] /\ UNCHANGED <<listening, blocked>>
       ELSE mic' = [mic EXCEPT !.on = @ + 1] /\ listening' = TRUE /\ UNCHANGED blocked

\* stop() asks the recogniser to end, as it would have in time.
ToggleMic ==
    /\ Entry /\ platform # "typed" /\ form.mode = "voice"
    /\ IF listening THEN listening' = FALSE /\ UNCHANGED <<mic, blocked>> ELSE Start
    /\ UNCHANGED <<form, error, modal, uploading, submitting, location, upload, fix, creates>>

\* Mutant: one may pick while a photo is on its way.
AddPhotoMeanwhile ==
    /\ Press /\ form.photos < MaxPhotos
    /\ modal' = "picker"
    /\ UNCHANGED <<form, error, uploading, submitting, location, listening, blocked, work, history>>

AddPhoto ==
    /\ Press /\ form.photos < MaxPhotos /\ ~uploading
    /\ modal' = "picker"
    /\ UNCHANGED <<form, error, uploading, submitting, location, listening, blocked, work, history>>

\* addPhoto() after the picker.
Picked(chosen) ==
    /\ modal = "picker" /\ modal' = "none"
    /\ IF chosen
       THEN /\ Room /\ uploading' = TRUE /\ error' = FALSE /\ touched' = TRUE
            /\ upload' = [upload EXCEPT !.sign = @ + 1]
       ELSE UNCHANGED <<uploading, error, touched, upload>>
    /\ UNCHANGED <<form, here, submitting, location, listening, blocked, fix, creates, mic, platform, late>>

RemovePhoto ==
    /\ Press /\ form.photos > 0 /\ form' = [form EXCEPT !.photos = @ - 1]
    /\ UNCHANGED <<error, modal, uploading, submitting, location, listening, blocked, work, history>>

\* pinCurrentLocation(); the button spins while a fix is being taken.
Pin ==
    /\ Entry /\ location # "locating" /\ Room
    /\ location' = "locating" /\ fix' = "permission"
    /\ UNCHANGED <<form, error, modal, uploading, submitting, listening, blocked, upload, creates, mic>>

\* `Clear' is there once there is something to lose.
AskClear ==
    /\ Press /\ Dirty(form) /\ modal' = "confirm"
    /\ UNCHANGED <<form, error, uploading, submitting, location, listening, blocked, work, history>>

\* Mutant: the pin is forgotten.
ClearedButPin == [Blank EXCEPT !.pinned = form.pinned]

\* clearForm().
Cleared == Blank

\* The dialog closes; nothing that is under way is called off.
Settle(accepted) ==
    /\ modal = "confirm" /\ modal' = "none"
    /\ IF accepted
       THEN form' = Cleared /\ error' = FALSE /\ touched' = FALSE /\ late' = UnderWay
       ELSE UNCHANGED <<form, error, touched, late>>
    /\ UNCHANGED <<here, uploading, submitting, location, listening, blocked, work, platform>>

\* submit(): `Publish' or `Schedule' wait for the last one, `Save as Draft'
\* does not.
Submit(draft) ==
    /\ Press /\ (draft \/ ~submitting)
    /\ IF ~Valid(form) THEN error' = TRUE /\ UNCHANGED <<submitting, creates>>
       ELSE /\ Room /\ creates' = creates + 1
            /\ error' = FALSE /\ submitting' = TRUE
    /\ UNCHANGED <<form, modal, uploading, location, listening, blocked, upload, fix, mic, history>>

\* Another tab, and back.
Move ==
    /\ modal = "none" /\ here' = ~here
    /\ UNCHANGED <<form, error, modal, uploading, submitting, location, listening, blocked,
                   work, platform, history>>

-----------------------------------------------------------------------------
(* What comes back.                                                        *)

\* addPhoto() and uploadPhoto() after their awaits: signed, then sent.
Uploaded(phase, ok) ==
    /\ upload[phase] > 0
    /\ IF ok /\ phase = "sign"
       THEN /\ upload' = [sign |-> upload.sign - 1, send |-> upload.send + 1]
            /\ UNCHANGED <<form, error, uploading>>
       ELSE /\ uploading' = FALSE /\ upload' = [upload EXCEPT ![phase] = @ - 1]
            /\ IF ok THEN form' = [form EXCEPT !.photos = @ + 1] /\ UNCHANGED error
               ELSE error' = TRUE /\ UNCHANGED form
    /\ UNCHANGED <<here, modal, submitting, location, listening, blocked, fix, creates, mic,
                   platform, history>>

\* request() and pinCurrentLocation() after their awaits: allowed, then fixed.
Located(answer) ==
    /\ fix # "idle"
    /\ IF answer = "granted" /\ fix = "permission"
       THEN fix' = "position" /\ UNCHANGED <<form, location>>
       ELSE /\ answer = "denied" => fix = "permission"
            /\ fix' = "idle" /\ location' = answer
            /\ form' = [form EXCEPT !.pinned = @ \/ answer = "granted"]
    /\ UNCHANGED <<error, here, modal, uploading, submitting, listening, blocked, upload, creates,
                   mic, platform, history>>

\* submit() after its await: posted, the host is shown their posts, and the
\* form stays as it was.
Created(ok) ==
    /\ creates > 0 /\ creates' = creates - 1 /\ submitting' = FALSE
    /\ IF ok THEN here' = FALSE /\ UNCHANGED error ELSE error' = TRUE /\ UNCHANGED here
    /\ UNCHANGED <<form, modal, uploading, location, listening, blocked, upload, fix, mic,
                   platform, history>>

Speech(new) ==
    /\ mic' = new
    /\ UNCHANGED <<error, here, modal, uploading, submitting, location, upload, fix, creates,
                   platform, history>>

\* start() after the permission: granted; refused for now; refused for good,
\* which the panel then offers Settings for; or the recogniser does not start.
Permitted(answer) ==
    /\ mic.asking > 0
    /\ Speech(IF answer = "granted"
              THEN [asking |-> mic.asking - 1, on |-> mic.on + 1, spent |-> mic.spent]
              ELSE [mic EXCEPT !.asking = @ - 1])
    /\ listening' = CASE answer = "granted" -> TRUE
                       [] answer = "failed" -> FALSE
                       [] OTHER -> listening
    /\ blocked' \in CASE answer = "never" -> {TRUE}
                       [] answer = "failed" -> {blocked, FALSE}
                       [] OTHER -> {FALSE}
    /\ UNCHANGED form

\* One run has delivered its phrase, or its error, and is about to end.
AllSaid == [asking |-> mic.asking, on |-> mic.on - 1, spent |-> mic.spent + 1]

\* A phrase goes behind what the description holds.  The phone drops an empty
\* one; the browser passes it on, and what was typed counts as said.
Heard(something) ==
    /\ mic.on > 0 /\ Speech(AllSaid)
    /\ form' = IF something \/ platform = "web"
               THEN [form EXCEPT !.description = @ \/ something, !.source = "voice"]
               ELSE form
    /\ UNCHANGED <<listening, blocked>>

Misheard ==
    /\ mic.on > 0 /\ Speech(AllSaid)
    /\ listening' = FALSE /\ UNCHANGED <<form, blocked>>

\* Mutant: listening is left to results and errors.
EndedNoReset(phase) ==
    /\ mic[phase] > 0 /\ Speech([mic EXCEPT ![phase] = @ - 1])
    /\ UNCHANGED <<form, listening, blocked>>

\* `end': however recognition finished.
Ended(phase) ==
    /\ mic[phase] > 0 /\ Speech([mic EXCEPT ![phase] = @ - 1])
    /\ listening' = FALSE /\ UNCHANGED <<form, blocked>>

-----------------------------------------------------------------------------
Host ==
    \/ \E rest \in {"empty", "complete"} : Fill(rest)
    \/ \E something \in BOOLEAN : Describe(something)
    \/ \E mode \in {"voice", "manual"} : SwitchMode(mode)
    \/ \E ok \in BOOLEAN : Picked(ok) \/ Settle(ok) \/ Submit(ok)
    \/ Schedule \/ ToggleMic \/ AddPhoto \/ RemovePhoto \/ Pin \/ AskClear \/ Move

PhotoComes == \E phase \in {"sign", "send"}, ok \in BOOLEAN : Uploaded(phase, ok)
FixComes == \E answer \in {"granted", "denied", "unavailable"} : Located(answer)
PostComes == \E ok \in BOOLEAN : Created(ok)
SpeechComes ==
    \/ \E answer \in {"granted", "later", "never", "failed"} : Permitted(answer)
    \/ \E something \in BOOLEAN : Heard(something)
    \/ Misheard \/ \E phase \in {"on", "spent"} : Ended(phase)

Next == Host \/ PhotoComes \/ FixComes \/ PostComes \/ SpeechComes

Spec == Init /\ [][Next]_vars

\* Every request is answered or times out, and every run of the recogniser
\* ends; the host may do nothing at all.
FairSpec ==
    /\ Spec /\ WF_vars(PhotoComes) /\ WF_vars(FixComes)
    /\ WF_vars(PostComes) /\ WF_vars(SpeechComes)

-----------------------------------------------------------------------------
FlagsOK ==
    /\ error \in BOOLEAN /\ here \in BOOLEAN /\ uploading \in BOOLEAN /\ submitting \in BOOLEAN
    /\ listening \in BOOLEAN /\ blocked \in BOOLEAN /\ touched \in BOOLEAN /\ late \in BOOLEAN

\* One photo is on its way at a time, so that the form never holds more than
\* MAX_PHOTOS of them however late they come, and only a phone asks first.
TypeOK ==
    /\ form \in Forms
    /\ location \in Locations 
    /\ modal \in {"none", "picker", "confirm"}
    /\ upload \in [sign: Nat, send: Nat] /\ fix \in {"idle", "permission", "position"}
    /\ creates \in Nat /\ mic \in [asking: Nat, on: Nat, spent: Nat]
    /\ FlagsOK
    /\ platform \in {"web", "native", "typed"} /\ (mic.asking > 0 => platform = "native")

\* "Everything you have entered will be discarded"
\* (src/mobile/src/screens/PostFood.tsx:189): a form that was cleared with
\* nothing under way is empty until the host enters something, whatever comes
\* back from what was started before an earlier clearing.
ClearIsClean == Dirty(form) => touched \/ late

\* No button spins, and no panel stays red, for ever: whatever fails and
\* whatever the host does meanwhile, each comes back.
NothingStaysBusy ==
    /\ []<>~uploading /\ []<>~submitting
    /\ []<>(location # "locating") /\ []<>~listening
=============================================================================
