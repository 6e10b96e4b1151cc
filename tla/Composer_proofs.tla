-------------------------- MODULE Composer_proofs --------------------------
(***************************************************************************)
(* Theorems about Composer, for every number of photos and every amount of *)
(* work under way.                                                         *)
(***************************************************************************)
EXTENDS Composer, TLAPS

\* A photo on its way keeps its place, and the picker is only up when there is
\* one.
PlaceKept ==
    /\ Uploads <= 1 /\ (Uploads = 1 <=> uploading)
    /\ uploading => form.photos < MaxPhotos
    /\ modal = "picker" => ~uploading /\ form.photos < MaxPhotos

\* What is under way was started since the form was last cleared, or is late.
Accounted == Dirty(form) \/ UnderWay => touched \/ late

IInv == TypeOK /\ PlaceKept /\ Accounted

LEMMA BlankIsForm == Blank \in Forms
  BY ComposerAssumption DEF Forms, Blank

LEMMA InitIInv == Init => IInv
<1> SUFFICES ASSUME Init PROVE IInv
  OBVIOUS
<1> USE ComposerAssumption DEF Init
<1>1. TypeOK
  <2>1. form \in Forms
    BY BlankIsForm
  <2>2. FlagsOK
    BY Zenon DEF FlagsOK
  <2> QED BY <2>1, <2>2 DEF TypeOK, Locations
<1>2. PlaceKept
  BY DEF PlaceKept, Uploads, Blank
<1>3. Accounted
  BY DEF Accounted, Dirty, UnderWay, Uploads, Sessions, Blank
<1> QED BY <1>1, <1>2, <1>3 DEF IInv

LEMMA NextIInv == IInv /\ [Next]_vars => IInv'
<1> SUFFICES ASSUME IInv, [Next]_vars PROVE IInv'
  OBVIOUS
<1> USE ComposerAssumption DEF IInv, Press, Entry, work, history
<1>1. ASSUME NEW rest \in {"empty", "complete"}, Fill(rest) PROVE IInv'
  <2>1. TypeOK'
    <3>1. FlagsOK'
      BY <1>1, Zenon DEF TypeOK, FlagsOK, UnderWay, Fill
    <3> QED BY <1>1, <3>1 DEF TypeOK, Forms, Locations, Fill
  <2>2. PlaceKept'
    BY <1>1 DEF PlaceKept, TypeOK, Forms, Uploads, Fill
  <2>3. Accounted'
    BY <1>1 DEF Accounted, Dirty, UnderWay, Uploads, Sessions, TypeOK, Forms, Fill
  <2> QED BY <2>1, <2>2, <2>3
<1>2. ASSUME NEW something \in BOOLEAN, Describe(something) PROVE IInv'
  <2>1. TypeOK'
    <3>1. FlagsOK'
      BY <1>2, Zenon DEF TypeOK, FlagsOK, UnderWay, Describe
    <3> QED BY <1>2, <3>1 DEF TypeOK, Forms, Locations, Describe
  <2>2. PlaceKept'
    BY <1>2 DEF PlaceKept, TypeOK, Forms, Uploads, Describe
  <2>3. Accounted'
    BY <1>2 DEF Accounted, Dirty, UnderWay, Uploads, Sessions, TypeOK, Forms, Describe
  <2> QED BY <2>1, <2>2, <2>3
<1>3. ASSUME NEW mode \in {"voice", "manual"}, SwitchMode(mode) PROVE IInv'
  <2>1. TypeOK'
    <3>1. FlagsOK'
      BY <1>3, Zenon DEF TypeOK, FlagsOK, UnderWay, SwitchMode
    <3> QED BY <1>3, <3>1 DEF TypeOK, Forms, Locations, SwitchMode
  <2>2. PlaceKept'
    BY <1>3 DEF PlaceKept, TypeOK, Forms, Uploads, SwitchMode
  <2>3. Accounted'
    BY <1>3 DEF Accounted, Dirty, UnderWay, Uploads, Sessions, TypeOK, Forms, SwitchMode
  <2> QED BY <2>1, <2>2, <2>3
<1>4. ASSUME NEW ok \in BOOLEAN, Picked(ok) PROVE IInv'
  <2>1. TypeOK'
    <3>1. FlagsOK'
      BY <1>4, Zenon DEF TypeOK, FlagsOK, UnderWay, Picked
    <3> QED BY <1>4, <3>1 DEF TypeOK, Forms, Locations, Picked
  <2>2. PlaceKept'
    BY <1>4 DEF PlaceKept, TypeOK, Forms, Uploads, Picked
  <2>3. Accounted'
    BY <1>4 DEF Accounted, Dirty, UnderWay, Uploads, Sessions, TypeOK, Forms, Picked
  <2> QED BY <2>1, <2>2, <2>3
<1>5. ASSUME NEW ok \in BOOLEAN, Settle(ok) PROVE IInv'
  <2>1. TypeOK'
    <3>1. FlagsOK'
      BY <1>5, Zenon DEF TypeOK, FlagsOK, UnderWay, Settle, Cleared, Blank
    <3> QED BY <1>5, <3>1, BlankIsForm DEF TypeOK, Locations, Settle, Cleared
  <2>2. PlaceKept'
    BY <1>5 DEF PlaceKept, TypeOK, Forms, Uploads, Settle, Cleared, Blank
  <2>3. Accounted'
    BY <1>5 DEF Accounted, Dirty, UnderWay, Uploads, Sessions, TypeOK, Forms, Settle, Cleared, Blank
  <2> QED BY <2>1, <2>2, <2>3
<1>6. ASSUME NEW ok \in BOOLEAN, Submit(ok) PROVE IInv'
  <2>1. TypeOK'
    <3>1. FlagsOK'
      BY <1>6, Zenon DEF TypeOK, FlagsOK, UnderWay, Submit
    <3> QED BY <1>6, <3>1 DEF TypeOK, Forms, Locations, Submit
  <2>2. PlaceKept'
    BY <1>6 DEF PlaceKept, TypeOK, Forms, Uploads, Submit
  <2>3. Accounted'
    BY <1>6 DEF Accounted, Dirty, UnderWay, Uploads, Sessions, TypeOK, Forms, Submit
  <2> QED BY <2>1, <2>2, <2>3
<1>7. CASE Schedule
  <2>1. TypeOK'
    <3>1. FlagsOK'
      BY <1>7, Zenon DEF TypeOK, FlagsOK, UnderWay, Schedule
    <3> QED BY <1>7, <3>1 DEF TypeOK, Forms, Locations, Schedule
  <2>2. PlaceKept'
    BY <1>7 DEF PlaceKept, TypeOK, Forms, Uploads, Schedule
  <2>3. Accounted'
    BY <1>7 DEF Accounted, Dirty, UnderWay, Uploads, Sessions, TypeOK, Forms, Schedule
  <2> QED BY <2>1, <2>2, <2>3
<1>8. CASE ToggleMic
  <2>1. TypeOK'
    <3>1. FlagsOK'
      BY <1>8, Zenon DEF TypeOK, FlagsOK, UnderWay, ToggleMic, Start
    <3> QED BY <1>8, <3>1 DEF TypeOK, Forms, Locations, ToggleMic, Start
  <2>2. PlaceKept'
    BY <1>8 DEF PlaceKept, TypeOK, Forms, Uploads, ToggleMic, Start
  <2>3. Accounted'
    BY <1>8 DEF Accounted, Dirty, UnderWay, Uploads, Sessions, TypeOK, Forms, ToggleMic, Start
  <2> QED BY <2>1, <2>2, <2>3
<1>9. CASE AddPhoto
  <2>1. TypeOK'
    <3>1. FlagsOK'
      BY <1>9, Zenon DEF TypeOK, FlagsOK, UnderWay, AddPhoto
    <3> QED BY <1>9, <3>1 DEF TypeOK, Forms, Locations, AddPhoto
  <2>2. PlaceKept'
    BY <1>9 DEF PlaceKept, TypeOK, Forms, Uploads, AddPhoto
  <2>3. Accounted'
    BY <1>9 DEF Accounted, Dirty, UnderWay, Uploads, Sessions, TypeOK, Forms, AddPhoto
  <2> QED BY <2>1, <2>2, <2>3
<1>10. CASE RemovePhoto
  <2>1. TypeOK'
    <3>1. FlagsOK'
      BY <1>10, Zenon DEF TypeOK, FlagsOK, UnderWay, RemovePhoto
    <3> QED BY <1>10, <3>1 DEF TypeOK, Forms, Locations, RemovePhoto
  <2>2. PlaceKept'
    BY <1>10 DEF PlaceKept, TypeOK, Forms, Uploads, RemovePhoto
  <2>3. Accounted'
    BY <1>10 DEF Accounted, Dirty, UnderWay, Uploads, Sessions, TypeOK, Forms, RemovePhoto
  <2> QED BY <2>1, <2>2, <2>3
<1>11. CASE Pin
  <2>1. TypeOK'
    <3>1. FlagsOK'
      BY <1>11, Zenon DEF TypeOK, FlagsOK, UnderWay, Pin
    <3> QED BY <1>11, <3>1 DEF TypeOK, Forms, Locations, Pin
  <2>2. PlaceKept'
    BY <1>11 DEF PlaceKept, TypeOK, Forms, Uploads, Pin
  <2>3. Accounted'
    BY <1>11 DEF Accounted, Dirty, UnderWay, Uploads, Sessions, TypeOK, Forms, Pin
  <2> QED BY <2>1, <2>2, <2>3
<1>12. CASE AskClear
  <2>1. TypeOK'
    <3>1. FlagsOK'
      BY <1>12, Zenon DEF TypeOK, FlagsOK, UnderWay, AskClear
    <3> QED BY <1>12, <3>1 DEF TypeOK, Forms, Locations, AskClear
  <2>2. PlaceKept'
    BY <1>12 DEF PlaceKept, TypeOK, Forms, Uploads, AskClear
  <2>3. Accounted'
    BY <1>12 DEF Accounted, Dirty, UnderWay, Uploads, Sessions, TypeOK, Forms, AskClear
  <2> QED BY <2>1, <2>2, <2>3
<1>13. CASE Move
  <2>1. TypeOK'
    <3>1. FlagsOK'
      BY <1>13, Zenon DEF TypeOK, FlagsOK, UnderWay, Move
    <3> QED BY <1>13, <3>1 DEF TypeOK, Forms, Locations, Move
  <2>2. PlaceKept'
    BY <1>13 DEF PlaceKept, TypeOK, Forms, Uploads, Move
  <2>3. Accounted'
    BY <1>13 DEF Accounted, Dirty, UnderWay, Uploads, Sessions, TypeOK, Forms, Move
  <2> QED BY <2>1, <2>2, <2>3
<1>14. ASSUME NEW phase \in {"sign", "send"}, NEW ok \in BOOLEAN, Uploaded(phase, ok)
      PROVE  IInv'
  <2>1. TypeOK'
    <3>1. FlagsOK'
      BY <1>14, Zenon DEF TypeOK, FlagsOK, UnderWay, Uploaded
    <3>2. form' \in Forms
      BY <1>14 DEF TypeOK, PlaceKept, Uploads, Forms, Uploaded
    <3>3. upload' \in [sign: Nat, send: Nat]
      BY <1>14 DEF TypeOK, Uploaded
    <3> QED BY <1>14, <3>1, <3>2, <3>3 DEF TypeOK, Uploaded
  <2>2. PlaceKept'
    BY <1>14 DEF PlaceKept, TypeOK, Forms, Uploads, Uploaded
  <2>3. Accounted'
    BY <1>14 DEF Accounted, Dirty, UnderWay, Uploads, Sessions, TypeOK, Forms, Uploaded
  <2> QED BY <2>1, <2>2, <2>3
<1>15. ASSUME NEW answer \in {"granted", "denied", "unavailable"}, Located(answer) PROVE IInv'
  <2>1. TypeOK'
    <3>1. FlagsOK'
      BY <1>15, Zenon DEF TypeOK, FlagsOK, UnderWay, Located
    <3>2. form' \in Forms
      <4>1. CASE form' = form
        BY <4>1 DEF TypeOK
      <4>2. CASE form' # form
        <5>1. form' = [form EXCEPT !.pinned = form.pinned \/ answer = "granted"]
          BY <1>15, <4>2 DEF Located
        <5>2. form \in Forms
          BY DEF TypeOK
        <5> QED BY <5>1, <5>2 DEF Forms
      <4> QED BY <4>1, <4>2
    <3>3. location' \in Locations /\ fix' \in {"idle", "permission", "position"}
      BY <1>15 DEF TypeOK, Locations, Located
    <3>4. UNCHANGED <<modal, upload, creates, mic, platform>>
      BY <1>15 DEF Located
    <3> QED BY <3>1, <3>2, <3>3, <3>4 DEF TypeOK
  <2>2. PlaceKept'
    BY <1>15 DEF PlaceKept, TypeOK, Forms, Uploads, Located
  <2>3. Accounted'
    BY <1>15 DEF Accounted, Dirty, UnderWay, Uploads, Sessions, TypeOK, Forms, Located
  <2> QED BY <2>1, <2>2, <2>3
<1>16. ASSUME NEW ok \in BOOLEAN, Created(ok) PROVE IInv'
  <2>1. TypeOK'
    <3>1. FlagsOK'
      BY <1>16, Zenon DEF TypeOK, FlagsOK, UnderWay, Created
    <3> QED BY <1>16, <3>1 DEF TypeOK, Forms, Locations, Created
  <2>2. PlaceKept'
    BY <1>16 DEF PlaceKept, TypeOK, Forms, Uploads, Created
  <2>3. Accounted'
    BY <1>16 DEF Accounted, Dirty, UnderWay, Uploads, Sessions, TypeOK, Forms, Created
  <2> QED BY <2>1, <2>2, <2>3
<1>17. ASSUME NEW answer \in {"granted", "later", "never", "failed"}, Permitted(answer)
      PROVE  IInv'
  <2>1. TypeOK'
    <3>1. FlagsOK'
      BY <1>17, Zenon DEF TypeOK, FlagsOK, UnderWay, Permitted, Speech
    <3>2. mic' \in [asking: Nat, on: Nat, spent: Nat] /\ mic'.asking <= mic.asking
      BY <1>17 DEF TypeOK, Permitted, Speech
    <3> QED BY <1>17, <3>1, <3>2 DEF TypeOK, Permitted, Speech
  <2>2. PlaceKept'
    BY <1>17 DEF PlaceKept, TypeOK, Forms, Uploads, Permitted, Speech
  <2>3. Accounted'
    BY <1>17 DEF Accounted, Dirty, UnderWay, Uploads, Sessions, TypeOK, Forms, Permitted, Speech
  <2> QED BY <2>1, <2>2, <2>3
<1>18. ASSUME NEW something \in BOOLEAN, Heard(something) PROVE IInv'
  <2>1. TypeOK'
    <3>1. FlagsOK'
      BY <1>18, Zenon DEF TypeOK, FlagsOK, UnderWay, Heard, Speech, AllSaid
    <3>2. mic' \in [asking: Nat, on: Nat, spent: Nat] /\ mic'.asking <= mic.asking
      BY <1>18 DEF TypeOK, Heard, Speech, AllSaid
    <3>3. form' \in Forms
      <4>1. form \in Forms
        BY DEF TypeOK
      <4>2. CASE form' = form
        BY <4>1, <4>2
      <4>3. CASE form' # form
        <5>1. form' = [form EXCEPT !.description = form.description \/ something,
                                   !.source = "voice"]
          BY <1>18, <4>3 DEF Heard
        <5> QED BY <4>1, <5>1 DEF Forms
      <4> QED BY <4>2, <4>3
    <3> QED BY <1>18, <3>1, <3>2, <3>3 DEF TypeOK, Heard, Speech, AllSaid
  <2>2. PlaceKept'
    BY <1>18 DEF PlaceKept, TypeOK, Forms, Uploads, Heard, Speech, AllSaid
  <2>3. Accounted'
    BY <1>18 DEF Accounted, Dirty, UnderWay, Uploads, Sessions, TypeOK, Forms, Heard, Speech, AllSaid
  <2> QED BY <2>1, <2>2, <2>3
<1>19. CASE Misheard
  <2>1. TypeOK'
    <3>1. FlagsOK'
      BY <1>19, Zenon DEF TypeOK, FlagsOK, UnderWay, Misheard, Speech, AllSaid
    <3>2. mic' \in [asking: Nat, on: Nat, spent: Nat] /\ mic'.asking <= mic.asking
      BY <1>19 DEF TypeOK, Misheard, Speech, AllSaid
    <3> QED BY <1>19, <3>1, <3>2 DEF TypeOK, Misheard, Speech, AllSaid
  <2>2. PlaceKept'
    BY <1>19 DEF PlaceKept, TypeOK, Forms, Uploads, Misheard, Speech, AllSaid
  <2>3. Accounted'
    BY <1>19 DEF Accounted, Dirty, UnderWay, Uploads, Sessions, TypeOK, Forms, Misheard, Speech, AllSaid
  <2> QED BY <2>1, <2>2, <2>3
<1>20. ASSUME NEW phase \in {"on", "spent"}, Ended(phase) PROVE IInv'
  <2>1. TypeOK'
    <3>1. FlagsOK'
      BY <1>20, Zenon DEF TypeOK, FlagsOK, UnderWay, Ended, Speech
    <3> QED BY <1>20, <3>1 DEF TypeOK, Forms, Locations, Ended, Speech
  <2>2. PlaceKept'
    BY <1>20 DEF PlaceKept, TypeOK, Forms, Uploads, Ended, Speech
  <2>3. Accounted'
    BY <1>20 DEF Accounted, Dirty, UnderWay, Uploads, Sessions, TypeOK, Forms, Ended, Speech
  <2> QED BY <2>1, <2>2, <2>3
<1>21. CASE UNCHANGED vars
  <2>1. TypeOK'
    <3>1. FlagsOK'
      BY <1>21, Zenon DEF TypeOK, FlagsOK, UnderWay, vars, screen
    <3> QED BY <1>21, <3>1 DEF TypeOK, Forms, Locations, vars, screen
  <2>2. PlaceKept'
    BY <1>21 DEF PlaceKept, TypeOK, Forms, Uploads, vars, screen
  <2>3. Accounted'
    BY <1>21 DEF Accounted, Dirty, UnderWay, Uploads, Sessions, TypeOK, Forms, vars, screen
  <2> QED BY <2>1, <2>2, <2>3
<1> QED
  BY <1>1, <1>2, <1>3, <1>4, <1>5, <1>6, <1>7, <1>8, <1>9, <1>10, <1>11, <1>12,
     <1>13, <1>14, <1>15, <1>16, <1>17, <1>18, <1>19, <1>20, <1>21
     DEF Next, Host, PhotoComes, FixComes, PostComes, SpeechComes

THEOREM ComposerIInv == Spec => []IInv
<1> QED BY InitIInv, NextIInv, PTL DEF Spec

\* However late photos come, the form holds MAX_PHOTOS of them at most.
THEOREM ComposerTypeCorrect == Spec => []TypeOK
<1>1. IInv => TypeOK
  BY DEF IInv
<1> QED BY <1>1, ComposerIInv, PTL

\* What was cleared with nothing under way stays clear until the host enters
\* something, however much was under way before.
THEOREM ClearedStaysClean == Spec => []ClearIsClean
<1>1. IInv => ClearIsClean
  BY DEF IInv, Accounted, ClearIsClean
<1> QED BY <1>1, ComposerIInv, PTL
=============================================================================
