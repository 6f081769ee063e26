--------------------------- MODULE AttachedCameras ---------------------------
(***************************************************************************)
(* The cameras of a robot, as the calibration page lets its user choose    *)
(* them: components/recording/CameraConfiguration.tsx with the list of     *)
(* hooks/useAvailableCameras.ts, and the debounced save of                 *)
(* pages/Calibration.tsx.  OpenCV opens a camera by its rank among those   *)
(* plugged in, the browser knows it by a lasting id; a camera of the form  *)
(* carries both.  The order of cameras by OpenCV is that of their numbers. *)
(***************************************************************************)
EXTENDS CalibrationManager

CONSTANTS
  MaxDevices, \* bound: cameras of the user
  Bounds      \* instances: the bounds named below

ASSUME CamerasAssumption ==
  /\ MaxDevices \in Nat
  /\ \A b \in Bounds :
       /\ b.arms \in BOOLEAN         \* whether the ports are edited
       /\ b.runs \in 0..MaxRuns      \* calibrations
       /\ b.visits \in Nat \ {0}     \* visits of the page
       /\ b.scans \in Nat            \* lists asked for by the user
       /\ b.edits \in Nat            \* changes of the form by the user
       /\ b.moves \in Nat            \* cameras plugged in or out

Devices == 1..MaxDevices
NoDevice == 0 \* what the browser does not recognise
NoIndex == -1

VARIABLES
  max,     \* the bounds of this instance
  plugged, \* the cameras plugged in
  moves,   \* how often that changed
  cam      \* the card: on (camerasActive), list (cameras), avail and loading
           \* (useAvailableCameras), pick (selectedCameraIndex), due (the
           \* list that the timer will save), scans and edits so far

card == <<max, plugged, moves, cam>>

NoCard == [on |-> FALSE, list |-> <<>>, avail |-> {}, loading |-> FALSE,
           pick |-> NoIndex, due |-> {}, scans |-> 0, edits |-> 0]

(* _avfoundation_cameras_in_cv2_order: the rank among those plugged in.      *)
Index(d) == Cardinality({e \in plugged : e < d})

-----------------------------------------------------------------------------
(* Which cameras there are.                                                  *)

(* refresh looks at the browser's devices before it asks the server.         *)
Enumeration(devices) ==
  [Call("cameras", 0, "teleop", NoPort) EXCEPT !.devices = devices]

(* The switch mounts the form, which enumerates.                             *)
TurnOn ==
  /\ ~cam.on /\ cam.scans < max.scans
  /\ cam' = [cam EXCEPT !.on = TRUE, !.loading = TRUE, !.scans = @ + 1]
  /\ calls' = Append(calls, Enumeration(plugged))
  /\ UNCHANGED <<max, plugged, moves>>

(* The form is gone, and whoever still enumerates for it does so for nobody. *)
TurnOff ==
  /\ cam.on
  /\ cam' = [cam EXCEPT !.on = FALSE, !.avail = {}, !.loading = FALSE,
                        !.pick = NoIndex]
  /\ calls' = Without({"cameras"})
  /\ UNCHANGED <<max, plugged, moves>>

Rescan ==
  /\ cam.on /\ ~cam.loading /\ cam.scans < max.scans
  /\ cam' = [cam EXCEPT !.loading = TRUE, !.scans = @ + 1]
  /\ calls' = Append(calls, Enumeration(plugged))
  /\ UNCHANGED <<max, plugged, moves>>

(* The browser notices a cable and the form enumerates anew.                 *)
DeviceChanges(d) ==
  /\ moves < max.moves /\ moves' = moves + 1
  /\ plugged' = IF d \in plugged THEN plugged \ {d} ELSE plugged \cup {d}
  /\ IF cam.on
     THEN /\ cam' = [cam EXCEPT !.loading = TRUE]
          /\ calls' = Append(calls, Enumeration(plugged'))
     ELSE UNCHANGED <<cam, calls>>
  /\ UNCHANGED max

(* GET /available-cameras: the cameras that OpenCV can open.  One that a     *)
(* preview or another program holds is left out, and all are when the        *)
(* enumeration or the request fails.  A camera that the browser did not list *)
(* when it looked has no match there.                                        *)
ListsCameras(i) ==
  /\ Begins(i, "cameras")
  /\ \E opened \in SUBSET plugged :
       calls' = Answered(i, [calls[i] EXCEPT !.found =
         {[index |-> Index(d),
           device |-> IF d \in calls[i].devices THEN d ELSE NoDevice] :
             d \in opened}])
  /\ UNCHANGED card

-----------------------------------------------------------------------------
(* The form.  Every change is shown at once and saved half a second after    *)
(* the last one.                                                             *)

Changed(list) == [cam EXCEPT !.list = list, !.due = {list}]

(* A camera of the form takes the index that its device has in the list, and *)
(* keeps the one it has when it is not there.                                *)
Remapped(c, found) ==
  LET now == {f \in found : f.device # NoDevice /\ f.device = c.device} IN
  IF now = {} THEN c
  ELSE [c EXCEPT !.index = (CHOOSE f \in now : TRUE).index]

Listed(i) ==
  [k \in DOMAIN cam.list |-> Remapped(cam.list[k], calls[i].found)]

(* Mutant: an index that has changed is shown, but not saved.                *)
CamerasListedOnly(i) ==
  /\ calls[i].op = "cameras" /\ Arrived(i)
  /\ cam' = [cam EXCEPT !.avail = calls[i].found, !.loading = FALSE,
                        !.list = Listed(i)]
  /\ calls' = RemoveAt(calls, i)
  /\ UNCHANGED <<max, plugged, moves>>

CamerasListed(i) ==
  /\ calls[i].op = "cameras" /\ Arrived(i)
  /\ LET next == IF Listed(i) = cam.list THEN cam ELSE Changed(Listed(i)) IN
       cam' = [next EXCEPT !.avail = calls[i].found, !.loading = FALSE]
  /\ calls' = RemoveAt(calls, i)
  /\ UNCHANGED <<max, plugged, moves>>

Added(c) ==
  \E x \in ToSet(cam.list) :
    x.index = c.index \/ (c.device # NoDevice /\ x.device = c.device)

PickCamera(c) ==
  /\ cam.on /\ ~cam.loading /\ c \in cam.avail /\ ~Added(c)
  /\ cam' = [cam EXCEPT !.pick = c.index]
  /\ UNCHANGED <<calls, max, plugged, moves>>

Edits(list) ==
  /\ cam.on /\ cam.edits < max.edits
  /\ cam' = [Changed(list) EXCEPT !.edits = @ + 1]
  /\ UNCHANGED <<calls, max, plugged, moves>>

(* What was picked is looked up in the list of the moment and refused if it  *)
(* has gone or is in the form already.                                       *)
AddCamera ==
  \E c \in cam.avail :
    /\ c.index = cam.pick /\ ~Added(c)
    /\ cam.on /\ cam.edits < max.edits
    /\ cam' = [Changed(Append(cam.list, [device |-> c.device,
                                         index |-> c.index, options |-> 0]))
                 EXCEPT !.pick = NoIndex, !.edits = @ + 1]
    /\ UNCHANGED <<calls, max, plugged, moves>>

RemoveCamera(k) == Edits(RemoveAt(cam.list, k))

(* Resolution, rate, pixel format or backend are set to something else.      *)
UpdateCamera(k) == Edits([cam.list EXCEPT ![k].options = 1 - @])

(* The timer of handleCamerasChange.                                         *)
SavesCameras ==
  /\ cam.due # {}
  /\ calls' = Append(calls, [Call("cams", 0, "teleop", NoPort) EXCEPT
                               !.cams = CHOOSE list \in cam.due : TRUE])
  /\ cam' = [cam EXCEPT !.due = {}]
  /\ UNCHANGED <<max, plugged, moves>>

CardUser ==
  \/ TurnOn \/ TurnOff \/ Rescan \/ AddCamera
  \/ \E c \in cam.avail : PickCamera(c)
  \/ \E k \in DOMAIN cam.list : RemoveCamera(k) \/ UpdateCamera(k)

=============================================================================
