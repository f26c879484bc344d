-------------------------------- MODULE Hmer ---------------------------------
(***************************************************************************)
(* Handwritten formulas (features/hmer): the owner's service and the       *)
(* guests' one, which share one model and one GPU queue, and the guests'   *)
(* image folder, which is pruned after each of their recognitions on a     *)
(* worker thread of its own. Images are numbered in the order they were    *)
(* saved. Handlers are not cancelled when a client leaves: uvicorn lets    *)
(* them end.                                                               *)
(***************************************************************************)
EXTENDS Integers, Sequences, FiniteSets

CONSTANTS
  Readings,    \* concurrent calls of recognize and explain
  KeepImages,  \* GUEST_MAX_IMAGES
  MaxImages    \* bound on the images guests save

ASSUME KeepAssumption == KeepImages \in Nat \ {0}

Spaces == {"owner", "guest"}
Idle == [at |-> "idle", space |-> "owner", do |-> "none"]

VARIABLES
  reading,   \* what each call is doing
  waiting,   \* _lock of each service: its holder, then those that wait
  model,     \* _model is loaded
  health,    \* the HMER entry of core/capabilities.py: its status
  saved,     \* how many images guests have saved
  images,    \* those still in the folder
  listing    \* what a pruning thread has found in the folder

hmer == <<reading, waiting, model, health, saved, images, listing>>

HmerInit ==
  /\ reading = [u \in Readings |-> Idle]
  /\ waiting = [s \in Spaces |-> <<>>]
  /\ model = FALSE
  /\ health \in {"unknown", "disabled"}     \* _seed_capabilities
  /\ saved = 0
  /\ images = {}
  /\ listing = [u \in Readings |-> {}]

-----------------------------------------------------------------------------
(* Mutant: the guests' service has a queue of its own. *)
OwnLock(space) == space
(* for_directory: other._lock = self._lock. *)
LockOf(space) == "owner"

Moved(u, to) == reading' = [reading EXCEPT ![u].at = to]

(* HmerRepository.save: a new file, whatever its name was. *)
SaveImage(space) ==
  IF space = "guest"
  THEN /\ saved < MaxImages
       /\ saved' = saved + 1
       /\ images' = images \cup {saved'}
  ELSE UNCHANGED <<saved, images>>

(* recognize: a file that is an image is saved, then waits for the GPU.    *)
Recognize(u, space) ==
  /\ reading[u] = Idle
  /\ reading' = [reading EXCEPT ![u] = [at |-> "queued", space |-> space, do |-> "read"]]
  /\ waiting' = [waiting EXCEPT ![LockOf(space)] = Append(@, u)]
  /\ SaveImage(space)
  /\ UNCHANGED <<model, health, listing>>

(* explain: of an image that is still there. *)
Explain(u, space) ==
  /\ reading[u] = Idle
  /\ space = "guest" => images # {}
  /\ reading' = [reading EXCEPT ![u] = [at |-> "queued", space |-> space, do |-> "explain"]]
  /\ waiting' = [waiting EXCEPT ![LockOf(space)] = Append(@, u)]
  /\ UNCHANGED <<model, health, saved, images, listing>>

(* async with self._lock: the first in the queue goes to its thread. *)
TakeGpu(u) ==
  /\ reading[u].at = "queued"
  /\ Head(waiting[LockOf(reading[u].space)]) = u
  /\ Moved(u, "gpu")
  /\ UNCHANGED <<waiting, model, health, saved, images, listing>>

LeaveGpu(u, to) ==
  /\ waiting' = [waiting EXCEPT ![LockOf(reading[u].space)] = Tail(@)]
  /\ reading' = [reading EXCEPT ![u] = IF to = "idle" THEN Idle ELSE [@ EXCEPT !.at = to]]
  /\ UNCHANGED <<saved, images, listing>>

Failed(status) == IF status = "disabled" THEN status ELSE "degraded"

(* ensure_loaded fails: nothing to load (503, disabled), or it would not.  *)
LoadFails(u) ==
  /\ reading[u].at = "gpu"
  /\ ~model
  /\ health' \in {"disabled", Failed(health)}
  /\ UNCHANGED model
  /\ LeaveGpu(u, "idle")

(* The model is there, loaded now or before; the search fails, or, which   *)
(* is not reported, the image is no picture after all or the tokens to     *)
(* explain are not the model's.                                            *)
ReadFails(u) ==
  /\ reading[u].at = "gpu"
  /\ model' = TRUE
  /\ health' \in {Failed(health), health}
  /\ LeaveGpu(u, "idle")

ReadSucceeds(u) ==
  /\ reading[u].at = "gpu"
  /\ model' = TRUE
  /\ health' = "ok"
  /\ LeaveGpu(u, IF reading[u].do = "read" /\ reading[u].space = "guest"
                 THEN "listing" ELSE "idle")

-----------------------------------------------------------------------------
(* prune_oldest: the folder is listed, *)
ListImages(u) ==
  /\ reading[u].at = "listing"
  /\ listing' = [listing EXCEPT ![u] = images]
  /\ Moved(u, "sorting")
  /\ UNCHANGED <<waiting, model, health, saved, images>>

(* Mutant: sorted the other way, the newest go. *)
NewestBeyond(found) ==
  {i \in found : Cardinality({j \in found : j < i}) >= KeepImages}
(* The images with KeepImages newer ones beside them. *)
Beyond(found) ==
  {i \in found : Cardinality({j \in found : j > i}) >= KeepImages}

(* sorted by age: stat() of one that another thread removed since raises,  *)
(* and the call that had succeeded ends in an error;                       *)
SortImages(u) ==
  /\ reading[u].at = "sorting"
  /\ IF listing[u] \subseteq images
     THEN /\ listing' = [listing EXCEPT ![u] = Beyond(@)]
          /\ Moved(u, "unlinking")
     ELSE /\ listing' = [listing EXCEPT ![u] = {}]
          /\ reading' = [reading EXCEPT ![u] = Idle]
  /\ UNCHANGED <<waiting, model, health, saved, images>>

(* all but the newest are removed. *)
UnlinkImages(u) ==
  /\ reading[u].at = "unlinking"
  /\ images' = images \ listing[u]
  /\ listing' = [listing EXCEPT ![u] = {}]
  /\ reading' = [reading EXCEPT ![u] = Idle]
  /\ UNCHANGED <<waiting, model, health, saved>>

HmerNext ==
  \E u \in Readings :
    \/ \E space \in Spaces : Recognize(u, space) \/ Explain(u, space)
    \/ TakeGpu(u) \/ LoadFails(u) \/ ReadFails(u) \/ ReadSucceeds(u)
    \/ ListImages(u) \/ SortImages(u) \/ UnlinkImages(u)

HmerSpec == HmerInit /\ [][HmerNext]_hmer

-----------------------------------------------------------------------------
(* No two recognitions or explanations are on the GPU at once, the owner's *)
(* and the guests' together: the two services must share one lock, and     *)
(* each must hold it until its thread has ended (service.py).              *)
OneOnGpu ==
  \A u, w \in Readings : reading[u].at = "gpu" /\ reading[w].at = "gpu" => u = w

(* However the pruning threads overlap with each other and with new        *)
(* uploads, the newest KeepImages of the guests' images stay.              *)
NewestImagesStay == \A i \in 1 .. saved : i > saved - KeepImages => i \in images
=============================================================================
