----------------------------- MODULE Perception -----------------------------
(***************************************************************************)
(* perception/: what becomes of the detections of one approach camera, in  *)
(* tracking.py, movement.py, density.py, pipeline.py and worker.py.        *)
(*                                                                         *)
(* The approach is a line of cells, a quarter of a bounding box each;      *)
(* vehicles drive towards the stop line by at most TopSpeed cells per      *)
(* frame and keep Gap cells apart.  The overlap (IoU) of two boxes then    *)
(* falls with their distance, and iou_threshold allows a distance of       *)
(* Reach.  Every frame the detector may miss vehicles, or the frame may    *)
(* fail as a whole.                                                        *)
(* Pedestrians, vehicle classes and confidences are left out.              *)
(***************************************************************************)
EXTENDS Integers, FiniteSets, FiniteSetsExt, Functions

CONSTANTS Vehicles,
          Length,      \* cells of the region of interest, 0 to Length
          TopSpeed,    \* cells a vehicle moves in a frame, at most
          Gap,         \* cells between the centres of two vehicles, at least
          Reach,       \* the distance iou_threshold stands for
          MaxMisses,   \* IouTracker's max_misses
          MinHits,     \* IouTracker's min_hits
          StopSpeed,   \* MovementAnalyzer's stop_speed_threshold, in cells per frame
          ResumeSpeed, \* and resume_speed_threshold
          MaxIds,      \* bound: tracks ever created
          MaxFaults,   \* bound: frames with missed vehicles, and failed frames
          MaxStopped   \* bound: stopped times are counted up to here

ASSUME PerceptionAssumption ==
  /\ IsFiniteSet(Vehicles)
  /\ {Length, TopSpeed, Gap, Reach, MaxMisses, StopSpeed, MaxIds, MaxFaults} \subseteq Nat
  /\ {MinHits, MaxStopped} \subseteq Nat \ {0}
  /\ ResumeSpeed \in Nat /\ ResumeSpeed >= StopSpeed

VARIABLES
  road,      \* the world: per vehicle its cell, Ahead of the region or Past it
  tracks,    \* the tracker's records by id: cell, speed, hits, misses; with
             \* the vehicle last matched and for how many frames in a row
  nextId,    \* _next_id
  movement,  \* the analyzer, per id: moving, stopped_s in frames
  last,      \* the worker's _last_state, which is also the last one published
  faults,    \* the frames that did not show every vehicle, or failed
  dropped,   \* history: the last frame failed
  seen,      \* history: per vehicle, the successive frames the tracker saw it in
  bridged    \* history: the tracks the analyzer knew before a frame failed and knows still

tracker        == <<tracks, nextId, movement>>
perceptionVars == <<road, tracker, last, faults, dropped, seen, bridged>>

Ahead     == -1
Past      == Length + 1
NoState   == [vehicles |-> 0, stopped |-> 0, wait |-> 0, queue |-> -1]  \* None
NoTracks  == [id \in {} |-> 0]
Distance(a, b) == IF a > b THEN a - b ELSE b - a
Capped(n, bound) == IF n < bound THEN n ELSE bound

PerceptionInit ==
  /\ road = [v \in Vehicles |-> Ahead]
  /\ tracks = NoTracks /\ nextId = 1 /\ movement = NoTracks
  /\ last = NoState
  /\ faults = 0
  /\ dropped = FALSE
  /\ seen = [v \in Vehicles |-> 0] /\ bridged = {}

-----------------------------------------------------------------------------
\* IouTracker._associate: the pairs of a track and a detection that overlap
\* enough, best first (ties by the higher id, then by the later detection), and
\* the ones of them that are taken greedily.
Pairs(at) == {p \in (DOMAIN tracks) \X (DOMAIN at) : Distance(tracks[p[1]].cell, at[p[2]]) <= Reach}

Better(p, q, at, rank) ==
  LET dp == Distance(tracks[p[1]].cell, at[p[2]])
      dq == Distance(tracks[q[1]].cell, at[q[2]])
  IN
  \/ dp < dq
  \/ dp = dq /\ p[1] > q[1]
  \/ dp = dq /\ p[1] = q[1] /\ rank[p[2]] > rank[q[2]]

\* Mutant: a detection may serve two tracks.
CompetesForTrack(p, q) == p[1] = q[1]

Competes(p, q) == p[1] = q[1] \/ p[2] = q[2]

Matches(at, rank) ==
  CHOOSE taken \in SUBSET Pairs(at) :
    \A p \in Pairs(at) :
      p \in taken <=> ~\E q \in taken : Competes(p, q) /\ Better(q, p, at, rank)

\* _update_track
Updated(record, v, at) ==
  [cell |-> at[v], speed |-> Distance(record.cell, at[v]), hits |-> Capped(record.hits + 1, MinHits),
   misses |-> 0, vehicle |-> v,
   row |-> IF record.vehicle = v /\ record.misses = 0 THEN Capped(record.row + 1, MaxStopped) ELSE 1]

Created(v, at) ==
  [cell |-> at[v], speed |-> 0, hits |-> 1, misses |-> 0, vehicle |-> v, row |-> 1]

\* _evict, after one more miss
Survives(record) == record.misses < MaxMisses

\* update(): matched, unmatched and new tracks.
Followed(at, rank) ==
  LET taken   == Matches(at, rank)
      of(id)  == {p[2] : p \in {q \in taken : q[1] = id}}
      loose   == DOMAIN at \ {p[2] : p \in taken}
      \* ids are given in the order of the detections
      born(v) == nextId + Cardinality({w \in loose : rank[w] < rank[v]})
      kept    == {id \in DOMAIN tracks : of(id) # {} \/ Survives(tracks[id])}
  IN
  [id \in kept \cup {born(v) : v \in loose} |->
     IF id \notin kept THEN Created(CHOOSE v \in loose : born(v) = id, at)
     ELSE IF of(id) # {} THEN Updated(tracks[id], CHOOSE v \in of(id) : TRUE, at)
     ELSE [tracks[id] EXCEPT !.misses = @ + 1]]

\* The tracks update() returns.
Confirmed(records) == {id \in DOMAIN records : records[id].hits >= MinHits /\ records[id].misses = 0}

\* MovementAnalyzer._classify: hysteresis; a new track is assumed to move.
IsMoving(id, speed) ==
  speed >= IF id \in DOMAIN movement /\ ~movement[id].moving THEN ResumeSpeed ELSE StopSpeed

\* _accrue
StoppedFor(id, moving) ==
  IF moving THEN 0
  ELSE Capped(1 + IF id \in DOMAIN movement THEN movement[id].stopped ELSE 0, MaxStopped)

Classified(id, records) ==
  LET moving == IsMoving(id, records[id].speed) IN
  [moving |-> moving, stopped |-> StoppedFor(id, moving)]

\* Mutant: what is known of a track survives its absence.
AnalyzedForever(records) ==
  [id \in Confirmed(records) \cup (DOMAIN movement \cap DOMAIN records) |->
     IF id \in Confirmed(records) THEN Classified(id, records) ELSE movement[id]]

\* MovementAnalyzer.update: a track missed in one frame loses what it had.
Analyzed(records) == [id \in Confirmed(records) |-> Classified(id, records)]

\* LaneCalibration.queue_length_m: from the stop line to the last that stands.
QueueLength(cells) == IF cells = {} THEN -1 ELSE Max({Length - c : c \in cells})

\* DensityEstimator.estimate over the confirmed tracks.
LaneState(records, moves) ==
  LET ids     == Confirmed(records)
      stopped == {id \in ids : ~moves[id].moving}
  IN
  [vehicles |-> Cardinality(ids),
   stopped  |-> Cardinality(stopped),
   wait     |-> MapThenSumSet(LAMBDA id : moves[id].stopped, stopped),
   queue    |-> QueueLength({records[id].cell : id \in stopped})]

-----------------------------------------------------------------------------
\* LaneCalibration.contains
InRegion(cell) == cell \in 0..Length

\* _filter_roi of everything there is to detect.
Visible == {v \in Vehicles : InRegion(road'[v])}

\* Traffic moves on: a vehicle may enter, drive, stand and leave.
Move ==
  \E way \in [Vehicles -> 0..TopSpeed] :
    /\ road' = [v \in Vehicles |-> road[v] + way[v]]
    /\ \A v \in Vehicles :
         way[v] # 0 => \/ road[v] = Ahead /\ road'[v] = 0
                       \/ road[v] \in 0..Length /\ road'[v] <= Past
    /\ \A v, w \in Visible : v # w => Distance(road'[v], road'[w]) >= Gap

\* The world allows a fault of the detector or of the pipeline.
Fault(happens) ==
  /\ faults' = IF happens THEN faults + 1 ELSE faults
  /\ faults' <= MaxFaults

\* PerceptionPipeline.process up to the assembly of the state.
Process(detected) ==
  LET at == Restrict(road', detected) IN
  \E rank \in [detected -> 1..Cardinality(detected)] :
    /\ \A v, w \in detected : rank[v] = rank[w] => v = w
    /\ tracks' = Followed(at, rank)
    /\ nextId' = nextId + Cardinality(DOMAIN tracks' \ DOMAIN tracks)
    /\ nextId' <= MaxIds + 1
    /\ movement' = Analyzed(tracks')
    /\ seen' = [v \in Vehicles |-> IF v \in detected THEN Capped(seen[v] + 1, MinHits) ELSE 0]
    /\ bridged' = bridged \cap DOMAIN movement'

\* A frame goes through.
Frame(detected) ==
  /\ Move
  /\ detected \subseteq Visible
  /\ Fault(detected # Visible)
  /\ Process(detected)
  /\ last' = LaneState(tracks', movement')
  /\ dropped' = FALSE

\* PerceptionWorker._process_bundle: the detector fails, and the last good
\* state, if any, is published again.
DropFrame ==
  /\ Move
  /\ Fault(TRUE)
  /\ dropped' = TRUE
  /\ seen' = [v \in Vehicles |-> 0]
  /\ bridged' = DOMAIN movement
  /\ UNCHANGED <<tracker, last>>

\* The pipeline fails after this approach was tracked: on another approach, or
\* when the state is put together.
DropTracked(detected) ==
  /\ Move
  /\ detected \subseteq Visible
  /\ Fault(TRUE)
  /\ Process(detected)
  /\ dropped' = TRUE
  /\ UNCHANGED last

PerceptionNext ==
  \/ \E detected \in SUBSET Vehicles : Frame(detected)
  \/ DropFrame
  \/ \E detected \in SUBSET Vehicles : DropTracked(detected)

PerceptionSpec == PerceptionInit /\ [][PerceptionNext]_perceptionVars

-----------------------------------------------------------------------------
(***************************************************************************)
(* The vehicles a fresh state counts are all seen in its frame, each once, *)
(* and none is missing that was seen in min_hits frames in a row: missed   *)
(* detections and failed frames leave stale tracks about, which neither    *)
(* count nor take a vehicle's place.                                       *)
(***************************************************************************)
CountsMatch ==
  /\ ~dropped => last.vehicles <= Cardinality({v \in Vehicles : seen[v] > 0})
  /\ ~dropped => last.vehicles >= Cardinality({v \in Vehicles : seen[v] >= MinHits})

(***************************************************************************)
(* The stopped time of a track adds up only frames in which it followed    *)
(* the very vehicle it follows now: none of it is another vehicle's, whose *)
(* place this one took.  The exception are the tracks that bridge a frame  *)
(* that failed before it was tracked.                                      *)
(***************************************************************************)
WaitIsOwn ==
  \A id \in DOMAIN movement \ bridged : movement[id].stopped <= tracks[id].row
=============================================================================
