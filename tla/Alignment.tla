------------------------------ MODULE Alignment ------------------------------
(***************************************************************************)
(* Turning a recorded bag into control rows: align_rosbag and              *)
(* compute_window of robot_data/align.  The streams of a bag have their    *)
(* own rates and gaps; a window is chosen, a grid of ticks laid into it,   *)
(* and each tick gets the frames, joint samples and commands of its row.   *)
(* Samples are their timestamps here; a row says which samples it is made  *)
(* of, not what is in them.                                                *)
(***************************************************************************)
EXTENDS Indexing

CONSTANTS
  Cameras,            \* colour and, if included, depth streams
  AnchorCamera,
  Arms,               \* the arm command topics
  Effectors,
  Recordings,         \* what scan_bag may have read
  Configs,            \* the policies it may be converted with
  Period,             \* 1e9 / fps
  ImageTolerance, StateTolerance, ActionTolerance, PairTolerance,
  EffectorTolerance,
  MaxDeviation,       \* max_tick_rate_deviation, in percent
  MaxHoldPercent,     \* max_hold_fraction
  MaxHoldRun          \* max_hold_run_s

(* The streams of a bag; one that was absent or empty is <<>>.  scan_bag     *)
(* refuses a stream whose timestamps are not monotonic.                      *)
IsRecording(r) ==
  /\ r.joints \in Seq(Int) /\ Sorted(r.joints)
  /\ \A c \in Cameras : r.image[c] \in Seq(Int) /\ Sorted(r.image[c])
  /\ \A a \in Arms : r.command[a] \in Seq(Int) /\ Sorted(r.command[a])
  /\ \A e \in Effectors :
       /\ r.effector[e] \in Seq(Int) /\ Sorted(r.effector[e])
       /\ r.measured[e] \in Seq(Int) /\ Sorted(r.measured[e])

Config == [mode : {"capture", "lerobot-loop"},
           gap : {"fail", "hold-last-command", "joint-state-fill"},
           missing : {"fail", "fill"},
           invalid : {"fail", "drop"},
           anchor : {"anchor-camera", "anchor-camera-ticks", "first-command"}]

(* What AlignmentConfig accepts.                                             *)
Accepted(c) == c.missing = "fill" => c.gap = "joint-state-fill"

ASSUME AlignmentAssumption ==
  /\ AnchorCamera \in Cameras /\ IsFiniteSet(Arms)
  /\ \A r \in Recordings : IsRecording(r)
  /\ \A c \in Configs : c \in Config /\ Accepted(c)
  /\ Period \in Nat \ {0}
  /\ {ImageTolerance, StateTolerance, ActionTolerance, PairTolerance,
      EffectorTolerance, MaxDeviation, MaxHoldPercent, MaxHoldRun}
       \subseteq Nat

VARIABLES
  rec,    \* raw
  cfg,
  stage,  \* how far align_rosbag is; "rejected": it has raised
  window, \* start_ns and end_ns
  grid,   \* grid_ns
  rows,   \* the selection of every tick
  kept    \* the positions of the rows in the episode

alignVars == <<rec, cfg, stage, window, grid, rows, kept>>

AlignInit ==
  /\ rec \in Recordings /\ cfg \in Configs
  /\ stage = "scan"
  /\ window = [start |-> 0, end |-> 0]
  /\ grid = <<>> /\ rows = <<>> /\ kept = {}

Filling == cfg.gap = "joint-state-fill"

-----------------------------------------------------------------------------
(* scan_bag                                                                  *)

LiveArms == {a \in Arms : rec.command[a] # <<>>}

(* A topic without messages: of some there is no substitute, others can be   *)
(* reconstructed if that is asked for, but not all arm commands.             *)
ScanRejects ==
  \/ rec.joints = <<>> \/ \E c \in Cameras : rec.image[c] = <<>>
  \/ /\ cfg.missing = "fail"
     /\ LiveArms # Arms \/ \E e \in Effectors : rec.effector[e] = <<>>
  \/ LiveArms = {}

Scan ==
  /\ stage = "scan"
  /\ stage' = IF ScanRejects THEN "rejected" ELSE "window"
  /\ UNCHANGED <<rec, cfg, window, grid, rows, kept>>

-----------------------------------------------------------------------------
(* compute_window                                                            *)

IsLatest(t, T) == t \in T /\ \A u \in T : u <= t
IsEarliest(t, T) == t \in T /\ \A u \in T : t <= u

(* The stream an effector's observation comes from.                          *)
Observing(e) ==
  IF rec.measured[e] # <<>> THEN rec.measured[e] ELSE rec.effector[e]

Observed ==
  ({rec.joints} \cup {rec.image[c] : c \in Cameras}
                \cup {Observing(e) : e \in Effectors}) \ {<<>>}
Commands == {rec.command[a] : a \in LiveArms}

Firsts(S) == {s[1] : s \in S}
Lasts(S) == {s[Len(s)] : s \in S}

(* Some arm is driven, or all are.                                           *)
CommandSpan(from, to) ==
  IF Filling
  THEN IsEarliest(from, Firsts(Commands)) /\ IsLatest(to, Lasts(Commands))
  ELSE IsLatest(from, Firsts(Commands)) /\ IsEarliest(to, Lasts(Commands))

(* The newest frame of the anchor camera at the first command.               *)
AnchorOf(from) ==
  LET s == rec.image[AnchorCamera] IN
  IF cfg.anchor # "first-command" /\ HasPrevious(s, from)
  THEN s[PreviousAt(s, from)] ELSE from

(* Mutant: a stream that begins after the anchor does not delay the window.  *)
ChooseWindowAtAnchor ==
  /\ stage = "window"
  /\ \E from \in Firsts(Commands), to \in Lasts(Commands) :
       /\ CommandSpan(from, to)
       /\ \E end \in {to} \cup Lasts(Observed) :
            /\ IsEarliest(end, {to} \cup Lasts(Observed))
            /\ window' = [start |-> AnchorOf(from), end |-> end]
            /\ stage' = IF to <= from \/ end <= AnchorOf(from)
                        THEN "rejected" ELSE "grid"
  /\ UNCHANGED <<rec, cfg, grid, rows, kept>>

ChooseWindow ==
  /\ stage = "window"
  /\ \E from \in Firsts(Commands), to \in Lasts(Commands) :
       /\ CommandSpan(from, to)
       /\ \E start \in {AnchorOf(from)} \cup Firsts(Observed),
             end \in {to} \cup Lasts(Observed) :
            /\ IsLatest(start, {AnchorOf(from)} \cup Firsts(Observed))
            /\ IsEarliest(end, {to} \cup Lasts(Observed))
            /\ window' = [start |-> start, end |-> end]
            /\ stage' = IF to <= from \/ end <= start
                        THEN "rejected" ELSE "grid"
  /\ UNCHANGED <<rec, cfg, grid, rows, kept>>

-----------------------------------------------------------------------------
(* The grid of ticks.                                                        *)

(* The frames of the anchor camera in the window, or a fixed rate.           *)
Ticks ==
  LET s == rec.image[AnchorCamera] IN
  IF cfg.anchor = "anchor-camera-ticks"
  THEN SubSeq(s, SearchLeft(s, window.start) + 1, SearchRight(s, window.end))
  ELSE [k \in 1..((window.end - window.start) \div Period + 1) |->
          window.start + (k - 1) * Period]

(* Twice the median of the spacings of g.                                    *)
TwiceMedian(g) ==
  LET n == Len(g) - 1
      gap == [k \in 1..n |-> g[k + 1] - g[k]]
      Ranked(r) == CHOOSE x \in {gap[k] : k \in 1..n} :
                     /\ Cardinality({k \in 1..n : gap[k] < x}) < r
                     /\ Cardinality({k \in 1..n : gap[k] <= x}) >= r
  IN Ranked((n + 1) \div 2) + Ranked(n \div 2 + 1)

(* measured_fps deviates from fps.                                           *)
WrongRate(g) ==
  LET m == TwiceMedian(g) IN
  /\ cfg.anchor = "anchor-camera-ticks"
  /\ m > 0
  /\ Distance(2 * Period, m) * 100 > MaxDeviation * m

LayGrid ==
  /\ stage = "grid"
  /\ grid' = Ticks
  /\ stage' = IF Len(Ticks) < 2 \/ WrongRate(Ticks) THEN "rejected" ELSE "rows"
  /\ UNCHANGED <<rec, cfg, window, rows, kept>>

-----------------------------------------------------------------------------
(* The row of a tick t.                                                      *)

Newest(s, t) == s[PreviousAt(s, t)]
Fresh(s, t, tolerance) == HasPrevious(s, t) /\ t - Newest(s, t) <= tolerance

Capturing == cfg.mode = "capture"

ImageAt(c, t) ==
  LET s == rec.image[c] IN
  IF Capturing THEN s[NearestAt(s, t)] ELSE Newest(s, t)
ImageValid(c, t) ==
  IF Capturing THEN Distance(ImageAt(c, t), t) <= ImageTolerance
  ELSE Fresh(rec.image[c], t, ImageTolerance)

(* In capture mode the joints are interpolated at the tick itself.           *)
JointsAt(t) == IF Capturing THEN t ELSE Newest(rec.joints, t)
JointsValid(t) ==
  IF Capturing THEN Interpolable(rec.joints, t, StateTolerance)
  ELSE Fresh(rec.joints, t, StateTolerance)

(* _effector_observation                                                     *)
EffectorAt(e, t) == Newest(Observing(e), t)

(* _select_command                                                           *)
Real(a, t) ==
  LET s == rec.command[a] IN
  /\ a \in LiveArms
  /\ HasNext(s, t)
  /\ s[NextAt(s, t)] - t <= ActionTolerance

(* Mutant: without a real command the first one is taken.                    *)
CommandAtFirst(a, t) ==
  LET s == rec.command[a] IN
  IF cfg.gap = "fail" \/ Real(a, t) THEN s[NextAt(s, t)] ELSE s[1]

(* Mutant: across a gap the next command is taken.                           *)
CommandAtNext(a, t) == LET s == rec.command[a] IN s[NextAt(s, t)]

(* Under joint-state-fill a row without a real command gets the measured     *)
(* joints instead of this one's values, but keeps its time.                  *)
CommandAt(a, t) ==
  LET s == rec.command[a] IN
  IF cfg.gap = "fail" \/ Real(a, t) THEN s[NextAt(s, t)]
  ELSE s[PreviousAt(s, t)]

AllReal(t) == \A a \in Arms : Real(a, t)
AnyReal(t) == \E a \in Arms : Real(a, t)

(* command_skew <= pair_tol                                                  *)
PairClose(t) ==
  \A a, b \in LiveArms : CommandAt(a, t) - CommandAt(b, t) <= PairTolerance

Held(t) ==
  IF Filling THEN ~AnyReal(t) ELSE ~(AllReal(t) /\ PairClose(t))

(* reference_time: that of the newest command of the row.                    *)
Reference(t) ==
  CHOOSE r \in {CommandAt(a, t) : a \in LiveArms} :
    \A a \in LiveArms : CommandAt(a, t) <= r

(* A silent effector command is filled with the observation.                 *)
EffectorActionAt(e, t) ==
  IF rec.effector[e] = <<>> THEN EffectorAt(e, t)
  ELSE Newest(rec.effector[e], Reference(t))

Valid(t) ==
  /\ \A c \in Cameras : ImageValid(c, t)
  /\ JointsValid(t)
  /\ cfg.gap = "fail" =>
       /\ \A a \in LiveArms : Real(a, t)
       /\ AllReal(t) => PairClose(t)
  /\ \A e \in Effectors :
       /\ Fresh(Observing(e), t, EffectorTolerance)
       /\ rec.effector[e] # <<>> =>
            Fresh(rec.effector[e], Reference(t), EffectorTolerance)

RowAt(t) ==
  [tick |-> t,
   image |-> [c \in Cameras |-> ImageAt(c, t)],
   joints |-> JointsAt(t),
   effector |-> [e \in Effectors |-> EffectorAt(e, t)],
   command |-> [a \in LiveArms |-> CommandAt(a, t)],
   real |-> {a \in Arms : Real(a, t)},
   action |-> [e \in Effectors |-> EffectorActionAt(e, t)],
   hold |-> Held(t),
   valid |-> Valid(t)]

(* No row has a genuine command.                                             *)
NoIntent ==
  /\ cfg.gap # "fail"
  /\ \A k \in DOMAIN grid :
       IF Filling THEN ~AnyReal(grid[k]) ELSE ~AllReal(grid[k])

SelectRows ==
  /\ stage = "rows"
  /\ IF (\E e \in Effectors : Observing(e) = <<>>) \/ NoIntent
     THEN stage' = "rejected" /\ UNCHANGED rows
     ELSE /\ rows' = [k \in DOMAIN grid |-> RowAt(grid[k])]
          /\ stage' = "assemble"
  /\ UNCHANGED <<rec, cfg, window, grid, kept>>

-----------------------------------------------------------------------------
(* Which rows become the episode.                                            *)

KeepRows ==
  LET valid == {k \in DOMAIN rows : rows[k].valid} IN
  /\ stage = "assemble"
  /\ IF valid = {} \/ (cfg.invalid = "fail" /\ valid # DOMAIN rows)
     THEN stage' = "rejected" /\ UNCHANGED kept
     ELSE kept' = valid /\ stage' = "checks"
  /\ UNCHANGED <<rec, cfg, window, grid, rows>>

(* The longest of runs(hold_mask) is too long, or too many rows are held.    *)
HoldsTooMuch ==
  \/ \E first, last \in kept :
       /\ first <= last
       /\ \A k \in kept : first <= k /\ k <= last => rows[k].hold
       /\ rows[last].tick - rows[first].tick > MaxHoldRun
  \/ Cardinality({k \in kept : rows[k].hold}) * 100
       > MaxHoldPercent * Cardinality(kept)

Finish ==
  /\ stage = "checks"
  /\ stage' = IF HoldsTooMuch THEN "rejected" ELSE "done"
  /\ UNCHANGED <<rec, cfg, window, grid, rows, kept>>

(* Every action equals its observation, or a selected image does not decode. *)
RefuseContents ==
  /\ stage = "checks"
  /\ stage' = "rejected"
  /\ UNCHANGED <<rec, cfg, window, grid, rows, kept>>

AlignNext ==
  \/ Scan \/ ChooseWindow \/ LayGrid \/ SelectRows \/ KeepRows \/ Finish
  \/ RefuseContents

AlignSpec == AlignInit /\ [][AlignNext]_alignVars

-----------------------------------------------------------------------------
(* No tick lies outside a stream its row is observed from, and, unless       *)
(* silent arms are filled, none comes after the last command of an arm: the  *)
(* window is the overlap of all streams, for every kind of grid (window.py   *)
(* 50-54, 84-90).                                                            *)
TicksInsideStreams ==
  stage \in {"rows", "assemble", "checks", "done"} =>
    \A k \in DOMAIN grid :
      /\ \A s \in Observed : s[1] <= grid[k] /\ grid[k] <= s[Len(s)]
      /\ ~Filling => \A a \in Arms : HasNext(rec.command[a], grid[k])

(* What row r is observed from had arrived when its tick came.               *)
KnownAtTick(r) ==
  /\ \A c \in Cameras : r.image[c] <= r.tick
  /\ r.joints <= r.tick
  /\ \A e \in Effectors : r.effector[e] <= r.tick

(* In lerobot-loop mode no row of an episode shows what was not yet known at *)
(* its tick ("record time as the availability time", config.py:8-11),        *)
(* whatever streams begin late, end early or have gaps.                      *)
ObservationsPrecedeTick ==
  stage = "done" /\ ~Capturing => \A k \in kept : KnownAtTick(rows[k])

(* Nothing in row r is older than it is in row q.                            *)
NowhereEarlier(q, r) ==
  /\ q.tick <= r.tick
  /\ \A c \in Cameras : q.image[c] <= r.image[c]
  /\ q.joints <= r.joints
  /\ \A a \in LiveArms : q.command[a] <= r.command[a]
  /\ \A e \in Effectors : /\ q.effector[e] <= r.effector[e]
                          /\ q.action[e] <= r.action[e]

(* From one row of an episode to a later one nothing goes back in time: not  *)
(* the commands, where real ones, which lie after their tick, alternate with *)
(* held ones, which lie before it, and not the effector actions, which       *)
(* follow the commands' times instead of the ticks (aligner.py 49-58, 264).  *)
TimeNeverRunsBack ==
  stage = "done" =>
    \A j, k \in kept : j <= k => NowhereEarlier(rows[j], rows[k])

(* The commands of row r that are not real are the last ones of their arms.  *)
HoldsLast(r) ==
  \A a \in LiveArms \ r.real :
    LET s == rec.command[a] IN
    \A i \in DOMAIN s :
      s[i] <= r.tick => s[i] <= r.command[a] /\ r.command[a] <= r.tick

(* A command that is held is the last one issued: none of its arm came       *)
(* between it and the tick, and only before the first one is a later one     *)
(* taken ("zero-order hold", aligner.py:3-6, 55-57).                         *)
HoldIsZeroOrder ==
  stage = "done" /\ cfg.gap = "hold-last-command" =>
    \A k \in kept : HoldsLast(rows[k])

=============================================================================
