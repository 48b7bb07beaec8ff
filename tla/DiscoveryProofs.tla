--------------------------- MODULE DiscoveryProofs ---------------------------
(***************************************************************************)
(* For any number of nodes, any interval and any time a frame may be on    *)
(* its way: a node that has received the date another announces does not   *)
(* leave the discovery before it.                                          *)
(***************************************************************************)
EXTENDS DiscoveryNet, TLAPS

(* What the timer of a node may call *)
Callbacks ==
  {"none", "enter_election_revelation", "enter_election_declaration", "enter_connection_revelation"}

(* The timers: state, callback, the dates in the two clocks and how old they are *)
Timers ==
  [state : {"JUST_EXPIRED", "SCHEDULED", "INACTIVE", "SINGLEPASS"}, func : Callbacks,
   lg : Int, hw : Int, age : Int]

(* A node's variables *)
NodeStates ==
  [my_state : {"DISCOVERY", "ELECTION_REVELATION", "LATER"}, synced_counter : Int,
   instr : {"DISCOVERY", "DISC_TO_EREV", "ELECTION_REVELATION"}, date : Int, rt : Timers,
   known : SUBSET Nodes, away : SUBSET Nodes]

(* What a scheduled timer of a node in the discovery may show: its date is to come, or had
   passed when it was received and is taken for one out of reach. *)
ToCome(t) ==
  \/ t.lg = t.hw /\ t.lg \in 0..DISC_TO_EREV_INTERVAL
  \/ t.hw = LongAgo /\ t.lg \in -LongAgo..-1

(* A node in the discovery has a timer that was never set, or is; the date it announces is
   the timer's. *)
InOrder(x) ==
  /\ x \in NodeStates
  /\ x.instr = "DISC_TO_EREV" => x.my_state = "DISCOVERY"
  /\ x.my_state = "DISCOVERY" =>
       /\ x.instr \in {"DISCOVERY", "DISC_TO_EREV"} /\ x.rt.state \in {"JUST_EXPIRED", "SCHEDULED"}
       /\ x.rt.state = "SCHEDULED" => ToCome(x.rt)
       /\ x.instr = "DISC_TO_EREV" => x.rt.state = "SCHEDULED" /\ x.date = x.rt.lg

(* A frame: its date is that of a node in the discovery, some time ago. *)
FrameOK(f) ==
  /\ f \in [from : Nodes, instr : {"DISCOVERY", "DISC_TO_EREV", "ELECTION_REVELATION"}, date : Int, age : Int]
  /\ f.instr = "DISC_TO_EREV" => f.date \in -LongAgo..DISC_TO_EREV_INTERVAL

(* The node y, if it is in the discovery, has a timer that is set for d or later. *)
SetFor(y, d) == y.my_state = "DISCOVERY" => y.rt.state = "SCHEDULED" /\ y.rt.lg >= d

(* Whoever was told of a date that is still announced and still to come is set for it or
   for a later one.  (A date of this very slot may have been refused.) *)
ToldAndSet ==
  \A n, m \in Nodes : <<n, m>> \in told /\ Announcing(m) /\ node[m].date > 0 => SetFor(node[n], node[m].date)

(* The inductive invariant *)
DiscoveryInv ==
  /\ node \in [Nodes -> NodeStates] /\ \A n \in Nodes : InOrder(node[n])
  /\ air = Silence \/ FrameOK(air)
  /\ told \subseteq Nodes \X Nodes
  /\ ToldAndSet

-----------------------------------------------------------------------------
(* The operations of RTIMER_0 *)

(* The constants are numbers. *)
LEMMA Numbers ==
  /\ LongAgo \in Nat /\ DISC_TO_EREV_INTERVAL \in Nat /\ DISC_TO_EREV_INTERVAL > 0
  /\ DISC_TO_EREV_INTERVAL < LongAgo /\ MAX_RX_SYNC_DISCOVERY \in Nat
  BY LongAgoAssumption, IntervalAssumption

(* The fields of a timer *)
LEMMA TimerFields ==
  ASSUME NEW t \in Timers
  PROVE  /\ t.state \in {"JUST_EXPIRED", "SCHEDULED", "INACTIVE", "SINGLEPASS"} /\ t.func \in Callbacks
         /\ t.lg \in Int /\ t.hw \in Int /\ t.age \in Int
  BY DEF Timers

(* The part of rtimer_schedule after the hardware date is known *)
LEMMA ArmTimer ==
  ASSUME NEW t \in Timers, NEW lg \in Int, NEW hw \in Int, NEW f \in Callbacks
  PROVE  /\ Arm(t, lg, hw, f).t \in Timers /\ Arm(t, lg, hw, f).ok \in BOOLEAN
         /\ Arm(t, lg, hw, f) \in [ok : BOOLEAN, t : Timers]
         /\ ~Arm(t, lg, hw, f).ok =>
              /\ Arm(t, lg, hw, f).t.state = t.state /\ Arm(t, lg, hw, f).t.lg = t.lg
              /\ Arm(t, lg, hw, f).t.hw = t.hw
         /\ t.state # "SINGLEPASS" =>
              /\ Arm(t, lg, hw, f).ok <=> hw > 0
              /\ hw > 0 => /\ Arm(t, lg, hw, f).t.state = "SCHEDULED"
                           /\ Arm(t, lg, hw, f).t.lg = OutOfReach(lg)
                           /\ Arm(t, lg, hw, f).t.hw = OutOfReach(hw)
<1> DEFINE r == Arm(t, lg, hw, f)
<1>1. OutOfReach(lg) \in Int /\ OutOfReach(hw) \in Int
  BY Numbers DEF OutOfReach
<1>2. CASE t.state = "SINGLEPASS"
  <2> DEFINE s == [t EXCEPT !.state = "SCHEDULED"]
  <2>1. r = [ok |-> TRUE, t |-> s]
    BY <1>2 DEF Arm
  <2>2. s \in Timers
    BY DEF Timers
  <2> HIDE DEF s
  <2>3. r.ok = TRUE /\ r.t = s /\ r \in [ok : BOOLEAN, t : Timers]
    BY <2>1, <2>2
  <2> QED BY <1>2, <2>2, <2>3
<1>3. CASE t.state # "SINGLEPASS" /\ hw > 0
  <2> DEFINE a == OutOfReach(lg)
             b == OutOfReach(hw)
             s == [t EXCEPT !.state = "SCHEDULED", !.func = f, !.lg = a, !.hw = b]
  <2>1. r = [ok |-> TRUE, t |-> s]
    BY <1>3 DEF Arm
  <2> HIDE DEF a, b
  <2>2. s \in Timers /\ s.state = "SCHEDULED" /\ s.lg = a /\ s.hw = b
    BY <1>1 DEF Timers, a, b
  <2> HIDE DEF s
  <2>3. r.ok = TRUE /\ r.t = s /\ r \in [ok : BOOLEAN, t : Timers]
    BY <2>1, <2>2
  <2> QED BY <1>3, <2>2, <2>3 DEF a, b
<1>4. CASE t.state # "SINGLEPASS" /\ ~(hw > 0)
  <2> DEFINE s == [t EXCEPT !.func = f]
  <2>1. r = [ok |-> FALSE, t |-> s]
    BY <1>4 DEF Arm
  <2>2. s \in Timers /\ s.state = t.state /\ s.lg = t.lg /\ s.hw = t.hw
    BY DEF Timers
  <2> HIDE DEF s
  <2>3. r.ok = FALSE /\ r.t = s /\ r \in [ok : BOOLEAN, t : Timers]
    BY <2>1, <2>2
  <2> QED BY <1>4, <2>2, <2>3
<1> QED BY <1>2, <1>3, <1>4

(* A change of the reference is none of the dates. *)
LEMMA AgeTimer ==
  ASSUME NEW t \in Timers, NEW a \in Int
  PROVE  /\ [t EXCEPT !.age = a] \in Timers /\ [t EXCEPT !.age = a].state = t.state
         /\ [t EXCEPT !.age = a].lg = t.lg /\ [t EXCEPT !.age = a].hw = t.hw
  BY DEF Timers

(* So is one of the state. *)
LEMMA StateTimer ==
  ASSUME NEW t \in Timers, NEW s \in {"JUST_EXPIRED", "SCHEDULED", "INACTIVE", "SINGLEPASS"}
  PROVE  /\ [t EXCEPT !.state = s] \in Timers /\ [t EXCEPT !.state = s].state = s
         /\ [t EXCEPT !.state = s].lg = t.lg /\ [t EXCEPT !.state = s].hw = t.hw
  BY DEF Timers

(* rtimer_schedule with RTIMER_DATE: a date that is to come or has passed is taken, one of
   this slot is refused. *)
LEMMA DateTimer ==
  ASSUME NEW t \in Timers, NEW d \in Int, NEW f \in Callbacks
  PROVE  /\ ScheduleDate(t, d, f).t \in Timers /\ ScheduleDate(t, d, f).ok \in BOOLEAN
         /\ ScheduleDate(t, d, f) \in [ok : BOOLEAN, t : Timers]
         /\ ~ScheduleDate(t, d, f).ok =>
              /\ ScheduleDate(t, d, f).t.state = t.state /\ ScheduleDate(t, d, f).t.lg = t.lg
              /\ ScheduleDate(t, d, f).t.hw = t.hw
         /\ t.state # "SINGLEPASS" /\ d \in -LongAgo..DISC_TO_EREV_INTERVAL =>
              /\ ScheduleDate(t, d, f).ok <=> d # 0
              /\ d # 0 => /\ ScheduleDate(t, d, f).t.state = "SCHEDULED"
                          /\ ScheduleDate(t, d, f).t.lg = d /\ ToCome(ScheduleDate(t, d, f).t)
<1> DEFINE u == IF t.state = "SINGLEPASS" THEN t ELSE [t EXCEPT !.age = 0]
           hw == lgdate_to_hwdate(d)
           r == Arm(u, d, hw, f)
<1>1. u \in Timers /\ u.state = t.state /\ u.lg = t.lg /\ u.hw = t.hw
  BY AgeTimer
<1>2. hw \in Int /\ hw = IF d < 0 THEN LongAgo ELSE d
  BY Numbers DEF lgdate_to_hwdate
<1>3. ScheduleDate(t, d, f) = r
  BY DEF ScheduleDate
<1> HIDE DEF u, hw
<1>4. /\ r.t \in Timers /\ r.ok \in BOOLEAN /\ r \in [ok : BOOLEAN, t : Timers]
      /\ ~r.ok => r.t.state = u.state /\ r.t.lg = u.lg /\ r.t.hw = u.hw
      /\ u.state # "SINGLEPASS" =>
           /\ r.ok <=> hw > 0
           /\ hw > 0 => r.t.state = "SCHEDULED" /\ r.t.lg = OutOfReach(d) /\ r.t.hw = OutOfReach(hw)
  BY <1>1, <1>2, ArmTimer
<1> HIDE DEF r
<1>5. ASSUME t.state # "SINGLEPASS", d \in -LongAgo..DISC_TO_EREV_INTERVAL
      PROVE  (r.ok <=> d # 0) /\ (d # 0 => r.t.state = "SCHEDULED" /\ r.t.lg = d /\ ToCome(r.t))
  <2>1. (hw > 0 <=> d # 0) /\ OutOfReach(d) = d /\ OutOfReach(hw) = hw
    BY <1>2, <1>5, Numbers DEF OutOfReach
  <2>2. d # 0 => r.t.state = "SCHEDULED" /\ r.t.lg = d /\ r.t.hw = hw
    BY <1>1, <1>4, <1>5, <2>1
  <2>3. (r.ok <=> d # 0)
    BY <1>1, <1>4, <1>5, <2>1
  <2> QED BY <1>2, <1>5, <2>2, <2>3, Numbers DEF ToCome
<1> QED BY <1>1, <1>3, <1>4, <1>5

-----------------------------------------------------------------------------
(* What a node does with a frame *)

(* The fields of a node *)
LEMMA NodeFields ==
  ASSUME NEW x \in NodeStates
  PROVE  /\ x.my_state \in {"DISCOVERY", "ELECTION_REVELATION", "LATER"} /\ x.synced_counter \in Int
         /\ x.instr \in {"DISCOVERY", "DISC_TO_EREV", "ELECTION_REVELATION"} /\ x.date \in Int
         /\ x.rt \in Timers /\ x.known \in SUBSET Nodes /\ x.away \in SUBSET Nodes
  BY DEF NodeStates

(* What a node announces *)
Instruct(x, i, d) == [x EXCEPT !.instr = i, !.date = d]

(* It is set without its phase and its timer. *)
LEMMA Instructed ==
  ASSUME NEW x \in NodeStates, NEW i \in {"DISCOVERY", "DISC_TO_EREV", "ELECTION_REVELATION"},
         NEW d \in Int
  PROVE  /\ Instruct(x, i, d) \in NodeStates /\ Instruct(x, i, d).my_state = x.my_state
         /\ Instruct(x, i, d).rt = x.rt /\ Instruct(x, i, d).instr = i /\ Instruct(x, i, d).date = d
  BY DEF NodeStates, Instruct

(* Node y has the phase and the timer of x. *)
SameTimer(y, x) == y.my_state = x.my_state /\ y.rt = x.rt

(* add_to_neighbour changes the list of neighbours only. *)
LEMMA AddKeeps ==
  ASSUME NEW x, InOrder(x), NEW m \in Nodes, NEW later \in BOOLEAN
  PROVE  InOrder(add_to_neighbour(x, m, later)) /\ SameTimer(add_to_neighbour(x, m, later), x)
<1> DEFINE k == x.known \cup {m}
           a == IF m \in x.known /\ ~later THEN x.away \ {m} ELSE x.away \cup {m}
           y == [x EXCEPT !.known = k, !.away = a]
<1>1. x \in NodeStates
  BY DEF InOrder
<1>2. k \in SUBSET Nodes /\ a \in SUBSET Nodes
  BY <1>1, NodeFields
<1>3. add_to_neighbour(x, m, later) = y
  BY <1>1 DEF add_to_neighbour, NodeStates
<1> HIDE DEF k, a
<1>4. /\ y \in NodeStates /\ y.my_state = x.my_state /\ y.rt = x.rt /\ y.instr = x.instr
      /\ y.date = x.date
  BY <1>1, <1>2 DEF NodeStates
<1> HIDE DEF y
<1> QED BY <1>3, <1>4 DEF InOrder, SameTimer

(* csync_all_synced may withdraw an announcement; the timer stays. *)
LEMMA CheckedKeeps ==
  ASSUME NEW x, InOrder(x)
  PROVE  InOrder(Checked(x)) /\ SameTimer(Checked(x), x)
<1>1. x \in NodeStates
  BY DEF InOrder
<1>2. CASE x.away = {}
  <2> DEFINE c == Counted(x.synced_counter)
             y == [x EXCEPT !.synced_counter = c]
  <2>1. c \in Int
    BY <1>1, NodeFields DEF Counted
  <2>2. Checked(x) = y
    BY <1>1, <1>2 DEF Checked, NodeStates
  <2> HIDE DEF c
  <2>3. /\ y \in NodeStates /\ y.my_state = x.my_state /\ y.rt = x.rt /\ y.instr = x.instr
        /\ y.date = x.date
    BY <1>1, <2>1 DEF NodeStates
  <2> HIDE DEF y
  <2> QED BY <2>2, <2>3 DEF InOrder, SameTimer
<1>3. CASE x.away # {}
  <2> DEFINE z == [x EXCEPT !.synced_counter = 0]
             y == Instruct(z, "DISCOVERY", 0)
  <2>1. Checked(x) = y
    BY <1>3 DEF Checked, Instruct
  <2>3. z \in NodeStates /\ z.my_state = x.my_state /\ z.rt = x.rt
    BY <1>1 DEF NodeStates
  <2> HIDE DEF z
  <2>2. y \in NodeStates /\ y.my_state = x.my_state /\ y.rt = x.rt /\ y.instr = "DISCOVERY"
    BY <2>3, Instructed
  <2> HIDE DEF y
  <2> QED BY <2>1, <2>2 DEF InOrder, SameTimer
<1> QED BY <1>2, <1>3

(* A node that announces the date of its timer *)
LEMMA AnnouncesKeeps ==
  ASSUME NEW x, InOrder(x), x.my_state = "DISCOVERY", NEW r, r.t \in Timers, r.t.state = "SCHEDULED",
         ToCome(r.t), NEW d, d = r.t.lg
  PROVE  /\ InOrder(Announces(x, r, d))
         /\ Announces(x, r, d).my_state = "DISCOVERY" /\ Announces(x, r, d).rt = r.t
<1> DEFINE t == r.t
           y == [x EXCEPT !.rt = t, !.instr = "DISC_TO_EREV", !.date = d]
<1>1. x \in NodeStates /\ d \in Int
  BY TimerFields DEF InOrder
<1>2. Announces(x, r, d) = y
  BY DEF Announces
<1>3. t \in Timers /\ t.state = "SCHEDULED" /\ ToCome(t) /\ d = t.lg
  OBVIOUS
<1> HIDE DEF t
<1>4. /\ y \in NodeStates /\ y.my_state = x.my_state /\ y.rt = t /\ y.instr = "DISC_TO_EREV"
      /\ y.date = d
  BY <1>1, <1>3 DEF NodeStates
<1> HIDE DEF y
<1> QED BY <1>2, <1>3, <1>4 DEF InOrder, t

(* A node in the discovery whose timer has been stopped and that announces no date *)
Stopped(x) ==
  x \in NodeStates /\ x.my_state = "DISCOVERY" /\ x.instr = "DISCOVERY" /\ x.rt.state = "INACTIVE"

(* The node takes the date of another; it gives up when it is that of this slot. *)
LEMMA FollowKeeps ==
  ASSUME NEW x, InOrder(x), x.my_state = "DISCOVERY", NEW d \in -LongAgo..DISC_TO_EREV_INTERVAL
  PROVE  /\ d # 0 => /\ InOrder(Follow(x, d)) /\ Follow(x, d).my_state = "DISCOVERY"
                     /\ Follow(x, d).rt.state = "SCHEDULED" /\ Follow(x, d).rt.lg = d
         /\ d = 0 => Stopped(Follow(x, d))
<1> DEFINE r == ScheduleDate(x.rt, d, "enter_election_revelation")
<1>1. x \in NodeStates /\ x.rt \in Timers /\ x.rt.state # "SINGLEPASS" /\ d \in Int
  BY NodeFields, Numbers DEF InOrder
<1>2. /\ r.t \in Timers /\ (r.ok <=> d # 0)
      /\ d # 0 => r.t.state = "SCHEDULED" /\ r.t.lg = d /\ ToCome(r.t)
  BY <1>1, DateTimer DEF Callbacks
<1>3. Follow(x, d) =
        IF r.ok THEN Announces(x, r, d)
        ELSE [x EXCEPT !.rt = [r.t EXCEPT !.state = "INACTIVE"], !.instr = "DISCOVERY",
                       !.date = 0, !.synced_counter = 0]
  BY DEF Follow
<1> HIDE DEF r
<1>4. ASSUME d # 0
      PROVE  /\ InOrder(Follow(x, d)) /\ Follow(x, d).my_state = "DISCOVERY"
             /\ Follow(x, d).rt.state = "SCHEDULED" /\ Follow(x, d).rt.lg = d
  <2>1. InOrder(Announces(x, r, d)) /\ Announces(x, r, d).my_state = "DISCOVERY"
        /\ Announces(x, r, d).rt = r.t
    BY <1>2, <1>4, AnnouncesKeeps
  <2> QED BY <1>2, <1>3, <1>4, <2>1
<1>5. ASSUME d = 0 PROVE Stopped(Follow(x, d))
  <2> DEFINE t == [r.t EXCEPT !.state = "INACTIVE"]
             z == [x EXCEPT !.rt = t]
             w == Instruct(z, "DISCOVERY", 0)
             y == [w EXCEPT !.synced_counter = 0]
  <2>1. t \in Timers /\ t.state = "INACTIVE"
    BY <1>2, StateTimer
  <2>2. Follow(x, d) = y
    BY <1>2, <1>3, <1>5 DEF Instruct
  <2> HIDE DEF t
  <2>4. z \in NodeStates /\ z.my_state = x.my_state /\ z.rt = t
    BY <1>1, <2>1 DEF NodeStates
  <2> HIDE DEF z
  <2>6. w \in NodeStates /\ w.my_state = z.my_state /\ w.rt = z.rt /\ w.instr = "DISCOVERY"
    <3>1. z \in NodeStates /\ 0 \in Int /\ "DISCOVERY" \in {"DISCOVERY", "DISC_TO_EREV", "ELECTION_REVELATION"}
      BY <2>4
    <3> QED BY ONLY <3>1, Instructed
  <2>5. w \in NodeStates /\ w.my_state = x.my_state /\ w.rt = t /\ w.instr = "DISCOVERY"
    BY <2>4, <2>6
  <2> HIDE DEF w
  <2>3. y \in NodeStates /\ y.my_state = x.my_state /\ y.rt = t /\ y.instr = "DISCOVERY"
    BY <2>5 DEF NodeStates
  <2> HIDE DEF y
  <2> QED BY <2>1, <2>2, <2>3 DEF Stopped
<1> QED BY <1>4, <1>5

(* The node that has been switched on *)
LEMMA StartFields ==
  /\ Start \in NodeStates /\ ZeroTimer \in Timers /\ ZeroTimer.state = "JUST_EXPIRED"
  /\ Start.my_state = "DISCOVERY" /\ Start.instr = "DISCOVERY" /\ Start.rt = ZeroTimer
  BY Numbers DEF Start, NodeStates, ZeroTimer, Timers, Callbacks

(* What is forgotten of a node in the discovery is not its phase, its announcement, or
   the date of its timer. *)
Remembers(y, x) ==
  /\ y.my_state = x.my_state /\ y.instr = x.instr /\ y.date = x.date
  /\ y.rt.state = x.rt.state /\ y.rt.lg = x.rt.lg /\ y.rt.hw = x.rt.hw

(* A timer as Kept leaves it *)
WithoutAge(t) == [t EXCEPT !.age = LongAgo]

(* A node with another timer *)
WithTimer(x, t) == [x EXCEPT !.rt = t]

(* It is the same otherwise. *)
LEMMA OtherTimer ==
  ASSUME NEW x \in NodeStates, NEW t \in Timers
  PROVE  /\ WithTimer(x, t) \in NodeStates /\ WithTimer(x, t).my_state = x.my_state
         /\ WithTimer(x, t).rt = t /\ WithTimer(x, t).instr = x.instr /\ WithTimer(x, t).date = x.date
  BY DEF NodeStates, WithTimer

(* Kept, of a node in order *)
LEMMA KeptKeeps ==
  ASSUME NEW x, InOrder(x)
  PROVE  /\ InOrder(Kept(x)) /\ Kept(x).my_state = x.my_state
         /\ x.my_state = "DISCOVERY" => Remembers(Kept(x), x)
<1> DEFINE rt == IF x.rt.state = "INACTIVE" THEN ZeroTimer ELSE WithoutAge(x.rt)
<1>1. x \in NodeStates /\ x.rt \in Timers /\ LongAgo \in Int
  BY NodeFields, Numbers DEF InOrder
<1>2. /\ rt \in Timers
      /\ x.rt.state # "INACTIVE" => rt.state = x.rt.state /\ rt.lg = x.rt.lg /\ rt.hw = x.rt.hw
  BY <1>1, AgeTimer, StartFields DEF WithoutAge
<1>3. Kept(x) = CASE x.my_state = "DISCOVERY" -> WithTimer(x, rt)
                  [] x.my_state = "ELECTION_REVELATION" ->
                       [x EXCEPT !.rt = rt, !.known = {}, !.away = {}, !.synced_counter = 0]
                  [] OTHER -> [Start EXCEPT !.my_state = x.my_state]
  BY DEF Kept, WithoutAge, WithTimer
<1> HIDE DEF rt
<1>4. CASE x.my_state = "DISCOVERY"
  <2>1. Kept(x) = WithTimer(x, rt)
    BY <1>3, <1>4
  <2>2. /\ WithTimer(x, rt) \in NodeStates /\ WithTimer(x, rt).my_state = x.my_state
        /\ WithTimer(x, rt).rt = rt /\ WithTimer(x, rt).instr = x.instr /\ WithTimer(x, rt).date = x.date
    BY <1>1, <1>2, OtherTimer
  <2>3. rt.state = x.rt.state /\ rt.lg = x.rt.lg /\ rt.hw = x.rt.hw
    BY <1>2, <1>4 DEF InOrder
  <2>4. Remembers(WithTimer(x, rt), x)
    BY <2>2, <2>3 DEF Remembers
  <2>5. InOrder(WithTimer(x, rt))
    BY <1>4, <2>2, <2>3 DEF InOrder, ToCome
  <2> QED BY <2>1, <2>2, <2>4, <2>5
<1>5. CASE x.my_state = "ELECTION_REVELATION"
  <2> DEFINE z == WithTimer(x, rt)
             w == [z EXCEPT !.known = {}, !.away = {}]
             y == [w EXCEPT !.synced_counter = 0]
  <2>1. Kept(x) = y
    BY <1>3, <1>5 DEF WithTimer
  <2>2. z \in NodeStates /\ z.my_state = x.my_state /\ z.instr = x.instr
    BY <1>1, <1>2, OtherTimer
  <2> HIDE DEF z
  <2>3. w \in NodeStates /\ w.my_state = x.my_state /\ w.instr = x.instr
    BY <2>2 DEF NodeStates
  <2> HIDE DEF w
  <2>4. y \in NodeStates /\ y.my_state = x.my_state /\ y.instr = x.instr
    BY <2>3 DEF NodeStates
  <2> HIDE DEF y
  <2> QED BY <1>5, <2>1, <2>4 DEF InOrder
<1>6. CASE x.my_state = "LATER"
  <2> DEFINE y == [Start EXCEPT !.my_state = x.my_state]
  <2>1. Kept(x) = y
    BY <1>3, <1>6
  <2>2. y \in NodeStates /\ y.my_state = x.my_state /\ y.instr = Start.instr
    BY <1>1, NodeFields, StartFields DEF NodeStates
  <2> HIDE DEF y
  <2> QED BY <1>6, <2>1, <2>2, StartFields DEF InOrder
<1> QED BY <1>1, <1>4, <1>5, <1>6, NodeFields

(* Kept, of a node whose timer has been stopped *)
LEMMA StoppedKeeps ==
  ASSUME NEW x, Stopped(x)
  PROVE  InOrder(Kept(x)) /\ Kept(x).my_state = "DISCOVERY" /\ Kept(x).instr = "DISCOVERY"
<1>1. Kept(x) = WithTimer(x, ZeroTimer)
  BY DEF Kept, WithTimer, Stopped
<1>2. x \in NodeStates
  BY DEF Stopped
<1>3. /\ WithTimer(x, ZeroTimer) \in NodeStates /\ WithTimer(x, ZeroTimer).my_state = x.my_state
      /\ WithTimer(x, ZeroTimer).rt = ZeroTimer /\ WithTimer(x, ZeroTimer).instr = x.instr
  BY <1>2, StartFields, OtherTimer
<1> QED BY <1>1, <1>3, StartFields DEF InOrder, Stopped

(* What node x has become when it has heard frame f: its date has not come nearer, and it
   is not before the one it was told. *)
Reacts(y, x, f) ==
  /\ InOrder(y)
  /\ x.rt.state = "SCHEDULED" /\ x.rt.lg >= 0 => SetFor(y, x.rt.lg)
  /\ f.instr = "DISC_TO_EREV" /\ f.date > 0 => SetFor(y, f.date)

(* received_discovery_announcement *)
LEMMA DiscoveryHeard ==
  ASSUME NEW x0, InOrder(x0), x0.my_state = "DISCOVERY", NEW m \in Nodes, NEW f, FrameOK(f),
         f.instr # "ELECTION_REVELATION"
  PROVE  Reacts(Kept(received_discovery_announcement(x0, m, f)), x0, f)
<1> DEFINE a == add_to_neighbour(x0, m, FALSE)
           x == Checked(a)
           now == ScheduleNow(x.rt, DISC_TO_EREV_INTERVAL, "enter_election_revelation")
           z == received_discovery_announcement(x0, m, f)
<1>1. InOrder(a) /\ SameTimer(a, x0)
  BY AddKeeps
<1> HIDE DEF a
<1>2. InOrder(x) /\ SameTimer(x, a)
  BY <1>1, CheckedKeeps
<1>3. z = IF Initiates(x, f) THEN IF now.ok THEN Announces(x, now, now.t.lg) ELSE [x EXCEPT !.rt = now.t]
          ELSE IF Follows(x, f) THEN Follow(x, f.date)
          ELSE x
  BY DEF received_discovery_announcement, a
<1> HIDE DEF x, z
<1> SUFFICES Reacts(Kept(z), x0, f)
  BY DEF z
<1>4. x.my_state = "DISCOVERY" /\ x.rt = x0.rt
  BY <1>1, <1>2 DEF SameTimer
<1>5. /\ x.rt \in Timers /\ x.rt.state \in {"JUST_EXPIRED", "SCHEDULED"} /\ x.rt.lg \in Int
      /\ x.rt.state = "SCHEDULED" => ToCome(x.rt)
  BY <1>2, <1>4, NodeFields, TimerFields DEF InOrder
<1>6. f.instr \in {"DISCOVERY", "DISC_TO_EREV"} /\ f.date \in Int
      /\ (f.instr = "DISC_TO_EREV" => f.date \in -LongAgo..DISC_TO_EREV_INTERVAL)
  BY DEF FrameOK
<1>7. CASE Initiates(x, f)
  <2> DEFINE i == DISC_TO_EREV_INTERVAL
  <2>1. i \in Int /\ i > 0 /\ OutOfReach(i) = i
    BY Numbers DEF OutOfReach
  <2>2. /\ now.ok /\ now.t \in Timers /\ now.t.state = "SCHEDULED" /\ now.t.lg = i /\ now.t.hw = i
    <3>1. now = Arm(x.rt, i, i, "enter_election_revelation")
      BY DEF ScheduleNow
    <3>2. "enter_election_revelation" \in Callbacks
      BY DEF Callbacks
    <3> HIDE DEF i, now
    <3> QED BY <1>5, <2>1, <3>1, <3>2, ArmTimer
  <2>3. ToCome(now.t)
    BY <2>2, Numbers DEF ToCome
  <2> DEFINE y == Announces(x, now, now.t.lg)
  <2>4. z = y
    BY <1>3, <1>7, <2>2
  <2> HIDE DEF now
  <2>5. InOrder(y) /\ y.my_state = "DISCOVERY" /\ y.rt = now.t
    BY <1>2, <1>4, <2>2, <2>3, AnnouncesKeeps
  <2> HIDE DEF y
  <2>6. InOrder(Kept(y)) /\ Remembers(Kept(y), y)
    BY <2>5, KeptKeeps
  <2>7. Kept(y).rt.state = "SCHEDULED" /\ Kept(y).rt.lg = i
    BY <2>2, <2>5, <2>6 DEF Remembers
  <2>8. x.rt.state = "SCHEDULED" /\ x.rt.lg >= 0 => i >= x.rt.lg
    BY <1>5, Numbers DEF ToCome
  <2>9. f.instr = "DISCOVERY"
    BY <1>7 DEF Initiates
  <2> QED BY <1>4, <2>4, <2>6, <2>7, <2>8, <2>9 DEF Reacts, SetFor
<1>8. CASE ~Initiates(x, f) /\ Follows(x, f)
  <2> DEFINE y == Follow(x, f.date)
  <2>1. f.instr = "DISC_TO_EREV" /\ LaterThan(x.rt, f.date)
    BY <1>8 DEF Follows
  <2>2. f.date \in -LongAgo..DISC_TO_EREV_INTERVAL
    BY <1>6, <2>1
  <2>3. /\ f.date # 0 => /\ InOrder(y) /\ y.my_state = "DISCOVERY"
                         /\ y.rt.state = "SCHEDULED" /\ y.rt.lg = f.date
        /\ f.date = 0 => Stopped(y)
    BY <1>2, <1>4, <2>2, FollowKeeps
  <2>4. z = y
    BY <1>3, <1>8
  <2> HIDE DEF y
  <2>5. x.rt.state = "SCHEDULED" => x.rt.lg < f.date
    BY <2>1 DEF LaterThan
  <2>6. CASE f.date # 0
    <3>1. InOrder(Kept(y)) /\ Remembers(Kept(y), y)
      BY <2>3, <2>6, KeptKeeps
    <3>2. Kept(y).rt.state = "SCHEDULED" /\ Kept(y).rt.lg = f.date
      BY <2>3, <2>6, <3>1 DEF Remembers
    <3>3. x.rt.state = "SCHEDULED" => f.date >= x.rt.lg
      BY <1>5, <1>6, <2>5
    <3>4. f.date >= f.date
      BY <1>6
    <3> QED BY <1>4, <2>4, <3>1, <3>2, <3>3, <3>4 DEF Reacts, SetFor
  <2>7. CASE f.date = 0
    <3>1. InOrder(Kept(y))
      BY <2>3, <2>7, StoppedKeeps
    <3>2. ~(x.rt.state = "SCHEDULED" /\ x.rt.lg >= 0) /\ ~(f.date > 0)
      BY <1>5, <2>5, <2>7
    <3> QED BY <1>4, <2>4, <3>1, <3>2 DEF Reacts
  <2> QED BY <2>6, <2>7
<1>9. CASE ~Initiates(x, f) /\ ~Follows(x, f)
  <2>1. z = x
    BY <1>3, <1>9
  <2>2. InOrder(Kept(x)) /\ Remembers(Kept(x), x)
    BY <1>2, <1>4, KeptKeeps
  <2>3. Kept(x).rt.state = x.rt.state /\ Kept(x).rt.lg = x.rt.lg
    BY <2>2 DEF Remembers
  <2>4. f.instr = "DISC_TO_EREV" => x.rt.state = "SCHEDULED" /\ ~(x.rt.lg < f.date)
    BY <1>5, <1>9 DEF Follows, LaterThan
  <2>5. f.instr = "DISC_TO_EREV" => x.rt.state = "SCHEDULED" /\ x.rt.lg >= f.date
    BY <1>5, <1>6, <2>4
  <2>6. x.rt.lg >= x.rt.lg
    BY <1>5
  <2> QED BY <1>4, <2>1, <2>2, <2>3, <2>5, <2>6 DEF Reacts, SetFor
<1> QED BY <1>7, <1>8, <1>9

(* The thread enters ELECTION_REVELATION. *)
LEMMA ElectingLeaves ==
  ASSUME NEW x \in NodeStates
  PROVE  InOrder(Electing(x)) /\ Electing(x).my_state = "ELECTION_REVELATION"
<1> DEFINE r == ScheduleRef(x.rt, 1, "enter_election_declaration")
           u == r.t
           l == r.t.lg
           a == [x EXCEPT !.my_state = "ELECTION_REVELATION"]
           b == WithTimer(a, u)
           y == Instruct(b, "ELECTION_REVELATION", l)
<1>1. Electing(x) = y
  BY DEF Electing, WithTimer, Instruct
<1>2. u \in Timers /\ l \in Int
  <2> DEFINE n == 1 - x.rt.age
  <2>1. x.rt \in Timers /\ n \in Int /\ "enter_election_declaration" \in Callbacks
    BY NodeFields, TimerFields DEF Callbacks
  <2>2. r = Arm(x.rt, n, n, "enter_election_declaration")
    BY DEF ScheduleRef
  <2> HIDE DEF n, r
  <2>3. r.t \in Timers
    BY <2>1, <2>2, ArmTimer
  <2> QED BY <2>3, TimerFields
<1>3. a \in NodeStates /\ a.my_state = "ELECTION_REVELATION"
  BY DEF NodeStates
<1> HIDE DEF a, u, l
<1>4. b \in NodeStates /\ b.my_state = a.my_state
  BY <1>2, <1>3, OtherTimer
<1> HIDE DEF b
<1>5. y \in NodeStates /\ y.my_state = b.my_state /\ y.instr = "ELECTION_REVELATION"
  <2>1. "ELECTION_REVELATION" \in {"DISCOVERY", "DISC_TO_EREV", "ELECTION_REVELATION"}
    OBVIOUS
  <2> QED BY ONLY <1>2, <1>4, <2>1, Instructed
<1> HIDE DEF y
<1> QED BY <1>1, <1>3, <1>4, <1>5 DEF InOrder

(* received_revelation_announcement: a node that does not follow keeps its date, though the
   callback of its timer may be another. *)
LEMMA RevelationHeard ==
  ASSUME NEW x0, InOrder(x0), x0.my_state = "DISCOVERY", NEW m \in Nodes, NEW f, FrameOK(f),
         f.instr = "ELECTION_REVELATION", NEW o \in BOOLEAN
  PROVE  Reacts(Kept(received_revelation_announcement(x0, m, f, o)), x0, f)
<1> DEFINE x == add_to_neighbour(x0, m, TRUE)
           s == ScheduleDate(x.rt, f.date, "enter_connection_revelation")
           r == HoldDate(x.rt, f.date, "enter_connection_revelation")
           z == received_revelation_announcement(x0, m, f, o)
<1>1. InOrder(x) /\ SameTimer(x, x0)
  BY AddKeeps
<1>2. z = IF m \notin x0.known \/ ~o THEN x
          ELSE IF r.ok THEN Electing(WithTimer(x, r.t)) ELSE WithTimer(x, r.t)
  BY DEF received_revelation_announcement, WithTimer
<1> HIDE DEF x, z
<1> SUFFICES Reacts(Kept(z), x0, f)
  BY DEF z
<1>3. x \in NodeStates /\ x.rt \in Timers /\ x.my_state = "DISCOVERY" /\ x.rt = x0.rt /\ x.rt.lg \in Int
  BY <1>1, NodeFields, TimerFields DEF InOrder, SameTimer
<1>4. /\ s.t \in Timers /\ s.ok \in BOOLEAN /\ s \in [ok : BOOLEAN, t : Timers]
      /\ ~s.ok => s.t.state = x.rt.state /\ s.t.lg = x.rt.lg /\ s.t.hw = x.rt.hw
  <2>1. f.date \in Int /\ "enter_connection_revelation" \in Callbacks
    BY DEF FrameOK, Callbacks
  <2> QED BY <1>3, <2>1, DateTimer
<1>5. /\ r = IF s.ok THEN [s EXCEPT !.t.state = "SINGLEPASS"] ELSE s
  BY DEF HoldDate
<1> HIDE DEF s, r
<1>6. r.t \in Timers /\ (r.ok <=> s.ok) /\ (~s.ok => r.t = s.t)
  <2>1. CASE s.ok
    <3> DEFINE u == [s.t EXCEPT !.state = "SINGLEPASS"]
    <3>1. u \in Timers
      BY <1>4, StateTimer
    <3>2. r = [s EXCEPT !.t = u]
      BY <1>4, <1>5, <2>1
    <3> HIDE DEF u
    <3> QED BY <1>4, <2>1, <3>1, <3>2
  <2>2. CASE ~s.ok
    BY <1>4, <1>5, <2>2
  <2> QED BY <2>1, <2>2
<1> DEFINE y == WithTimer(x, r.t)
<1>7. /\ y \in NodeStates /\ y.my_state = x.my_state /\ y.rt = r.t /\ y.instr = x.instr
      /\ y.date = x.date
  BY <1>3, <1>6, OtherTimer
<1> HIDE DEF y
<1>8. ASSUME NEW w, InOrder(w), w.my_state = "DISCOVERY", w.rt.state = x.rt.state, w.rt.lg = x.rt.lg, z = w
      PROVE  Reacts(Kept(z), x0, f)
  <2>1. InOrder(Kept(w)) /\ Remembers(Kept(w), w)
    BY <1>8, KeptKeeps
  <2>2. Kept(w).rt.state = x.rt.state /\ Kept(w).rt.lg = x.rt.lg /\ x.rt.lg >= x.rt.lg
    BY <1>3, <1>8, <2>1 DEF Remembers
  <2> QED BY <1>3, <1>8, <2>1, <2>2 DEF Reacts, SetFor
<1>9. CASE m \notin x0.known \/ ~o
  BY <1>1, <1>2, <1>3, <1>8, <1>9
<1>10. CASE ~(m \notin x0.known \/ ~o) /\ r.ok
  <2>1. z = Electing(y)
    BY <1>2, <1>10 DEF y
  <2>2. InOrder(Electing(y)) /\ Electing(y).my_state = "ELECTION_REVELATION"
    BY <1>7, ElectingLeaves
  <2>3. InOrder(Kept(z)) /\ Kept(z).my_state = "ELECTION_REVELATION"
    BY <2>1, <2>2, KeptKeeps
  <2> QED BY <2>3 DEF Reacts, SetFor
<1>11. CASE ~(m \notin x0.known \/ ~o) /\ ~r.ok
  <2>1. z = y
    BY <1>2, <1>11 DEF y
  <2>2. y.rt.state = x.rt.state /\ y.rt.lg = x.rt.lg /\ y.rt.hw = x.rt.hw
    BY <1>4, <1>6, <1>7, <1>11
  <2>3. InOrder(y)
    BY <1>1, <1>7, <2>2 DEF InOrder, ToCome
  <2> QED BY <1>3, <1>7, <1>8, <2>1, <2>2, <2>3
<1> QED BY <1>9, <1>10, <1>11

-----------------------------------------------------------------------------
(* The passing of time *)

(* A date that is out of reach stays so. *)
Nearer(n) == IF n \in {-LongAgo, LongAgo} THEN n ELSE n - 1

(* Time passes for a timer. *)
LEMMA ElapseTimer ==
  ASSUME NEW t \in Timers
  PROVE  /\ Elapse(t) \in Timers /\ Elapse(t).state = t.state
         /\ t.state = "SCHEDULED" => Elapse(t).lg = Nearer(t.lg) /\ Elapse(t).hw = Nearer(t.hw)
<1> DEFINE set == t.state \in {"SCHEDULED", "SINGLEPASS"}
           l == IF set THEN Nearer(t.lg) ELSE t.lg
           h == IF set THEN Nearer(t.hw) ELSE t.hw
           a == -Nearer(-t.age)
           e == [t EXCEPT !.lg = l, !.hw = h, !.age = a]
<1>1. l \in Int /\ h \in Int /\ a \in Int
  BY TimerFields, Numbers DEF Nearer
<1>2. Elapse(t) = e
  BY DEF Elapse, Nearer, Timers
<1>3. t.state = "SCHEDULED" => l = Nearer(t.lg) /\ h = Nearer(t.hw)
  OBVIOUS
<1> HIDE DEF l, h, a
<1>4. e \in Timers /\ e.state = t.state /\ e.lg = l /\ e.hw = h
  BY <1>1 DEF Timers
<1> HIDE DEF e
<1> QED BY <1>2, <1>3, <1>4

(* Time passes for a node. *)
Older(x) == Kept([x EXCEPT !.rt = Elapse(@), !.date = IF x.instr = "DISCOVERY" THEN 0 ELSE Passed(@)])

(* The date a node in the discovery announces and that of its timer come nearer together. *)
LEMMA OlderKeeps ==
  ASSUME NEW x, InOrder(x), ~(x.rt.state = "SCHEDULED" /\ x.rt.hw = 0)
  PROVE  /\ InOrder(Older(x)) /\ Older(x).my_state = x.my_state
         /\ x.my_state = "DISCOVERY" =>
              /\ Older(x).instr = x.instr
              /\ x.instr = "DISC_TO_EREV" => Older(x).date = Passed(x.date)
              /\ x.rt.state = "SCHEDULED" /\ x.rt.lg > 0 =>
                   Older(x).rt.state = "SCHEDULED" /\ Older(x).rt.lg = x.rt.lg - 1
<1> DEFINE t == Elapse(x.rt)
           d == IF x.instr = "DISCOVERY" THEN 0 ELSE Passed(x.date)
           w == [x EXCEPT !.rt = t, !.date = d]
<1>1. x \in NodeStates /\ x.rt \in Timers /\ x.date \in Int /\ x.rt.lg \in Int /\ x.rt.hw \in Int
  BY NodeFields, TimerFields DEF InOrder
<1>2. /\ t \in Timers /\ t.state = x.rt.state
      /\ x.rt.state = "SCHEDULED" => t.lg = Nearer(x.rt.lg) /\ t.hw = Nearer(x.rt.hw)
  BY <1>1, ElapseTimer
<1>3. d \in Int /\ (x.instr = "DISC_TO_EREV" => d = Passed(x.date))
  BY <1>1, Numbers DEF Passed
<1>4. Older(x) = Kept(w)
  <2>1. [x EXCEPT !.rt = Elapse(@), !.date = IF x.instr = "DISCOVERY" THEN 0 ELSE Passed(@)] = w
    BY <1>1 DEF NodeStates
  <2> QED BY <2>1 DEF Older
<1> HIDE DEF t, d
<1>5. /\ w \in NodeStates /\ w.my_state = x.my_state /\ w.instr = x.instr /\ w.rt = t /\ w.date = d
  BY <1>1, <1>2, <1>3 DEF NodeStates
<1> HIDE DEF w
<1>6. ASSUME x.my_state = "DISCOVERY", x.rt.state = "SCHEDULED"
      PROVE  /\ ToCome(t) /\ (x.rt.lg > 0 => t.lg = x.rt.lg - 1)
             /\ t.lg = Passed(x.rt.lg)
  <2>1. ToCome(x.rt) /\ x.rt.hw # 0
    BY <1>6 DEF InOrder
  <2>2. CASE x.rt.lg = x.rt.hw /\ x.rt.lg \in 0..DISC_TO_EREV_INTERVAL
    <3>1. x.rt.lg \in 1..DISC_TO_EREV_INTERVAL
      BY <2>1, <2>2, Numbers
    <3>2. t.lg = x.rt.lg - 1 /\ t.hw = x.rt.lg - 1
      BY <1>2, <1>6, <2>2, <3>1, Numbers DEF Nearer
    <3> QED BY <3>1, <3>2, Numbers DEF ToCome, Passed
  <2>3. CASE x.rt.hw = LongAgo /\ x.rt.lg \in -LongAgo..-1
    <3>1. t.hw = LongAgo /\ t.lg = Passed(x.rt.lg)
      BY <1>2, <1>6, <2>3, Numbers DEF Nearer, Passed
    <3> QED BY <2>3, <3>1, Numbers DEF ToCome, Passed
  <2> QED BY <2>1, <2>2, <2>3 DEF ToCome
<1>7. InOrder(w)
  <2>1. ASSUME w.my_state = "DISCOVERY"
        PROVE  /\ w.instr \in {"DISCOVERY", "DISC_TO_EREV"} /\ w.rt.state \in {"JUST_EXPIRED", "SCHEDULED"}
               /\ w.rt.state = "SCHEDULED" => ToCome(w.rt)
               /\ w.instr = "DISC_TO_EREV" => w.rt.state = "SCHEDULED" /\ w.date = w.rt.lg
    BY <1>2, <1>3, <1>5, <1>6, <2>1 DEF InOrder
  <2>2. w.instr = "DISC_TO_EREV" => w.my_state = "DISCOVERY"
    BY <1>5 DEF InOrder
  <2> QED BY <1>5, <2>1, <2>2 DEF InOrder
<1>8. /\ InOrder(Kept(w)) /\ Kept(w).my_state = w.my_state
      /\ w.my_state = "DISCOVERY" => Remembers(Kept(w), w)
  BY <1>7, KeptKeeps
<1> QED BY <1>2, <1>3, <1>4, <1>5, <1>6, <1>8 DEF Remembers

-----------------------------------------------------------------------------
(* The steps *)

(* The nodes when the model starts *)
LEMMA DiscoveryInvInit == Init => DiscoveryInv
<1> SUFFICES ASSUME Init PROVE DiscoveryInv
  OBVIOUS
<1>1. ASSUME NEW n \in Nodes PROVE InOrder(node[n])
  <2> DEFINE o == OldOnes(n)
             y == [Start EXCEPT !.known = o, !.away = o]
  <2>1. node[n] = y
    BY Zenon DEF Init
  <2>2. o \in SUBSET Nodes
    BY DEF OldOnes
  <2> HIDE DEF o
  <2>3. y \in NodeStates /\ y.my_state = Start.my_state /\ y.instr = Start.instr /\ y.rt = Start.rt
    BY <2>2, StartFields DEF NodeStates
  <2> HIDE DEF y
  <2> QED BY <2>1, <2>3, StartFields DEF InOrder
<1>2. node \in [Nodes -> NodeStates]
  BY <1>1, Zenon DEF Init, InOrder
<1> QED BY <1>1, <1>2, Zenon DEF Init, DiscoveryInv, ToldAndSet

(* Time passes. *)
LEMMA TickStep == ASSUME DiscoveryInv, Tick PROVE DiscoveryInv'
<1>1. \A n \in Nodes : InOrder(node[n]) /\ ~(node[n].rt.state = "SCHEDULED" /\ node[n].rt.hw = 0)
  BY Zenon DEF DiscoveryInv, Tick, Due
<1>2. node' = [n \in Nodes |-> Older(node[n])]
  BY Zenon DEF Tick, Older
<1>3. \A n \in Nodes : node'[n] = Older(node[n])
  BY <1>2
<1>4. \A n \in Nodes : InOrder(node'[n])
  BY <1>1, <1>3, OlderKeeps
<1>5. node' \in [Nodes -> NodeStates]
  <2>1. \A n \in Nodes : Older(node[n]) \in NodeStates
    BY <1>3, <1>4 DEF InOrder
  <2> QED BY <1>2, <2>1
<1>6. air' = Silence \/ FrameOK(air')
  <2> DEFINE d == IF air.instr = "DISCOVERY" THEN 0 ELSE Passed(air.date)
  <2> SUFFICES ASSUME air' # Silence PROVE FrameOK(air')
    OBVIOUS
  <2>1. FrameOK(air) /\ air' = [air EXCEPT !.age = air.age + 1, !.date = d]
    BY Zenon DEF Tick, DiscoveryInv
  <2>2. /\ air \in [from : Nodes, instr : {"DISCOVERY", "DISC_TO_EREV", "ELECTION_REVELATION"},
                    date : Int, age : Int]
        /\ air.date \in Int /\ air.age + 1 \in Int
    BY <2>1 DEF FrameOK
  <2>3. d \in Int /\ (air.instr = "DISC_TO_EREV" => d \in -LongAgo..DISC_TO_EREV_INTERVAL)
    BY <2>1, <2>2, Numbers DEF FrameOK, Passed
  <2> HIDE DEF d
  <2>4. /\ air' \in [from : Nodes, instr : {"DISCOVERY", "DISC_TO_EREV", "ELECTION_REVELATION"},
                     date : Int, age : Int]
        /\ air'.instr = air.instr /\ air'.date = d
    BY <2>1, <2>2, <2>3
  <2> QED BY <2>3, <2>4 DEF FrameOK
<1>7. ToldAndSet'
  <2> SUFFICES ASSUME NEW n \in Nodes, NEW m \in Nodes, <<n, m>> \in told', Announcing(m)',
                      node'[m].date > 0
               PROVE  SetFor(node'[n], node'[m].date)
    BY DEF ToldAndSet
  <2>1. <<n, m>> \in told
    BY Zenon DEF Tick
  <2>2. Older(node[m]).my_state = node[m].my_state /\ node[m].my_state = "DISCOVERY"
        /\ Older(node[m]).instr = node[m].instr
    BY <1>1, <1>3, OlderKeeps DEF Announcing
  <2>3. Announcing(m)
    BY <1>3, <2>2 DEF Announcing
  <2>4. node'[m].date = Passed(node[m].date) /\ node[m].date \in Int
    BY <1>1, <1>3, <2>3, OlderKeeps, NodeFields DEF Announcing, InOrder
  <2>5. node[m].date > 1 /\ node'[m].date = node[m].date - 1
    BY <2>4, Numbers DEF Passed
  <2>6. SetFor(node[n], node[m].date)
    BY <2>1, <2>3, <2>4, <2>5 DEF DiscoveryInv, ToldAndSet
  <2> SUFFICES ASSUME node'[n].my_state = "DISCOVERY"
               PROVE  node'[n].rt.state = "SCHEDULED" /\ node'[n].rt.lg >= node'[m].date
    BY DEF SetFor
  <2>7. node[n].my_state = "DISCOVERY"
    BY <1>1, <1>3, OlderKeeps
  <2>8. node[n].rt.state = "SCHEDULED" /\ node[n].rt.lg >= node[m].date /\ node[n].rt.lg \in Int
    BY <1>1, <2>6, <2>7, NodeFields, TimerFields DEF SetFor, InOrder
  <2>9. node[n].rt.lg > 0
    BY <2>4, <2>5, <2>8
  <2>10. node'[n].rt.state = "SCHEDULED" /\ node'[n].rt.lg = node[n].rt.lg - 1
    BY <1>1, <1>3, <2>7, <2>8, <2>9, OlderKeeps
  <2> QED BY <2>4, <2>5, <2>8, <2>10
<1>8. told' \subseteq Nodes \X Nodes
  BY Zenon DEF Tick, DiscoveryInv
<1> QED BY <1>4, <1>5, <1>6, <1>7, <1>8 DEF DiscoveryInv

(* A frame is sent, with the date of the moment. *)
LEMMA SendStep == ASSUME DiscoveryInv, NEW n \in Nodes, Send(n) PROVE DiscoveryInv'
<1>1. /\ air' = [from |-> n, instr |-> node[n].instr, date |-> node[n].date, age |-> 0]
      /\ UNCHANGED <<node, told>>
  BY DEF Send
<1>2. InOrder(node[n]) /\ node[n] \in NodeStates
  BY DEF DiscoveryInv, InOrder
<1>3. node[n].instr \in {"DISCOVERY", "DISC_TO_EREV", "ELECTION_REVELATION"} /\ node[n].date \in Int
  BY <1>2, NodeFields
<1>4. node[n].instr = "DISC_TO_EREV" => node[n].date \in -LongAgo..DISC_TO_EREV_INTERVAL
  BY <1>2, Numbers DEF InOrder, ToCome
<1>5. FrameOK(air')
  BY <1>1, <1>3, <1>4 DEF FrameOK
<1> QED BY <1>1, <1>5 DEF DiscoveryInv, ToldAndSet, Announcing

(* A node that has gone on is not followed any further. *)
LEMMA LaterLeaves ==
  ASSUME NEW x, x.my_state = "LATER"
  PROVE  InOrder(Kept(x)) /\ Kept(x).my_state = "LATER"
<1> DEFINE y == [Start EXCEPT !.my_state = "LATER"]
<1>1. Kept(x) = y
  BY DEF Kept
<1>2. y \in NodeStates /\ y.my_state = "LATER" /\ y.instr = Start.instr
  BY StartFields DEF NodeStates
<1> HIDE DEF y
<1> QED BY <1>1, <1>2, StartFields DEF InOrder

(* The timer of a node expires, and the node leaves the discovery. *)
LEMMA TimerStep == ASSUME DiscoveryInv, NEW n \in Nodes, Timer(n) PROVE DiscoveryInv'
<1> DEFINE x == node[n]
           a == [x EXCEPT !.rt.state = "INACTIVE", !.rt.age = 0]
           e == IF x.my_state = "DISCOVERY" /\ x.rt.func = "enter_election_revelation"
                THEN Electing(a) ELSE [x EXCEPT !.my_state = "LATER"]
<1>1. /\ node' = [node EXCEPT ![n] = Kept(e)] /\ air' = air
      /\ told' = {p \in told : n \notin {p[1], p[2]}}
  BY DEF Timer
<1>2. InOrder(x) /\ x \in NodeStates /\ x.rt \in Timers /\ node \in [Nodes -> NodeStates]
  BY NodeFields DEF DiscoveryInv, InOrder
<1>3. InOrder(Kept(e))
  <2>1. CASE x.my_state = "DISCOVERY" /\ x.rt.func = "enter_election_revelation"
    <3> DEFINE s == [x.rt EXCEPT !.state = "INACTIVE"]
               t == [s EXCEPT !.age = 0]
    <3>1. s \in Timers
      BY <1>2, StateTimer
    <3> HIDE DEF s
    <3>2. t \in Timers
      BY <3>1, AgeTimer
    <3>3. a = WithTimer(x, t)
      BY <1>2 DEF WithTimer, NodeStates, s
    <3> HIDE DEF t, a
    <3>4. a \in NodeStates
      BY <1>2, <3>2, <3>3, OtherTimer
    <3>5. InOrder(Electing(a))
      BY <3>4, ElectingLeaves
    <3> QED BY <2>1, <3>5, KeptKeeps
  <2>2. CASE ~(x.my_state = "DISCOVERY" /\ x.rt.func = "enter_election_revelation")
    <3>1. e = [x EXCEPT !.my_state = "LATER"]
      BY <2>2
    <3>2. e.my_state = "LATER"
      BY <1>2, <3>1 DEF NodeStates
    <3> HIDE DEF e
    <3> QED BY <3>2, LaterLeaves
  <2> QED BY <2>1, <2>2
<1> HIDE DEF e, x
<1>4. node' \in [Nodes -> NodeStates] /\ node'[n] = Kept(e) /\ \A m \in Nodes \ {n} : node'[m] = node[m]
  BY <1>1, <1>2, <1>3 DEF InOrder
<1>5. \A m \in Nodes : InOrder(node'[m])
  BY <1>3, <1>4 DEF DiscoveryInv
<1>6. ToldAndSet'
  <2> SUFFICES ASSUME NEW k \in Nodes, NEW m \in Nodes, <<k, m>> \in told', Announcing(m)',
                      node'[m].date > 0
               PROVE  SetFor(node'[k], node'[m].date)
    BY DEF ToldAndSet
  <2>1. <<k, m>> \in told /\ k # n /\ m # n
    BY <1>1
  <2>2. node'[k] = node[k] /\ node'[m] = node[m]
    BY <1>4, <2>1
  <2> QED BY <2>1, <2>2 DEF DiscoveryInv, ToldAndSet, Announcing
<1> QED BY <1>1, <1>4, <1>5, <1>6 DEF DiscoveryInv

(* A frame arrives.  The sender has not heard it, so that what it announces stands. *)
LEMMA ReceiveStep ==
  ASSUME DiscoveryInv, NEW S \in SUBSET Listening, NEW low, Receive(S, low)
  PROVE  DiscoveryInv'
<1> DEFINE f == air
<1>1. /\ air # Silence /\ air' = Silence
      /\ node' = [n \in Nodes |-> IF n \in S THEN Heard(n, n \in low) ELSE node[n]]
  BY DEF Receive
<1>2. FrameOK(f) /\ f.from \in Nodes /\ f.date \in Int
  BY <1>1 DEF DiscoveryInv, FrameOK
<1>3. ASSUME NEW n \in S PROVE Reacts(Heard(n, n \in low), node[n], f) /\ node[n].my_state = "DISCOVERY"
  <2> DEFINE o == n \in low
  <2>1. n \in Nodes /\ InOrder(node[n]) /\ node[n].my_state = "DISCOVERY"
    BY <1>3 DEF Listening, DiscoveryInv
  <2>o. o \in BOOLEAN
    OBVIOUS
  <2> HIDE DEF o
  <2>2. CASE air.instr = "ELECTION_REVELATION"
    <3>1. Heard(n, o) = Kept(received_revelation_announcement(node[n], air.from, air, o))
      BY <2>2 DEF Heard
    <3>2. Reacts(Kept(received_revelation_announcement(node[n], air.from, air, o)), node[n], air)
      BY ONLY <1>2, <2>1, <2>2, <2>o, RevelationHeard
    <3>3. Reacts(Heard(n, o), node[n], air)
      BY <3>1, <3>2
    <3> QED BY <2>1, <3>3 DEF o
  <2>3. CASE air.instr # "ELECTION_REVELATION"
    <3>1. Heard(n, n \in low) = Kept(received_discovery_announcement(node[n], air.from, air))
      BY <2>3 DEF Heard
    <3> QED BY <1>2, <2>1, <2>3, <3>1, DiscoveryHeard
  <2> QED BY <2>1, <2>2, <2>3
<1>4. /\ \A n \in S : n \in Nodes /\ Reacts(node'[n], node[n], f) /\ node[n].my_state = "DISCOVERY"
      /\ \A n \in Nodes \ S : node'[n] = node[n]
  BY <1>1, <1>3 DEF Listening
<1>5. f.from \notin S
  BY DEF Listening
<1>6. \A n \in Nodes : InOrder(node'[n])
  BY <1>4 DEF Reacts, DiscoveryInv
<1>7. node' \in [Nodes -> NodeStates]
  <2>1. \A n \in Nodes : node'[n] \in NodeStates
    BY <1>6 DEF InOrder
  <2>2. node' = [n \in Nodes |-> node'[n]]
    BY <1>1
  <2> QED BY <2>1, <2>2
<1>8. /\ told' \subseteq Nodes \X Nodes
      /\ \A n, m \in Nodes : <<n, m>> \in told' =>
           \/ <<n, m>> \in told /\ node'[m].instr = node[m].instr /\ node'[m].date = node[m].date
           \/ n \in S /\ m = f.from /\ f.instr = "DISC_TO_EREV" /\ node[m].date = f.date
  <2> DEFINE after == [n \in Nodes |-> IF n \in S THEN Heard(n, n \in low) ELSE node[n]]
             same(n) == after[n].my_state = "DISCOVERY" /\ after[n].instr = node[n].instr
                        /\ after[n].date = node[n].date
             new == {k \in S : air.instr = "DISC_TO_EREV" /\ node[air.from].instr = air.instr
                               /\ node[air.from].date = air.date}
  <2>1. told' = {p \in told : same(p[2])} \cup {<<n, air.from>> : n \in new}
    BY DEF Receive
  <2>2. after = node'
    BY <1>1
  <2>3. told \subseteq Nodes \X Nodes
    BY DEF DiscoveryInv
  <2>4. new \subseteq Nodes
    BY <1>4
  <2>5. told' \subseteq Nodes \X Nodes
    BY <1>2, <2>1, <2>3, <2>4
  <2>6. ASSUME NEW n \in Nodes, NEW m \in Nodes, <<n, m>> \in told'
        PROVE  \/ <<n, m>> \in told /\ node'[m].instr = node[m].instr /\ node'[m].date = node[m].date
               \/ n \in S /\ m = f.from /\ f.instr = "DISC_TO_EREV" /\ node[m].date = f.date
    <3>1. (<<n, m>> \in told /\ same(m)) \/ (n \in new /\ m = air.from)
      BY <2>1, <2>6
    <3> QED BY <2>2, <3>1
  <2> QED BY <2>5, <2>6
<1>9. ToldAndSet'
  <2> SUFFICES ASSUME NEW n \in Nodes, NEW m \in Nodes, <<n, m>> \in told', Announcing(m)',
                      node'[m].date > 0
               PROVE  SetFor(node'[n], node'[m].date)
    BY DEF ToldAndSet
  <2>1. CASE <<n, m>> \in told /\ node'[m].instr = node[m].instr /\ node'[m].date = node[m].date
    <3>1. Announcing(m) /\ node[m].date \in Int
      BY <2>1, NodeFields DEF Announcing, DiscoveryInv, InOrder
    <3>2. SetFor(node[n], node[m].date)
      BY <2>1, <3>1 DEF DiscoveryInv, ToldAndSet
    <3>3. CASE n \in S
      <4>1. /\ node[n].rt.state = "SCHEDULED" /\ node[n].rt.lg >= node[m].date /\ node[n].rt.lg \in Int
        BY <1>4, <3>2, <3>3, NodeFields, TimerFields DEF SetFor, DiscoveryInv, InOrder
      <4>2. node[n].rt.lg >= 0
        BY <2>1, <3>1, <4>1
      <4>3. SetFor(node'[n], node[n].rt.lg)
        BY <1>4, <3>3, <4>1, <4>2 DEF Reacts
      <4>4. InOrder(node'[n])
        BY <1>6
      <4>5. node'[n].rt.lg \in Int
        BY <4>4, NodeFields, TimerFields DEF InOrder
      <4> QED BY <2>1, <3>1, <4>1, <4>3, <4>5 DEF SetFor
    <3>4. CASE n \notin S
      BY <1>4, <2>1, <3>2, <3>4
    <3> QED BY <3>3, <3>4
  <2>2. CASE n \in S /\ m = f.from /\ f.instr = "DISC_TO_EREV" /\ node[m].date = f.date
    <3>1. node'[m] = node[m]
      BY <1>2, <1>4, <1>5, <2>2
    <3> QED BY <1>4, <2>2, <3>1 DEF Reacts
  <2> QED BY <1>8, <2>1, <2>2
<1> QED BY <1>1, <1>6, <1>7, <1>8, <1>9 DEF DiscoveryInv

(* Every step of the nodes and of the channel keeps it. *)
LEMMA DiscoveryInvStep == DiscoveryInv /\ [Next]_vars => DiscoveryInv'
<1> SUFFICES ASSUME DiscoveryInv, [Next]_vars PROVE DiscoveryInv'
  OBVIOUS
<1>1. CASE Tick
  BY <1>1, TickStep
<1>2. ASSUME NEW n \in Nodes, Send(n) PROVE DiscoveryInv'
  BY <1>2, SendStep
<1>3. ASSUME NEW n \in Nodes, Timer(n) PROVE DiscoveryInv'
  BY <1>3, TimerStep
<1>4. ASSUME NEW S \in SUBSET Listening, NEW low, Receive(S, low) PROVE DiscoveryInv'
  BY <1>4, ReceiveStep
<1>5. CASE UNCHANGED vars
  BY <1>5 DEF vars, DiscoveryInv, ToldAndSet, Announcing
<1> QED BY <1>1, <1>2, <1>3, <1>4, <1>5 DEF Next

(* What holds of the timers, the frame on its way and those it was received by, in every
   state of any number of nodes. *)
THEOREM DiscoveryInvariant == Spec => []DiscoveryInv
BY DiscoveryInvInit, DiscoveryInvStep, PTL DEF Spec

(* The two dates of a timer that is set are the same unless it is one far ahead, so that
   who is set for a date or a later one is called at it or later. *)
LEMMA SetIsNotBefore == DiscoveryInv => NotBefore
<1> SUFFICES ASSUME DiscoveryInv, NEW n \in Nodes, NEW m \in Nodes,
                    <<n, m>> \in told, Announcing(m), node[m].rt.hw # LongAgo,
                    node[n].my_state = "DISCOVERY", node[n].rt.state = "SCHEDULED"
             PROVE  node[n].rt.hw >= node[m].rt.hw
  BY DEF NotBefore
<1> DEFINE a == node[n].rt.hw
           b == node[m].rt.hw
           la == node[n].rt.lg
           d == node[m].date
<1>1. InOrder(node[n]) /\ InOrder(node[m])
  BY DEF DiscoveryInv
<1>2. ToCome(node[n].rt) /\ ToCome(node[m].rt) /\ d = node[m].rt.lg
  BY <1>1 DEF InOrder, Announcing
<1>3. a \in Int /\ b \in Int /\ la \in Int /\ d \in Int
  BY <1>1, NodeFields, TimerFields DEF InOrder
<1>4. b = d /\ b >= 0 /\ a >= 0
  BY <1>2, <1>3, Numbers DEF ToCome
<1>5. CASE d > 0
  <2>1. la >= d
    BY <1>5 DEF DiscoveryInv, ToldAndSet, SetFor
  <2>2. a = la \/ a = LongAgo
    BY <1>2 DEF ToCome
  <2>3. b <= LongAgo
    BY <1>2, <1>3, <1>4, Numbers DEF ToCome
  <2> HIDE DEF a, b, la, d
  <2>4. a >= b
    BY <1>3, <1>4, <2>1, <2>2, <2>3
  <2> QED BY <2>4 DEF a, b
<1>6. CASE ~(d > 0)
  <2> HIDE DEF a, b, la, d
  <2>1. a >= b
    BY <1>3, <1>4, <1>6
  <2> QED BY <2>1 DEF a, b
<1> QED BY <1>5, <1>6

(* A node that received the date another is still announcing does not leave the discovery
   before it: for any number of nodes, any loss of frames, any frame delay and any
   interval. *)
THEOREM NeverLeavesBefore == Spec => []NotBefore
BY DiscoveryInvariant, SetIsNotBefore, PTL
=============================================================================
