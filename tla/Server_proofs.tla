---------------------------- MODULE Server_proofs ----------------------------
(***************************************************************************)
(* The rate limiter's contract and the soundness of startup, for every     *)
(* rate, every length of the minute, any number of clients, any bound on   *)
(* the buckets, and any list of migrations.                                *)
(*                                                                         *)
(* The limiter's invariant measures what the watched client could still    *)
(* spend at once: with what it has been let through since the window was   *)
(* opened, it never exceeds the bound and never falls behind the refill.   *)
(***************************************************************************)
EXTENDS Server, TLAPS

LEMMA Products ==
  ASSUME NEW r \in Nat, NEW m \in Nat, NEW n \in Nat
  PROVE  /\ r * m \in Nat
         /\ r * (m + 1) = r * m + r
         /\ (m + 1) * r = m * r + r
         /\ m <= n => r * m <= r * n
  OBVIOUS

LEMMA CapacityNat == Capacity \in Nat /\ Capacity >= Minute /\ Minute \in Nat /\ Rate \in Nat
  BY LimiterAssumption, Products DEF Capacity

(* What the watched client could spend now.                                *)
Have == Refilled(Watched, held)

Bounded ==
  window.passed * Minute + Have
    <= Capacity + Capacity * window.restarts + Rate * (now - window.start)

Refills ==
  AtMost(Rate * (now - window.start), Capacity) <= window.passed * Minute + Have

LimiterIInv == LimiterTypeOK /\ Bounded /\ Refills /\ DeniedForAReason

LEMMA HaveType ==
  ASSUME LimiterTypeOK, NEW kept \in SUBSET Ips, NEW i \in Ips
  PROVE  /\ Refilled(i, kept) \in 0..Capacity
         /\ now - last[i] \in Nat
         /\ Rate * (now - last[i]) \in Nat
         /\ tokens[i] + Rate * (now - last[i]) \in Nat
<1>1. now - last[i] \in Nat
  BY DEF LimiterTypeOK
<1>2. Rate * (now - last[i]) \in Nat
  BY <1>1, CapacityNat, Products
<1>3. tokens[i] \in Nat
  BY CapacityNat DEF LimiterTypeOK
<1>4. tokens[i] + Rate * (now - last[i]) \in Nat
  BY <1>2, <1>3
<1> HIDE DEF Capacity
<1>5. Refilled(i, kept) \in 0..Capacity
  BY <1>4, CapacityNat DEF Refilled, AtMost
<1> QED
  BY <1>1, <1>2, <1>4, <1>5

LEMMA WindowType ==
  ASSUME LimiterTypeOK
  PROVE  /\ now \in Nat /\ window.start \in Nat /\ now - window.start \in Nat
         /\ window.passed \in Nat /\ window.restarts \in Nat
         /\ Rate * (now - window.start) \in Nat
         /\ window.passed * Minute \in Nat
         /\ Capacity * window.restarts \in Nat
<1>1. now \in Nat /\ window.start \in 0..now /\ window.passed \in Nat /\ window.restarts \in Nat
  BY DEF LimiterTypeOK
<1>2. window.start \in Nat /\ now - window.start \in Nat
  BY <1>1
<1> QED
  BY <1>1, <1>2, CapacityNat, Products

(* A bucket that has been idle long enough to be dropped is full.          *)
LEMMA KeptHarmless ==
  ASSUME LimiterTypeOK
  PROVE  Kept \subseteq held /\ Refilled(Watched, Kept) = Have
<1>1. Watched \in Ips
  BY LimiterAssumption
<1>2. CASE Watched \in held /\ now - last[Watched] >= Idle
  <2>1. Rate * Minute <= Rate * (now - last[Watched])
    <3>1. Minute <= now - last[Watched] /\ now - last[Watched] \in Nat
      BY <1>1, <1>2, LimiterAssumption, HaveType
    <3> QED
      BY <3>1, CapacityNat, Products
  <2>2. tokens[Watched] + Rate * (now - last[Watched]) >= Capacity
    <3>1. tokens[Watched] \in Nat /\ Rate * (now - last[Watched]) \in Nat
      BY <1>1, HaveType, CapacityNat DEF LimiterTypeOK
    <3> QED
      BY <2>1, <3>1, CapacityNat DEF Capacity
  <2>3. Have = Capacity
    BY <1>1, <2>2, HaveType, CapacityNat DEF Have, Refilled, AtMost
  <2>4. Refilled(Watched, Kept) = Capacity
    BY <1>1, <2>2, HaveType, CapacityNat DEF Refilled, AtMost
  <2> QED
    BY <2>3, <2>4 DEF Kept
<1>3. CASE Watched \in held /\ ~(now - last[Watched] >= Idle)
  <2>1. Watched \in Kept
    <3>1. now - last[Watched] \in Nat /\ Idle \in Nat
      BY <1>1, HaveType, LimiterAssumption DEF LimiterTypeOK
    <3>2. now - last[Watched] < Idle
      BY <1>3, <3>1
    <3> QED
      BY <1>3, <3>2 DEF Kept
  <2> QED
    BY <1>3, <2>1 DEF Kept, Have, Refilled
<1>4. CASE Watched \notin held
  BY <1>4 DEF Kept, Have, Refilled
<1> QED
  BY <1>2, <1>3, <1>4

LEMMA LimiterStarts == LimiterInit => LimiterIInv
<1> SUFFICES ASSUME LimiterInit PROVE LimiterIInv
  OBVIOUS
<1>1. LimiterTypeOK
  BY CapacityNat DEF LimiterInit, LimiterTypeOK, OpenedNow
<1>2. Have = Capacity
  BY DEF Have, Refilled, LimiterInit
<1>3. Bounded /\ Refills /\ DeniedForAReason
  BY <1>2, CapacityNat, Products DEF LimiterInit, OpenedNow, Bounded, Refills, DeniedForAReason, AtMost
<1> QED
  BY <1>1, <1>3 DEF LimiterIInv

(* have: what a bucket holds; counted: requests let through. One more      *)
(* request, let through, moves Minute from the one to the other.           *)
LEMMA CheckKeeps ==
  ASSUME NEW ip \in Ips, LimiterIInv, Check(ip)
  PROVE  LimiterIInv'
<1> DEFINE have == Refilled(ip, Kept)
           allowed == have >= Minute
<1>1. have \in 0..Capacity /\ Kept \subseteq held /\ LimiterTypeOK
  <2>1. Kept \in SUBSET Ips
    BY KeptHarmless DEF LimiterIInv, LimiterTypeOK
  <2> QED
    BY <2>1, HaveType, KeptHarmless DEF LimiterIInv
<1> HIDE DEF have
<1>2. /\ held' = Kept \cup {ip}
      /\ tokens' = [tokens EXCEPT ![ip] = IF allowed THEN have - Minute ELSE have]
      /\ last' = [last EXCEPT ![ip] = now]
      /\ now' = now
      /\ window' = IF ip # Watched THEN window
                   ELSE [window EXCEPT !.passed = IF allowed THEN @ + 1 ELSE @,
                                       !.limited = ~allowed]
  BY DEF Check, have
<1>3. LimiterTypeOK'
  <2>1. (IF allowed THEN have - Minute ELSE have) \in 0..Capacity
    BY <1>1, CapacityNat
  <2>2. tokens' \in [Ips -> 0..Capacity]
    BY <1>1, <1>2, <2>1 DEF LimiterTypeOK
  <2>3. last' \in [Ips -> 0..now'] /\ now' \in Nat /\ held' \subseteq Ips
    BY <1>1, <1>2 DEF LimiterTypeOK
  <2>4. window' \in [start : 0..now', passed : Nat, restarts : Nat, limited : BOOLEAN]
    <3>1. ASSUME NEW p \in Nat, NEW b \in BOOLEAN
          PROVE  [window EXCEPT !.passed = p, !.limited = b]
                   \in [start : 0..now, passed : Nat, restarts : Nat, limited : BOOLEAN]
      BY <1>1 DEF LimiterTypeOK
    <3>2. (IF allowed THEN window.passed + 1 ELSE window.passed) \in Nat
      BY <1>1, WindowType
    <3>3. (~allowed) \in BOOLEAN
      OBVIOUS
    <3> QED
      BY <1>1, <1>2, <3>1, <3>2, <3>3, Zenon DEF LimiterTypeOK
  <2> QED
    BY <2>2, <2>3, <2>4 DEF LimiterTypeOK, Capacity
<1>4. CASE ip # Watched
  <2>1. window' = window /\ now' = now /\ tokens'[Watched] = tokens[Watched]
        /\ last'[Watched] = last[Watched] /\ (Watched \in held' <=> Watched \in Kept)
    BY <1>1, <1>2, <1>4, LimiterAssumption DEF LimiterTypeOK
  <2>2. Have' = Refilled(Watched, Kept)
    BY <2>1 DEF Have, Refilled, Capacity
  <2>3. Have' = Have
    BY <1>1, <2>2, KeptHarmless
  <2> QED
    BY <1>3, <2>1, <2>3 DEF LimiterIInv, Bounded, Refills, DeniedForAReason, Capacity
<1>5. CASE ip = Watched
  <2>1. have = Have
    BY <1>1, <1>5, KeptHarmless DEF have
  <2>2. Have' = IF allowed THEN have - Minute ELSE have
    <3>1. Have' = AtMost((IF allowed THEN have - Minute ELSE have) + Rate * (now - now), Capacity)
      BY <1>1, <1>2, <1>5 DEF Have, Refilled, LimiterTypeOK, Capacity
    <3>2. Rate * (now - now) = 0
      BY <1>1, CapacityNat DEF LimiterTypeOK
    <3> QED
      BY <1>1, <3>1, <3>2, CapacityNat DEF AtMost
  <2>3. /\ window'.start = window.start /\ window'.restarts = window.restarts
        /\ window'.passed = (IF allowed THEN window.passed + 1 ELSE window.passed)
        /\ window'.limited = ~allowed
    BY <1>1, <1>2, <1>5 DEF LimiterTypeOK
  <2>4. /\ window.passed \in Nat /\ window.passed * Minute \in Nat
        /\ (window.passed + 1) * Minute = window.passed * Minute + Minute
    BY <1>1, CapacityNat, Products DEF LimiterTypeOK
  <2>5. window'.passed * Minute + Have' = window.passed * Minute + Have
    BY <1>1, <2>1, <2>2, <2>3, <2>4, CapacityNat
  <2>6. Bounded' /\ Refills'
    BY <1>2, <2>3, <2>5 DEF LimiterIInv, Bounded, Refills, Capacity
  <2>7. ASSUME window'.limited, now' - window'.start >= Minute
        PROVE  window'.passed >= Rate
    <3>0. have \in Nat /\ ~allowed
      <4>1. ~allowed
        BY <2>3, <2>7, Zenon
      <4> QED
        BY <1>1, <4>1, CapacityNat
    <3>1. ~allowed /\ Have < Minute /\ window'.passed = window.passed /\ Have \in Nat
      BY <2>1, <2>3, <3>0, CapacityNat
    <3>2. now - window.start \in Nat /\ Minute <= now - window.start
      BY <1>1, <1>2, <2>3, <2>7, CapacityNat DEF LimiterTypeOK
    <3>3. Capacity <= Rate * (now - window.start) /\ Rate * (now - window.start) \in Nat
      BY <3>2, CapacityNat, Products DEF Capacity
    <3>4. Capacity <= window.passed * Minute + Have
      BY <3>3, CapacityNat DEF LimiterIInv, Refills, AtMost
    <3>5. Rate * Minute < (window.passed + 1) * Minute
      BY <2>4, <3>1, <3>4, CapacityNat DEF Capacity
    <3>6. CASE window.passed + 1 <= Rate
      <4>1. Minute * (window.passed + 1) <= Minute * Rate
        BY <2>4, <3>6, CapacityNat, Products
      <4> QED
        BY <2>4, <3>5, <4>1, CapacityNat
    <3> QED
      BY <2>4, <3>1, <3>6, CapacityNat
  <2> QED
    BY <1>3, <2>6, <2>7 DEF LimiterIInv, DeniedForAReason
<1> QED
  BY <1>4, <1>5

LEMMA TickKeeps ==
  ASSUME LimiterIInv, Tick
  PROVE  LimiterIInv'
<1>1. /\ LimiterTypeOK /\ now' = now + 1 /\ held' = held /\ tokens' = tokens /\ last' = last
      /\ window' = [window EXCEPT !.limited = FALSE]
  BY DEF LimiterIInv, Tick, buckets
<1>2. /\ window'.start = window.start /\ window'.restarts = window.restarts
      /\ window'.passed = window.passed /\ window'.limited = FALSE
  BY <1>1 DEF LimiterTypeOK
<1>3. LimiterTypeOK'
  <2>1. 0..now \subseteq 0..(now + 1) /\ now + 1 \in Nat
    BY <1>1 DEF LimiterTypeOK
  <2> QED
    BY <1>1, <2>1 DEF LimiterTypeOK, Capacity
<1>4. /\ now - window.start \in Nat /\ (now + 1) - window.start = (now - window.start) + 1
      /\ window.passed * Minute \in Nat
  BY <1>1, WindowType
<1>5. /\ Rate * (now' - window'.start) = Rate * (now - window.start) + Rate
      /\ Rate * (now - window.start) \in Nat
  BY <1>1, <1>2, <1>4, CapacityNat, Products
<1>6. Have \in 0..Capacity
  BY <1>1, HaveType, LimiterAssumption DEF Have, LimiterTypeOK
<1>7. Have' = AtMost(Have + Rate, Capacity)
  <2>1. CASE Watched \in held
    <3>1. /\ now - last[Watched] \in Nat /\ Rate * (now - last[Watched]) \in Nat
          /\ tokens[Watched] + Rate * (now - last[Watched]) \in Nat
      BY <1>1, HaveType, LimiterAssumption DEF LimiterTypeOK
    <3>2. (now + 1) - last[Watched] = (now - last[Watched]) + 1
      BY <1>1, <3>1, LimiterAssumption DEF LimiterTypeOK
    <3>3. Rate * ((now + 1) - last[Watched]) = Rate * (now - last[Watched]) + Rate
      BY <3>1, <3>2, CapacityNat, Products
    <3>4. tokens[Watched] \in Nat
      BY <1>1, LimiterAssumption, CapacityNat DEF LimiterTypeOK
    <3>5. Have' = AtMost(tokens[Watched] + (Rate * (now - last[Watched]) + Rate), Capacity)
      BY <1>1, <2>1, <3>3 DEF Have, Refilled, Capacity
    <3>6. Have = AtMost(tokens[Watched] + Rate * (now - last[Watched]), Capacity)
      BY <2>1 DEF Have, Refilled
    <3>7. ASSUME NEW x \in Nat, NEW y \in Nat
          PROVE  AtMost(x + (y + Rate), Capacity) = AtMost(AtMost(x + y, Capacity) + Rate, Capacity)
      BY CapacityNat DEF AtMost
    <3> QED
      BY <3>1, <3>4, <3>5, <3>6, <3>7
  <2>2. CASE Watched \notin held
    BY <1>1, <2>2, CapacityNat DEF Have, Refilled, AtMost, Capacity
  <2> QED
    BY <2>1, <2>2
<1>8. Capacity + Capacity * window.restarts \in Nat
  BY <1>1, CapacityNat, WindowType
<1>9. Bounded'
  <2>1. window.passed * Minute + Have
          <= Capacity + Capacity * window.restarts + Rate * (now - window.start)
    BY DEF LimiterIInv, Bounded
  <2>2. window.passed * Minute + Have'
          <= Capacity + Capacity * window.restarts + (Rate * (now - window.start) + Rate)
    BY <1>4, <1>5, <1>6, <1>7, <1>8, <2>1, CapacityNat DEF AtMost
  <2> QED
    BY <1>2, <1>5, <2>2 DEF Bounded, Capacity
<1>10. Refills'
  <2>1. AtMost(Rate * (now - window.start), Capacity) <= window.passed * Minute + Have
    BY DEF LimiterIInv, Refills
  <2>2. AtMost(Rate * (now - window.start) + Rate, Capacity) <= window.passed * Minute + Have'
    BY <1>4, <1>5, <1>6, <1>7, <2>1, CapacityNat DEF AtMost
  <2> QED
    BY <1>2, <1>5, <2>2 DEF Refills, Capacity
<1> QED
  BY <1>2, <1>3, <1>9, <1>10 DEF LimiterIInv, DeniedForAReason

LEMMA OpenKeeps ==
  ASSUME LimiterIInv, OpenWindow
  PROVE  LimiterIInv'
<1>1. /\ LimiterTypeOK /\ now' = now /\ held' = held /\ tokens' = tokens /\ last' = last
      /\ window' = OpenedNow
  BY DEF LimiterIInv, OpenWindow, buckets
<1>2. LimiterTypeOK'
  BY <1>1 DEF LimiterTypeOK, OpenedNow, Capacity
<1>3. Have' = Have /\ Have \in 0..Capacity
  BY <1>1, HaveType, LimiterAssumption DEF Have, Refilled, LimiterTypeOK, Capacity
<1>4. Rate * (now - now) = 0 /\ 0 * Minute = 0 /\ Capacity * 0 = 0 /\ now - now = 0
  BY <1>1, CapacityNat DEF LimiterTypeOK
<1>5. Bounded' /\ Refills'
  BY <1>1, <1>3, <1>4, CapacityNat DEF Bounded, Refills, OpenedNow, AtMost, Capacity
<1> QED
  BY <1>1, <1>2, <1>5 DEF LimiterIInv, DeniedForAReason, OpenedNow

LEMMA RestartKeeps ==
  ASSUME LimiterIInv, LimiterRestart
  PROVE  LimiterIInv'
<1>1. /\ LimiterTypeOK /\ now' = now /\ held' = {}
      /\ tokens' = [i \in Ips |-> Capacity] /\ last' = [i \in Ips |-> 0]
      /\ window' = [window EXCEPT !.restarts = @ + 1]
  BY DEF LimiterIInv, LimiterRestart
<1>2. /\ window'.start = window.start /\ window'.restarts = window.restarts + 1
      /\ window'.passed = window.passed /\ window'.limited = window.limited
  BY <1>1 DEF LimiterTypeOK
<1>3. LimiterTypeOK'
  <2>1. Capacity \in 0..Capacity /\ 0 \in 0..now
    BY <1>1, CapacityNat DEF LimiterTypeOK
  <2> QED
    BY <1>1, <2>1 DEF LimiterTypeOK, Capacity
<1>4. Have' = Capacity /\ Have \in 0..Capacity
  BY <1>1, HaveType, LimiterAssumption DEF Have, Refilled, LimiterTypeOK, Capacity
<1>5. /\ Capacity * (window.restarts + 1) = Capacity * window.restarts + Capacity
      /\ Capacity * window.restarts \in Nat /\ window.passed * Minute \in Nat
  BY <1>1, CapacityNat, Products, WindowType
<1>6. Rate * (now - window.start) \in Nat
  BY <1>1, WindowType
<1>7. Bounded' /\ Refills'
  BY <1>1, <1>2, <1>4, <1>5, <1>6, CapacityNat DEF LimiterIInv, Bounded, Refills, AtMost, Capacity
<1> QED
  BY <1>1, <1>2, <1>3, <1>7 DEF LimiterIInv, DeniedForAReason

LEMMA StillKeeps ==
  ASSUME LimiterIInv, UNCHANGED limiterVars
  PROVE  LimiterIInv'
  BY DEF LimiterIInv, LimiterTypeOK, Bounded, Refills, DeniedForAReason, Have, Refilled,
         Capacity, AtMost, limiterVars, buckets

(* The rate limiter's contract, over restarts of the server: see WindowBound *)
(* and DeniedForAReason (ratelimit.rs).                                      *)
THEOREM LimitAlways == ServerSpec => []LimitHolds
<1>1. ServerInit => LimiterIInv
  BY LimiterStarts DEF ServerInit
<1>2. ASSUME LimiterIInv, [ServerNext]_serverVars
      PROVE  LimiterIInv'
  <2>1. CASE Start
    BY <1>2, <2>1, StillKeeps DEF Start
  <2>2. CASE Open
    BY <1>2, <2>2, StillKeeps DEF Open
  <2>3. CASE Death
    BY <1>2, <2>3, RestartKeeps DEF Death
  <2>4. CASE Observe
    BY <1>2, <2>4, OpenKeeps DEF Observe
  <2>5. CASE Pass
    BY <1>2, <2>5, TickKeeps DEF Pass
  <2>6. ASSUME NEW ip \in Ips, Request(ip) PROVE LimiterIInv'
    BY <1>2, <2>6, CheckKeeps DEF Request
  <2>7. CASE UNCHANGED serverVars
    BY <1>2, <2>7, StillKeeps DEF serverVars
  <2> QED
    BY <1>2, <2>1, <2>2, <2>3, <2>4, <2>5, <2>6, <2>7 DEF ServerNext
<1>3. LimiterIInv => LimitHolds
  <2> SUFFICES ASSUME LimiterIInv PROVE LimitHolds
    OBVIOUS
  <2>1. Have \in 0..Capacity /\ LimiterTypeOK
    BY HaveType, LimiterAssumption DEF LimiterIInv, Have, LimiterTypeOK
  <2>2. /\ window.passed * Minute \in Nat /\ Capacity * window.restarts \in Nat
        /\ Rate * (now - window.start) \in Nat
    BY <2>1, WindowType
  <2> QED
    BY <2>1, <2>2, CapacityNat DEF LimiterIInv, Bounded, LimitHolds, WindowBound
<1> QED
  BY <1>1, <1>2, <1>3, PTL DEF ServerSpec

-----------------------------------------------------------------------------
(* Startup. What a process executes is known to be in the schema up to the *)
(* statement it is at.                                                     *)
Executed(k, n) == {<<k, j>> : j \in 1..(n - 1)}

StartIInv ==
  /\ MigrationTypeOK
  /\ \A k \in 1..version : Statements(k) \subseteq done
  /\ proc = "migrating" =>
       at[1] = version + 1 /\ at[2] >= 1 /\ (InScript => Executed(at[1], at[2]) \subseteq done)
  /\ proc = "up" => version = Len(MIGRATIONS)
  /\ RefusedForAReason

(* A statement beyond the one a process is at was executed by an earlier   *)
(* process that died in the same script.                                   *)
AheadOnlyIfCut ==
  \A d \in done :
    \/ d[1] <= version \/ d[1] \in cut
    \/ proc = "migrating" /\ d[1] = at[1] /\ d[2] < at[2]

StartupInv == StartIInv /\ AheadOnlyIfCut

LEMMA Lengths ==
  /\ Len(MIGRATIONS) \in Nat
  /\ \A k \in Scripts : Len(MIGRATIONS[k]) \in Nat
  BY MigrationsAssumption DEF Scripts

LEMMA StartupStarts == MigrationInit => StartupInv
  BY Lengths DEF MigrationInit, StartupInv, StartIInv, AheadOnlyIfCut, MigrationTypeOK,
     RefusedForAReason, Scripts

LEMMA BootKeeps ==
  ASSUME StartupInv, Boot
  PROVE  StartupInv'
<1>1. /\ MigrationTypeOK /\ proc \in {"down", "refused"} /\ proc' = "migrating"
      /\ at' = <<version + 1, 1>> /\ version' = version /\ done' = done /\ cut' = cut
  BY DEF StartupInv, StartIInv, Boot
<1>2. MigrationTypeOK'
  BY <1>1, Lengths DEF MigrationTypeOK
<1>3. Executed(at'[1], at'[2]) = {}
  BY <1>1 DEF Executed
<1>4. StartIInv'
  BY <1>1, <1>2, <1>3 DEF StartupInv, StartIInv, RefusedForAReason, Statements, MigrationTypeOK
<1>5. AheadOnlyIfCut'
  BY <1>1 DEF StartupInv, AheadOnlyIfCut
<1> QED
  BY <1>4, <1>5 DEF StartupInv

LEMMA ExecuteKeeps ==
  ASSUME StartupInv, Execute
  PROVE  StartupInv'
<1>1. /\ MigrationTypeOK /\ InScript /\ at \in Statements(at[1]) /\ proc = "migrating"
      /\ at[1] = version + 1 /\ at[2] >= 1 /\ Executed(at[1], at[2]) \subseteq done
      /\ version' = version /\ cut' = cut /\ at[1] \in Scripts /\ at \in Nat \X Nat
  BY DEF StartupInv, StartIInv, Execute, InScript, MigrationTypeOK
<1>2. CASE MIGRATIONS[at[1]][at[2]] = "once" /\ at \in done
  <2>1. proc' = "refused" /\ done' = done /\ at' = at
    BY <1>2 DEF Execute
  <2>2. at[1] \in cut
    BY <1>1, <1>2 DEF StartupInv, AheadOnlyIfCut, MigrationTypeOK
  <2>3. MigrationTypeOK'
    BY <1>1, <2>1 DEF MigrationTypeOK
  <2>4. StartIInv'
    BY <1>1, <2>1, <2>2, <2>3 DEF StartupInv, StartIInv, RefusedForAReason
  <2>5. AheadOnlyIfCut'
    BY <1>1, <2>1, <2>2 DEF StartupInv, AheadOnlyIfCut
  <2> QED
    BY <2>4, <2>5 DEF StartupInv
<1>3. CASE ~(MIGRATIONS[at[1]][at[2]] = "once" /\ at \in done)
  <2>1. proc' = "migrating" /\ done' = done \cup {at} /\ at' = <<at[1], at[2] + 1>>
    BY <1>1, <1>3 DEF Execute
  <2>2. at = <<at[1], at[2]>> /\ at[1] \in Nat /\ at[2] \in Nat
    BY <1>1
  <2>3. MigrationTypeOK'
    <3>1. at \in UNION {Statements(k) : k \in Scripts}
      BY <1>1
    <3> QED
      BY <1>1, <2>1, <2>2, <3>1 DEF MigrationTypeOK
  <2>4. Executed(at'[1], at'[2]) \subseteq done'
    <3>1. \A j \in 1..((at[2] + 1) - 1) : j \in 1..(at[2] - 1) \/ j = at[2]
      BY <2>2
    <3> QED
      BY <1>1, <2>1, <2>2, <3>1 DEF Executed
  <2>5. \A k \in 1..version' : Statements(k) \subseteq done'
    BY <1>1, <2>1 DEF StartupInv, StartIInv
  <2>6. StartIInv'
    BY <1>1, <2>1, <2>2, <2>3, <2>4, <2>5 DEF StartIInv, RefusedForAReason, MigrationTypeOK
  <2>7. AheadOnlyIfCut'
    <3> SUFFICES ASSUME NEW d \in done'
                 PROVE  \/ d[1] <= version \/ d[1] \in cut
                        \/ d[1] = at[1] /\ d[2] < at[2] + 1
      BY <1>1, <2>1 DEF AheadOnlyIfCut
    <3>1. CASE d = at
      BY <2>2, <3>1
    <3>2. CASE d \in done
      <4>1. d[2] \in Nat
        BY <1>1, <3>2, Lengths DEF MigrationTypeOK, Statements
      <4> QED
        BY <1>1, <2>2, <3>2, <4>1 DEF StartupInv, AheadOnlyIfCut
    <3> QED
      BY <2>1, <3>1, <3>2
  <2> QED
    BY <2>6, <2>7 DEF StartupInv
<1> QED
  BY <1>2, <1>3

LEMMA MarkKeeps ==
  ASSUME StartupInv, MarkVersion
  PROVE  StartupInv'
<1>1. /\ MigrationTypeOK /\ InScript /\ at \notin Statements(at[1]) /\ proc = "migrating"
      /\ at[1] = version + 1 /\ at[2] >= 1 /\ Executed(at[1], at[2]) \subseteq done
      /\ version' = at[1] /\ at' = <<at[1] + 1, 1>> /\ done' = done /\ proc' = proc
      /\ cut' = cut /\ at[1] \in Scripts /\ at \in Nat \X Nat /\ version \in Nat
  BY DEF StartupInv, StartIInv, MarkVersion, InScript, MigrationTypeOK
<1>2. Len(MIGRATIONS[at[1]]) \in Nat /\ at = <<at[1], at[2]>> /\ at[1] \in Nat /\ at[2] \in Nat
  BY <1>1, Lengths
<1>3. at[2] > Len(MIGRATIONS[at[1]])
  BY <1>1, <1>2 DEF Statements
<1>4. Statements(at[1]) \subseteq Executed(at[1], at[2])
  BY <1>2, <1>3 DEF Statements, Executed
<1>5. \A k \in 1..version' : Statements(k) \subseteq done'
  BY <1>1, <1>4 DEF StartupInv, StartIInv
<1>6. MigrationTypeOK'
  BY <1>1, <1>2, Lengths DEF MigrationTypeOK, Scripts
<1>7. Executed(at'[1], at'[2]) = {}
  BY <1>1 DEF Executed
<1>8. StartIInv'
  BY <1>1, <1>2, <1>5, <1>6, <1>7 DEF StartIInv, RefusedForAReason
<1>9. AheadOnlyIfCut'
  <2> SUFFICES ASSUME NEW d \in done PROVE d[1] <= at[1] \/ d[1] \in cut
    BY <1>1 DEF AheadOnlyIfCut
  <2>1. d[1] \in Nat
    BY <1>1, Lengths DEF MigrationTypeOK, Statements, Scripts
  <2> QED
    BY <1>1, <1>2, <2>1 DEF StartupInv, AheadOnlyIfCut
<1> QED
  BY <1>8, <1>9 DEF StartupInv

LEMMA ServeKeeps ==
  ASSUME StartupInv, Serve
  PROVE  StartupInv'
<1>1. /\ MigrationTypeOK /\ proc = "migrating" /\ at[1] \notin Scripts /\ at[1] = version + 1
      /\ proc' = "up" /\ version' = version /\ done' = done /\ at' = at /\ cut' = cut
  BY DEF StartupInv, StartIInv, Serve
<1>2. version = Len(MIGRATIONS)
  BY <1>1, Lengths DEF MigrationTypeOK, Scripts
<1>3. MigrationTypeOK'
  BY <1>1 DEF MigrationTypeOK
<1>4. StartIInv'
  BY <1>1, <1>2, <1>3 DEF StartupInv, StartIInv, RefusedForAReason, Statements
<1>5. AheadOnlyIfCut'
  <2> SUFFICES ASSUME NEW d \in done PROVE d[1] <= version
    BY <1>1 DEF AheadOnlyIfCut
  <2>1. d[1] \in Scripts
    BY <1>1 DEF MigrationTypeOK, Statements
  <2> QED
    BY <1>2, <2>1 DEF Scripts
<1> QED
  BY <1>4, <1>5 DEF StartupInv

LEMMA DieKeeps ==
  ASSUME StartupInv, Die
  PROVE  StartupInv'
<1>1. /\ MigrationTypeOK /\ proc \in {"migrating", "up"} /\ proc' = "down"
      /\ cut' = (IF InScript THEN cut \cup {at[1]} ELSE cut)
      /\ version' = version /\ done' = done /\ at' = at
  BY DEF StartupInv, StartIInv, Die
<1>2. MigrationTypeOK'
  BY <1>1 DEF MigrationTypeOK, InScript
<1>3. StartIInv'
  BY <1>1, <1>2 DEF StartupInv, StartIInv, RefusedForAReason, Statements
<1>4. AheadOnlyIfCut'
  <2> SUFFICES ASSUME NEW d \in done PROVE d[1] <= version \/ d[1] \in cut'
    BY <1>1 DEF AheadOnlyIfCut
  <2>1. d[1] \in Scripts
    BY <1>1 DEF MigrationTypeOK, Statements
  <2> QED
    BY <1>1, <2>1 DEF StartupInv, AheadOnlyIfCut, InScript
<1> QED
  BY <1>3, <1>4 DEF StartupInv

LEMMA IdleKeeps ==
  ASSUME StartupInv, UNCHANGED migrationVars
  PROVE  StartupInv'
  BY DEF StartupInv, StartIInv, AheadOnlyIfCut, RefusedForAReason, MigrationTypeOK,
         InScript, migrationVars

(* Startup after any sequence of deaths: see ServesOnFullSchema and        *)
(* RefusedForAReason (db/mod.rs).                                          *)
THEOREM StartsAlways == ServerSpec => []StartsSound
<1>1. ServerInit => StartupInv
  BY StartupStarts DEF ServerInit
<1>2. ASSUME StartupInv, [ServerNext]_serverVars
      PROVE  StartupInv'
  <2>1. CASE Start
    BY <1>2, <2>1, BootKeeps DEF Start
  <2>2. CASE Open
    BY <1>2, <2>2, ExecuteKeeps, MarkKeeps, ServeKeeps DEF Open, Migrate
  <2>3. CASE Death
    BY <1>2, <2>3, DieKeeps DEF Death
  <2>4. CASE Observe \/ Pass \/ \E ip \in Ips : Request(ip)
    BY <1>2, <2>4, IdleKeeps DEF Observe, Pass, Request, migrationVars
  <2>5. CASE UNCHANGED serverVars
    BY <1>2, <2>5, IdleKeeps DEF serverVars
  <2> QED
    BY <1>2, <2>1, <2>2, <2>3, <2>4, <2>5 DEF ServerNext
<1>3. StartupInv => StartsSound
  BY Lengths DEF StartupInv, StartIInv, StartsSound, ServesOnFullSchema, Scripts
<1> QED
  BY <1>1, <1>2, <1>3, PTL DEF ServerSpec
=============================================================================
