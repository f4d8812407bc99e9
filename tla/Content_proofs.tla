--------------------------- MODULE Content_proofs ----------------------------
(***************************************************************************)
(* For any users, uploads, sizes of a page and numbers of requests: the    *)
(* tables of the social graph agree, but for the named reasons; the queue  *)
(* of pins tells the truth; what is published is published whole; and who  *)
(* pages through a list misses nothing, whatever goes on meanwhile.        *)
(***************************************************************************)
EXTENDS Content, FiniteSetTheorems, TLAPS

(* What the writer's job can be at.                                        *)
Unfollowing == \E a, b \in Users : running = <<"unfollow", a, b>>
Hiding == \E u \in Users, v \in {"public", "private"} : running = <<"users", u, v>>
Telling == \E u \in Users, v \in {"public", "private"} :
  running = <<"settings", u, v>> /\ (u \in private <=> v = "private")
Tagging == \E t : running = <<"tags", t>>

RunningOK == Idle \/ Unfollowing \/ Hiding \/ Telling \/ Tagging

GraphIInv == GraphTypeOK /\ RunningOK /\ GraphConsistent

(* The fields of a running job.                                            *)
LEMMA Running ==
  /\ \A a, b : LET r == <<"unfollow", a, b>> IN
       r # << >> /\ r[1] = "unfollow" /\ r[2] = a /\ r[3] = b
  /\ \A a, b : LET r == <<"users", a, b>> IN
       r # << >> /\ r[1] = "users" /\ r[2] = a /\ r[3] = b
  /\ \A a, b : LET r == <<"settings", a, b>> IN
       r # << >> /\ r[1] = "settings" /\ r[2] = a /\ r[3] = b
  /\ \A t : LET r == <<"tags", t>> IN r # << >> /\ r[1] = "tags" /\ r[2] = t
OBVIOUS

LEMMA FollowKeeps ==
  ASSUME GraphIInv, NEW a \in Users, NEW b \in Users, Follow(a, b)
  PROVE  GraphIInv'
<1> USE DEF GraphIInv, Follow, Idle
<1>1. GraphTypeOK'
  BY DEF GraphTypeOK
<1>2. RunningOK'
  BY DEF RunningOK
<1>3. BlockSupersedes'
  BY DEF GraphTypeOK, GraphConsistent, BlockSupersedes, Blocked, Edge
<1>4. PrivacyAsTold'
  BY DEF GraphConsistent, PrivacyAsTold
<1> QED
  BY <1>1, <1>2, <1>3, <1>4 DEF GraphConsistent

LEMMA UnfollowKeeps ==
  ASSUME GraphIInv, NEW a \in Users, NEW b \in Users, Unfollow(a, b)
  PROVE  GraphIInv'
<1> USE DEF GraphIInv, Unfollow, Idle
<1>1. GraphTypeOK'
  BY DEF GraphTypeOK
<1>2. RunningOK'
  BY DEF RunningOK
<1>3. BlockSupersedes'
  BY DEF GraphTypeOK, GraphConsistent, BlockSupersedes, Blocked, Edge
<1>4. PrivacyAsTold'
  BY DEF GraphConsistent, PrivacyAsTold
<1> QED
  BY <1>1, <1>2, <1>3, <1>4 DEF GraphConsistent

LEMMA BlockKeeps ==
  ASSUME GraphIInv, NEW a \in Users, NEW b \in Users, Block(a, b)
  PROVE  GraphIInv'
<1> USE DEF GraphIInv, Block, Idle
<1>1. GraphTypeOK'
  BY DEF GraphTypeOK
<1>2. RunningOK'
  BY DEF RunningOK, Unfollowing
<1>3. BlockSupersedes'
  <2> SUFFICES ASSUME NEW f \in follows, Blocked(f[1], f[2])'
               PROVE f \in over \/ f \in Edge(a, b)
    BY Running DEF BlockSupersedes
  <2>1. f = <<f[1], f[2]>>
    BY DEF GraphTypeOK
  <2>2. CASE Blocked(f[1], f[2])
    BY <2>2 DEF GraphConsistent, BlockSupersedes
  <2>3. CASE ~Blocked(f[1], f[2])
    BY <2>1, <2>3 DEF Blocked, Edge
  <2> QED
    BY <2>2, <2>3
<1>4. PrivacyAsTold'
  BY DEF GraphConsistent, PrivacyAsTold
<1> QED
  BY <1>1, <1>2, <1>3, <1>4 DEF GraphConsistent

LEMMA UnblockKeeps ==
  ASSUME GraphIInv, NEW a \in Users, NEW b \in Users, Unblock(a, b)
  PROVE  GraphIInv'
<1> USE DEF GraphIInv, Unblock, Idle
<1>1. GraphTypeOK'
  BY DEF GraphTypeOK
<1>2. RunningOK'
  BY DEF RunningOK
<1>3. BlockSupersedes'
  <2> SUFFICES ASSUME NEW f \in follows, Blocked(f[1], f[2])'
               PROVE f \in over'
    BY DEF BlockSupersedes
  <2>1. f = <<f[1], f[2]>> /\ f \in over
    BY DEF GraphTypeOK, GraphConsistent, BlockSupersedes, Blocked
  <2>2. CASE Blocked(b, a)'
    BY <2>1, <2>2
  <2>3. CASE ~Blocked(b, a)'
    BY <2>1, <2>3 DEF Blocked, Edge
  <2> QED
    BY <2>2, <2>3
<1>4. PrivacyAsTold'
  BY DEF GraphConsistent, PrivacyAsTold
<1> QED
  BY <1>1, <1>2, <1>3, <1>4 DEF GraphConsistent

LEMMA PrivacyRequestsKeep ==
  ASSUME GraphIInv, NEW u \in Users, NEW v \in {"public", "private", "absent"},
         PatchMe(u, v) \/ PatchPrivacy(u, v)
  PROVE  GraphIInv'
<1>1. CASE PatchMe(u, v)
  <2> USE <1>1 DEF GraphIInv, PatchMe, SetPrivate, Idle
  <2>1. GraphTypeOK'
    BY DEF GraphTypeOK
  <2>2. RunningOK'
    BY DEF RunningOK
  <2>3. BlockSupersedes'
    BY DEF GraphConsistent, BlockSupersedes, Blocked
  <2>4. PrivacyAsTold'
    BY DEF GraphTypeOK, GraphConsistent, PrivacyAsTold
  <2> QED
    BY <2>1, <2>2, <2>3, <2>4 DEF GraphConsistent
<1>2. CASE PatchPrivacy(u, v)
  <2> USE <1>2 DEF GraphIInv, PatchPrivacy, Idle
  <2>1. GraphTypeOK'
    BY DEF GraphTypeOK
  <2>2. RunningOK'
    BY DEF RunningOK, Hiding
  <2>3. BlockSupersedes'
    BY DEF GraphConsistent, BlockSupersedes, Blocked
  <2>4. PrivacyAsTold'
    BY DEF GraphTypeOK, GraphConsistent, PrivacyAsTold
  <2> QED
    BY <2>1, <2>2, <2>3, <2>4 DEF GraphConsistent
<1> QED
  BY <1>1, <1>2

LEMMA StatementKeeps ==
  ASSUME GraphIInv, GraphStatement
  PROVE  GraphIInv'
<1>1. CASE DropFollows
  <2> USE <1>1 DEF GraphIInv, DropFollows, Idle
  <2>1. PICK a, b \in Users : running = <<"unfollow", a, b>>
    BY Running DEF RunningOK, Unfollowing, Hiding, Telling, Tagging
  <2>2. GraphTypeOK'
    BY DEF GraphTypeOK
  <2>3. RunningOK'
    BY DEF RunningOK
  <2>4. BlockSupersedes'
    BY <2>1, Running DEF GraphConsistent, BlockSupersedes, Blocked
  <2>5. PrivacyAsTold'
    BY <2>1, Running DEF GraphConsistent, PrivacyAsTold
  <2> QED
    BY <2>2, <2>3, <2>4, <2>5 DEF GraphConsistent
<1>2. CASE PatchUsers
  <2> USE <1>2 DEF GraphIInv, PatchUsers, SetPrivate, Idle
  <2>1. PICK u \in Users, v \in {"public", "private"} : running = <<"users", u, v>>
    BY Running DEF RunningOK, Unfollowing, Hiding, Telling, Tagging
  <2>2. /\ private' = IF v = "private" THEN private \cup {u} ELSE private \ {u}
        /\ running' = <<"settings", u, v>>
    BY <2>1, Running
  <2>3. GraphTypeOK'
    BY <2>2 DEF GraphTypeOK
  <2>4. RunningOK'
    BY <2>2 DEF RunningOK, Telling
  <2>5. BlockSupersedes'
    BY <2>1, Running DEF GraphConsistent, BlockSupersedes, Blocked
  <2>6. PrivacyAsTold'
    BY <2>1, <2>2, Running DEF GraphConsistent, PrivacyAsTold
  <2> QED
    BY <2>3, <2>4, <2>5, <2>6 DEF GraphConsistent
<1>3. CASE PatchSettings
  <2> USE <1>3 DEF GraphIInv, PatchSettings, Idle
  <2>1. PICK u \in Users, v \in {"public", "private"} :
          running = <<"settings", u, v>> /\ (u \in private <=> v = "private")
    BY Running DEF RunningOK, Unfollowing, Hiding, Telling, Tagging
  <2>2. /\ settings' = [settings EXCEPT ![u] = v] /\ drifted' = drifted \ {u}
    BY <2>1, Running
  <2>3. GraphTypeOK'
    BY <2>2 DEF GraphTypeOK
  <2>4. RunningOK'
    BY DEF RunningOK
  <2>5. BlockSupersedes'
    BY <2>1, Running DEF GraphConsistent, BlockSupersedes, Blocked
  <2>6. PrivacyAsTold'
    BY <2>1, <2>2, Running DEF GraphTypeOK, GraphConsistent, PrivacyAsTold
  <2> QED
    BY <2>3, <2>4, <2>5, <2>6 DEF GraphConsistent
<1> QED
  BY <1>1, <1>2, <1>3 DEF GraphStatement

LEMMA CrashKeeps ==
  ASSUME GraphIInv, GraphCrash
  PROVE  GraphIInv'
<1> USE DEF GraphIInv, GraphCrash, graphTables, Idle
<1>1. GraphTypeOK'
  <2>1. ~Idle /\ running[1] = "settings" => running[2] \in Users
    BY Running DEF RunningOK, Unfollowing, Hiding, Telling, Tagging
  <2> QED
    BY <2>1 DEF GraphTypeOK
<1>2. RunningOK'
  BY DEF RunningOK
<1>3. BlockSupersedes'
  BY DEF GraphConsistent, BlockSupersedes, Blocked
<1>4. PrivacyAsTold'
  BY DEF GraphConsistent, PrivacyAsTold
<1> QED
  BY <1>1, <1>2, <1>3, <1>4 DEF GraphConsistent

(* Jobs that do not touch the graph.                                       *)
LEMMA ElsewhereKeeps ==
  ASSUME GraphIInv, UNCHANGED graphVars,
         \/ UNCHANGED running
         \/ Idle /\ Tagging'
         \/ Tagging /\ Idle'
  PROVE  GraphIInv'
<1> USE DEF GraphIInv, graphVars, graphTables
<1>1. GraphTypeOK'
  BY DEF GraphTypeOK
<1>2. RunningOK'
  BY DEF RunningOK, Idle, Unfollowing, Hiding, Telling, Tagging
<1>3. BlockSupersedes' /\ PrivacyAsTold'
  <2>1. CASE UNCHANGED running
    BY <2>1 DEF GraphConsistent, BlockSupersedes, PrivacyAsTold, Blocked, Idle
  <2>2. CASE Idle \/ Tagging
    BY <2>2, Running DEF GraphConsistent, BlockSupersedes, PrivacyAsTold, Blocked, Idle, Tagging
  <2> QED
    BY <2>1, <2>2
<1> QED
  BY <1>1, <1>2, <1>3 DEF GraphConsistent

LEMMA GraphInvariance ==
  ASSUME GraphIInv, [ContentNext]_contentVars
  PROVE  GraphIInv'
<1>1. CASE UNCHANGED contentVars
  BY <1>1, ElsewhereKeeps DEF contentVars
<1>2. ASSUME NEW u \in Users, NEW what \in Uploads, CallPost(u, what) PROVE GraphIInv'
  BY <1>2, ElsewhereKeeps DEF CallPost, Called
<1>3. ASSUME NEW u \in Users, NEW what \in Uploads, NEW ttl \in 1..StoryTtl,
             CallStory(u, what, ttl) PROVE GraphIInv'
  BY <1>3, ElsewhereKeeps DEF CallStory, Called
<1>4. ASSUME NEW t \in DOMAIN tasks, RunTask(t) PROVE GraphIInv'
  <2>1. CASE PostJob(t)
    <3>1. running' = << >> \/ running' = <<"tags", t>>
      BY <2>1 DEF PostJob
    <3> QED
      BY <2>1, <3>1, ElsewhereKeeps DEF PostJob, Idle, Tagging
  <2>2. CASE StoryJob(t) \/ Pin(t) \/ HangUp(t)
    BY <2>2, ElsewhereKeeps DEF StoryJob, Pin, HangUp
  <2> QED
    BY <1>4, <2>1, <2>2 DEF RunTask
<1>5. ASSUME NEW a \in Users, NEW b \in Users, GraphRequest(a, b) PROVE GraphIInv'
  BY <1>5, FollowKeeps, UnfollowKeeps, BlockKeeps, UnblockKeeps DEF GraphRequest
<1>6. ASSUME NEW u \in Users, NEW v \in {"public", "private", "absent"}, PrivacyRequest(u, v)
      PROVE GraphIInv'
  BY <1>6, PrivacyRequestsKeep DEF PrivacyRequest
<1>7. ASSUME NEW p \in DOMAIN posts, NEW u \in Users, EditRequest(p, u) \/ SaveRequest(p, u)
      PROVE GraphIInv'
  <2>1. UNCHANGED <<graphVars, running>>
    BY <1>7 DEF EditRequest, AuthorEdits, SoftDelete, HardDelete, Archive, Unarchive, Restore,
                SaveRequest, Save, Unsave, postsOnly
  <2> QED
    BY <2>1, ElsewhereKeeps
<1>8. ASSUME NEW c \in Cids, MediaAnnounce(c) PROVE GraphIInv'
  BY <1>8, ElsewhereKeeps DEF MediaAnnounce
<1>9. CASE ReportUser
  BY <1>9, ElsewhereKeeps DEF ReportUser
<1>10. ASSUME NEW list \in ListNames, NEW me \in Users, NEW of \in Users, Reading(list, me, of)
       PROVE GraphIInv'
  BY <1>10, ElsewhereKeeps DEF Reading, AskList
<1>11. CASE PageStep
  BY <1>11, ElsewhereKeeps DEF PageStep, WalkStep, CheckGrid, ReadPage
<1>12. CASE GraphJob
  BY <1>12, StatementKeeps DEF GraphJob
<1>13. CASE TagStatement
  <2>1. Tagging /\ Idle'
    BY <1>13, Running DEF TagStatement, GraphIInv, RunningOK, Idle, Unfollowing, Hiding,
                          Telling, Tagging
  <2> QED
    BY <1>13, <2>1, ElsewhereKeeps DEF TagStatement
<1>14. CASE Worker \/ Sweep \/ Pass
  BY <1>14, ElsewhereKeeps DEF Worker, Sweep, Pass
<1>15. CASE Crash
  BY <1>15, CrashKeeps DEF Crash
<1> QED
  BY <1>1, <1>2, <1>3, <1>4, <1>5, <1>6, <1>7, <1>8, <1>9, <1>10, <1>11, <1>12, <1>13, <1>14,
     <1>15 DEF ContentNext

(* The tables of the graph agree, but for a follow made over a block, a    *)
(* privacy written by patch_me alone, and a job that is cut or running.    *)
THEOREM GraphConsistentAlways == ContentSpec => []GraphConsistent
<1>1. ContentInit => GraphIInv
  BY DEF ContentInit, GraphInit, GraphIInv, GraphTypeOK, RunningOK, Idle, GraphConsistent,
         BlockSupersedes, PrivacyAsTold
<1>2. GraphIInv /\ [ContentNext]_contentVars => GraphIInv'
  BY GraphInvariance
<1>3. GraphIInv => GraphConsistent
  BY DEF GraphIInv
<1> QED
  BY <1>1, <1>2, <1>3, PTL DEF ContentSpec

-----------------------------------------------------------------------------
(* The queue of pins and its worker.                                       *)

(* Cids are queued once, the batch names each once, a job that is not      *)
(* there has used no attempts, and an answer is for the first of the batch.*)
PinsOK ==
  /\ PinningTypeOK /\ JobsConsistent
  /\ \A i, j \in DOMAIN jobs : jobs[i] = jobs[j] => i = j
  /\ \A i, j \in DOMAIN work : work[i][1] = work[j][1] => i = j
  /\ \A c \in Cids : status[c] = "none" => attempts[c] = 0
  /\ answer # "none" => work # << >>
  /\ answer = "ok" => work[1][1] \in remote

(* SetToSeq lists each element of a finite set once.                       *)
LEMMA SetListed ==
  ASSUME NEW S, IsFiniteSet(S)
  PROVE  LET s == SetToSeq(S) IN
         /\ s \in Seq(S)
         /\ \A i, j \in DOMAIN s : s[i] = s[j] => i = j
         /\ \A c \in S : \E i \in 1..Len(s) : s[i] = c
<1>. DEFINE n == Cardinality(S)
            s == SetToSeq(S)
<1>1. n \in Nat /\ ExistsBijection(1..n, S)
  BY FS_CardinalityType
<1>2. \E f \in [1..n -> S] : IsInjective(f)
  BY <1>1 DEF ExistsBijection, Bijection, Injection, IsInjective
<1>3. s \in [1..n -> S] /\ IsInjective(s)
  BY <1>2 DEF SetToSeq
<1>4. s \in Seq(S) /\ Len(s) = n /\ DOMAIN s = 1..n
  BY <1>1, <1>3
<1>5. IsFiniteSet(1..n) /\ Cardinality(1..n) = n
  BY <1>1, FS_Interval
<1>6. s \in Injection(1..n, S)
  BY <1>3 DEF Injection
<1>7. s \in Surjection(1..n, S)
  <2>. HIDE DEF s, n
  <2>. QED  BY <1>5, <1>6, FS_Injection DEF n
<1>. HIDE DEF s, n
<1>. QED  BY <1>3, <1>4, <1>7 DEF IsInjective, Surjection, s

LEMMA InitPins ==
  ASSUME NEW cids \in SUBSET Cids, IsFiniteSet(cids), PinnedInit(cids)
  PROVE  PinsOK
<1>1. /\ jobs \in Seq(cids)
      /\ \A i, j \in DOMAIN jobs : jobs[i] = jobs[j] => i = j
      /\ \A c \in cids : \E i \in 1..Len(jobs) : jobs[i] = c
  BY SetListed DEF PinnedInit
<1>2. /\ status = [c \in Cids |-> IF c \in cids THEN "pinned" ELSE "none"]
      /\ attempts = [c \in Cids |-> IF c \in cids THEN 1 ELSE 0]
      /\ work = << >> /\ answer = "none" /\ remote = cids
  BY DEF PinnedInit
<1>3. jobs \in Seq(Cids) /\ \A i \in 1..Len(jobs) : jobs[i] \in cids
  BY <1>1
<1>4. PinningTypeOK
  BY <1>2, <1>3, PinningAssumption DEF PinningTypeOK
<1>5. JobsConsistent
  BY <1>1, <1>2, <1>3 DEF JobsConsistent
<1>. QED  BY <1>1, <1>2, <1>4, <1>5 DEF PinsOK

LEMMA EnqueueKeepsPins ==
  ASSUME PinsOK, NEW c \in Cids, Enqueue(c)
  PROVE  PinsOK'
<1>1. UNCHANGED <<attempts, work, answer, remote>>
  BY DEF Enqueue, pinWorker
<1>2. /\ jobs \in Seq(Cids) /\ DOMAIN jobs = 1..Len(jobs) /\ Len(jobs) \in Nat
      /\ status \in [Cids -> {"none", "pending", "pinned", "failed"}]
  BY DEF PinsOK, PinningTypeOK
<1>3. CASE status[c] # "none"
  <2>1. UNCHANGED <<jobs, status>>
    BY <1>3 DEF Enqueue
  <2>. QED  BY <1>1, <2>1 DEF PinsOK, PinningTypeOK, JobsConsistent
<1>4. CASE status[c] = "none"
  <2>1. jobs' = Append(jobs, c) /\ status' = [status EXCEPT ![c] = "pending"]
    BY <1>4 DEF Enqueue
  <2>2. /\ jobs' \in Seq(Cids) /\ Len(jobs') = Len(jobs) + 1 /\ DOMAIN jobs' = 1..Len(jobs')
        /\ \A i \in 1..Len(jobs) : jobs'[i] = jobs[i]
        /\ jobs'[Len(jobs')] = c
    BY <1>2, <2>1
  <2>3. \A i \in 1..Len(jobs) : jobs[i] # c
    BY <1>4 DEF PinsOK, JobsConsistent
  <2>4. \A i, j \in DOMAIN jobs' : jobs'[i] = jobs'[j] => i = j
    <3>1. \A i \in DOMAIN jobs' : (i \in DOMAIN jobs /\ jobs'[i] = jobs[i]) \/ i = Len(jobs')
      BY <1>2, <2>2
    <3>. QED  BY <1>2, <2>2, <2>3, <3>1 DEF PinsOK
  <2>5. /\ status'[c] = "pending" /\ attempts[c] = 0
        /\ \A d \in Cids : d # c => status'[d] = status[d]
    BY <1>2, <1>4, <2>1 DEF PinsOK
  <2>6. PinningTypeOK'
    BY <1>1, <1>2, <2>1, <2>2 DEF PinsOK, PinningTypeOK
  <2>7. JobsConsistent'
    <3>1. \A d \in Cids : /\ status'[d] = "pinned" => d \in remote
                          /\ status'[d] = "failed" => attempts[d] = MaxAttempts
                          /\ status'[d] = "pending" => attempts[d] < MaxAttempts
      BY <2>5, PinningAssumption DEF PinsOK, JobsConsistent
    <3>2. \A d \in Cids : status'[d] # "none" <=> \E i \in 1..Len(jobs') : jobs'[i] = d
      <4>1. ASSUME NEW d \in Cids, NEW i \in 1..Len(jobs'), jobs'[i] = d
            PROVE  d = c \/ \E j \in 1..Len(jobs) : jobs[j] = d
        BY <1>2, <2>2, <4>1
      <4>2. ASSUME NEW d \in Cids, NEW i \in 1..Len(jobs), jobs[i] = d
            PROVE  \E j \in 1..Len(jobs') : jobs'[j] = d
        <5>1. i \in 1..Len(jobs') /\ jobs'[i] = d
          BY <1>2, <2>2, <4>2
        <5>. QED  BY <5>1
      <4>3. \E j \in 1..Len(jobs') : jobs'[j] = c
        <5>1. Len(jobs') \in 1..Len(jobs')
          BY <1>2, <2>2
        <5>. QED  BY <2>2, <5>1
      <4>. QED  BY <2>5, <4>1, <4>2, <4>3 DEF PinsOK, JobsConsistent
    <3>3. \A i \in 1..Len(work) : status'[work[i][1]] = "pending"
                                  /\ attempts[work[i][1]] = work[i][2]
      <4>. SUFFICES ASSUME NEW i \in 1..Len(work)
                    PROVE  status'[work[i][1]] = "pending" /\ attempts[work[i][1]] = work[i][2]
        OBVIOUS
      <4>1. status[work[i][1]] = "pending" /\ attempts[work[i][1]] = work[i][2]
        BY DEF PinsOK, JobsConsistent
      <4>2. work[i][1] \in Cids
        BY DEF PinsOK, PinningTypeOK
      <4>. QED  BY <1>4, <2>5, <4>1, <4>2
    <3>. QED  BY <1>1, <3>1, <3>2, <3>3 DEF JobsConsistent
  <2>. QED  BY <1>1, <2>4, <2>5, <2>6, <2>7 DEF PinsOK
<1>. QED  BY <1>3, <1>4

LEMMA PollKeepsPins ==
  ASSUME PinsOK, Poll
  PROVE  PinsOK'
<1>1. PICK k \in 1..Batch : \E s \in [1..k -> DOMAIN jobs] :
        Due(k, s) /\ work' = [i \in 1..k |-> <<jobs[s[i]], attempts[jobs[s[i]]]>>]
  BY DEF Poll
<1>2. PICK s \in [1..k -> DOMAIN jobs] :
        Due(k, s) /\ work' = [i \in 1..k |-> <<jobs[s[i]], attempts[jobs[s[i]]]>>]
  BY <1>1
<1>3. work = << >> /\ UNCHANGED <<jobs, status, attempts, answer, remote>>
  BY DEF Poll, pinTable
<1>4. k \in Nat
  BY <1>1, PinningAssumption
<1>5. /\ \A i \in 1..k : Eligible(jobs[s[i]])
      /\ \A i \in 1..k : \A j \in 1..(i - 1) : s[j] < s[i]
  BY <1>2 DEF Due
<1>6. jobs \in Seq(Cids) /\ DOMAIN jobs = 1..Len(jobs) /\ attempts \in [Cids -> 0..MaxAttempts]
  BY DEF PinsOK, PinningTypeOK
<1>7. \A i \in 1..k : /\ jobs[s[i]] \in Cids /\ status[jobs[s[i]]] = "pending"
                      /\ attempts[jobs[s[i]]] \in 0..(MaxAttempts - 1)
  BY <1>2, <1>5, <1>6, PinningAssumption DEF Eligible
<1>8. \A i, j \in 1..k : i # j => s[i] # s[j]
  <2>. SUFFICES ASSUME NEW i \in 1..k, NEW j \in 1..k, i # j, s[i] = s[j]
                PROVE  FALSE
    OBVIOUS
  <2>1. j \in 1..(i - 1) \/ i \in 1..(j - 1)
    BY <1>4
  <2>2. s[i] \in 1..Len(jobs) /\ s[j] \in 1..Len(jobs) /\ Len(jobs) \in Nat
    BY <1>2, <1>6
  <2>. QED  BY <1>5, <2>1, <2>2
<1>9. /\ work' \in Seq(Cids \X (0..(MaxAttempts - 1))) /\ Len(work') = k /\ DOMAIN work' = 1..k
      /\ \A i \in 1..k : work'[i][1] = jobs[s[i]] /\ work'[i][2] = attempts[jobs[s[i]]]
  BY <1>2, <1>4, <1>7
<1>10. \A i, j \in DOMAIN work' : work'[i][1] = work'[j][1] => i = j
  BY <1>2, <1>8, <1>9 DEF PinsOK
<1>11. PinningTypeOK'
  BY <1>3, <1>9 DEF PinsOK, PinningTypeOK
<1>12. JobsConsistent'
  BY <1>3, <1>7, <1>9 DEF PinsOK, JobsConsistent
<1>13. answer = "none"
  BY <1>3 DEF PinsOK
<1>. QED  BY <1>3, <1>10, <1>11, <1>12, <1>13 DEF PinsOK, PinningTypeOK

LEMMA PinByCidKeepsPins ==
  ASSUME PinsOK, PinByCid
  PROVE  PinsOK'
<1>1. /\ work # << >> /\ UNCHANGED <<jobs, status, attempts, work>>
      /\ answer' \in {"ok", "error"} /\ remote' \in {remote, remote \cup {Head(work)[1]}}
      /\ answer' = "ok" => remote' = remote \cup {Head(work)[1]}
  BY DEF PinByCid, pinTable
<1>2. Head(work) = work[1] /\ work[1] \in Cids \X (0..(MaxAttempts - 1))
  BY <1>1 DEF PinsOK, PinningTypeOK
<1>. QED  BY <1>1, <1>2 DEF PinsOK, PinningTypeOK, JobsConsistent

LEMMA WriteBackKeepsPins ==
  ASSUME PinsOK, WriteBack
  PROVE  PinsOK'
<1>. DEFINE c == work[1][1]
            n == work[1][2] + 1
<1>1. answer # "none" /\ work # << >> /\ work \in Seq(Cids \X (0..(MaxAttempts - 1)))
  BY DEF WriteBack, PinsOK, PinningTypeOK
<1>2. Head(work) = work[1] /\ 1 \in DOMAIN work /\ work[1] \in Cids \X (0..(MaxAttempts - 1))
  BY <1>1
<1>3. c \in Cids /\ n \in 1..MaxAttempts
  BY <1>2, PinningAssumption
<1>4. /\ attempts' = [attempts EXCEPT ![c] = n]
      /\ status' = [status EXCEPT ![c] = NextStatus(n)]
      /\ work' = Tail(work) /\ answer' = "none" /\ UNCHANGED <<jobs, remote>>
  BY <1>2 DEF WriteBack
<1>5. /\ Len(work) \in Nat \ {0} /\ DOMAIN work = 1..Len(work)
      /\ work' \in Seq(Cids \X (0..(MaxAttempts - 1))) /\ Len(work') = Len(work) - 1
      /\ DOMAIN work' = 1..Len(work')
      /\ \A i \in 1..Len(work') : work'[i] = work[i + 1] /\ i + 1 \in DOMAIN work /\ i + 1 # 1
  BY <1>1, <1>4
<1>6. /\ NextStatus(n) \in {"pending", "pinned", "failed"}
      /\ NextStatus(n) = "pinned" => answer = "ok"
      /\ NextStatus(n) = "failed" => n = MaxAttempts
      /\ NextStatus(n) = "pending" => n < MaxAttempts
  BY <1>3, PinningAssumption DEF NextStatus
<1>. HIDE DEF c, n
<1>7. /\ attempts'[c] = n /\ status'[c] = NextStatus(n)
      /\ \A d \in Cids : d # c => attempts'[d] = attempts[d] /\ status'[d] = status[d]
      /\ attempts' \in [Cids -> 0..MaxAttempts]
      /\ status' \in [Cids -> {"none", "pending", "pinned", "failed"}]
  <2>1. /\ attempts \in [Cids -> 0..MaxAttempts] /\ n \in 0..MaxAttempts
        /\ status \in [Cids -> {"none", "pending", "pinned", "failed"}]
    BY <1>3, PinningAssumption DEF PinsOK, PinningTypeOK
  <2>2. /\ attempts'[c] = n /\ \A d \in Cids : d # c => attempts'[d] = attempts[d]
        /\ attempts' \in [Cids -> 0..MaxAttempts]
    BY <1>3, <1>4, <2>1
  <2>3. PICK st \in {"pending", "pinned", "failed"} : st = NextStatus(n)
    BY <1>6
  <2>4. status' = [status EXCEPT ![c] = st]
    BY <1>4, <2>3
  <2>5. /\ status'[c] = st /\ \A d \in Cids : d # c => status'[d] = status[d]
        /\ status' \in [Cids -> {"none", "pending", "pinned", "failed"}]
    BY <1>3, <2>1, <2>4
  <2>. QED  BY <2>2, <2>3, <2>5
<1>8. PinningTypeOK'
  BY <1>4, <1>5, <1>7 DEF PinsOK, PinningTypeOK
<1>9. \A i \in 1..Len(work') : work'[i][1] # c
  BY <1>2, <1>5 DEF PinsOK, c
<1>10. JobsConsistent'
  <2>1. answer = "ok" => c \in remote
    BY DEF PinsOK, c
  <2>2. \A d \in Cids : /\ status'[d] = "pinned" => d \in remote
                        /\ status'[d] = "failed" => attempts'[d] = MaxAttempts
                        /\ status'[d] = "pending" => attempts'[d] < MaxAttempts
    BY <1>6, <1>7, <2>1 DEF PinsOK, JobsConsistent
  <2>3. status[c] = "pending"
    BY <1>2, <1>5 DEF PinsOK, JobsConsistent, c
  <2>4. \A d \in Cids : status'[d] # "none" <=> status[d] # "none"
    BY <1>6, <1>7, <2>3
  <2>5. ASSUME NEW i \in 1..Len(work')
        PROVE  status'[work'[i][1]] = "pending" /\ attempts'[work'[i][1]] = work'[i][2]
    <3>1. work'[i][1] # c /\ work'[i][1] \in Cids
      BY <1>5, <1>9
    <3>2. status[work'[i][1]] = "pending" /\ attempts[work'[i][1]] = work'[i][2]
      BY <1>5 DEF PinsOK, JobsConsistent
    <3>. QED  BY <1>7, <3>1, <3>2
  <2>. QED  BY <1>4, <2>2, <2>4, <2>5 DEF PinsOK, JobsConsistent
<1>11. \A i, j \in DOMAIN work' : work'[i][1] = work'[j][1] => i = j
  <2>. SUFFICES ASSUME NEW i \in DOMAIN work', NEW j \in DOMAIN work', work'[i][1] = work'[j][1]
                PROVE  i = j
    OBVIOUS
  <2>1. i \in Nat /\ j \in Nat /\ i + 1 \in DOMAIN work /\ j + 1 \in DOMAIN work
    BY <1>5
  <2>2. work[i + 1][1] = work[j + 1][1]
    BY <1>5
  <2>3. \A h, k \in DOMAIN work : work[h][1] = work[k][1] => h = k
    BY DEF PinsOK
  <2>4. i + 1 = j + 1
    BY <2>1, <2>2, <2>3
  <2>. QED  BY <2>1, <2>4
<1>12. \A d \in Cids : status'[d] = "none" => attempts'[d] = 0
  BY <1>6, <1>7 DEF PinsOK
<1>. QED  BY <1>4, <1>8, <1>10, <1>11, <1>12 DEF PinsOK

LEMMA CrashKeepsPins ==
  ASSUME PinsOK, PinningCrash
  PROVE  PinsOK'
<1>1. work' = << >> /\ answer' = "none" /\ UNCHANGED <<jobs, status, attempts, remote>>
  BY DEF PinningCrash, pinTable
<1>. QED  BY <1>1 DEF PinsOK, PinningTypeOK, JobsConsistent

LEMMA RestKeepsPins ==
  ASSUME PinsOK, UNCHANGED pinVars
  PROVE  PinsOK'
  BY DEF PinsOK, PinningTypeOK, JobsConsistent, pinVars, pinTable, pinWorker

-----------------------------------------------------------------------------
(* The rows of posts and of what is saved.                                 *)

(* Rows are typed, carry no time that is yet to come, and were created     *)
(* before they were deleted; a post is saved at most once by each user.    *)
RowsOK ==
  /\ now \in Nat \ {0}
  /\ DOMAIN posts \subseteq Nat
  /\ \A p \in DOMAIN posts :
       /\ posts[p] \in Row /\ posts[p].created <= now /\ posts[p].deleted <= now
       /\ InBin(p) => posts[p].created <= posts[p].deleted
  /\ saved \subseteq Users \X (DOMAIN posts) \X Nat
  /\ \A s \in saved : s[3] <= now
  /\ \A r, s \in saved : r[1] = s[1] /\ r[2] = s[2] => r = s

LEMMA RestKeepsRows ==
  ASSUME RowsOK, UNCHANGED <<now, posts, saved>>
  PROVE  RowsOK'
  BY DEF RowsOK, InBin

LEMMA PassKeepsRows ==
  ASSUME RowsOK, now' = now + 1, UNCHANGED <<posts, saved>>
  PROVE  RowsOK'
<1>1. now' \in Nat \ {0} /\ \A n \in Nat : n <= now => n <= now'
  BY DEF RowsOK
<1>2. \A p \in DOMAIN posts : posts[p].created \in Nat /\ posts[p].deleted \in Nat
  BY DEF RowsOK, Row
<1>3. \A s \in saved : s[3] \in Nat
  BY DEF RowsOK
<1>. QED  BY <1>1, <1>2, <1>3 DEF RowsOK, InBin

LEMMA UpdateKeepsRows ==
  ASSUME RowsOK, UNCHANGED <<now, saved>>,
         NEW p \in DOMAIN posts, NEW row \in Row, posts' = [posts EXCEPT ![p] = row],
         row.created <= now, row.deleted <= now, row.deleted # 0 => row.created <= row.deleted
  PROVE  RowsOK'
<1>1. /\ DOMAIN posts' = DOMAIN posts /\ posts'[p] = row
      /\ \A q \in DOMAIN posts : q # p => posts'[q] = posts[q]
  OBVIOUS
<1>2. \A q \in DOMAIN posts' :
        /\ posts'[q] \in Row /\ posts'[q].created <= now' /\ posts'[q].deleted <= now'
        /\ InBin(q)' => posts'[q].created <= posts'[q].deleted
  BY <1>1 DEF RowsOK, InBin
<1>. QED  BY <1>1, <1>2 DEF RowsOK

LEMMA EditsKeepRows ==
  ASSUME RowsOK, NEW p \in DOMAIN posts, NEW u \in Users, AuthorEdits(p, u)
  PROVE  RowsOK'
<1>1. /\ now \in Nat \ {0} /\ posts[p] \in Row
      /\ posts[p].created <= now /\ posts[p].deleted <= now
      /\ posts[p].deleted # 0 => posts[p].created <= posts[p].deleted
  BY DEF RowsOK, InBin
<1>2. UNCHANGED now
  BY DEF AuthorEdits, SoftDelete, HardDelete, Archive, Unarchive, Restore, postsOnly
<1>3. CASE SoftDelete(p, u)
  <2>. DEFINE row == [posts[p] EXCEPT !.deleted = now]
  <2>1. posts' = [posts EXCEPT ![p] = row] /\ UNCHANGED <<now, saved>>
    BY <1>3 DEF SoftDelete, postsOnly
  <2>2. /\ row \in Row /\ row.created = posts[p].created /\ row.deleted = now
    BY <1>1 DEF Row
  <2>. HIDE DEF row
  <2>3. row.created <= now /\ row.deleted <= now /\ (row.deleted # 0 => row.created <= row.deleted)
    BY <1>1, <2>2
  <2>. QED  BY <2>1, <2>2, <2>3, UpdateKeepsRows
<1>4. CASE Restore(p, u)
  <2>. DEFINE row == [posts[p] EXCEPT !.deleted = 0]
  <2>1. posts' = [posts EXCEPT ![p] = row] /\ UNCHANGED <<now, saved>>
    BY <1>4 DEF Restore, postsOnly
  <2>2. /\ row \in Row /\ row.created = posts[p].created /\ row.deleted = 0
    BY <1>1 DEF Row
  <2>. HIDE DEF row
  <2>3. row.created <= now /\ row.deleted <= now /\ (row.deleted # 0 => row.created <= row.deleted)
    BY <1>1, <2>2
  <2>. QED  BY <2>1, <2>2, <2>3, UpdateKeepsRows
<1>5. CASE Archive(p, u) \/ Unarchive(p, u)
  <2>1. PICK b \in BOOLEAN : posts' = [posts EXCEPT ![p].archived = b]
    BY <1>5 DEF Archive, Unarchive
  <2>. DEFINE row == [posts[p] EXCEPT !.archived = b]
  <2>2. posts' = [posts EXCEPT ![p] = row] /\ UNCHANGED <<now, saved>>
    BY <1>5, <2>1 DEF Archive, Unarchive, postsOnly
  <2>3. row \in Row /\ row.created = posts[p].created /\ row.deleted = posts[p].deleted
    BY <1>1 DEF Row
  <2>. HIDE DEF row
  <2>. QED  BY <1>1, <2>2, <2>3, UpdateKeepsRows
<1>6. CASE HardDelete(p, u)
  <2>1. /\ posts' = [q \in DOMAIN posts \ {p} |-> posts[q]] /\ UNCHANGED <<now, saved>>
        /\ \A s \in saved : s[2] # p
    BY <1>6 DEF HardDelete, postsOnly
  <2>2. /\ DOMAIN posts' = DOMAIN posts \ {p}
        /\ \A q \in DOMAIN posts' : q \in DOMAIN posts /\ posts'[q] = posts[q]
    BY <2>1
  <2>3. saved' \subseteq Users \X (DOMAIN posts') \X Nat
    BY <2>1, <2>2 DEF RowsOK
  <2>4. \A q \in DOMAIN posts' :
          /\ posts'[q] \in Row /\ posts'[q].created <= now' /\ posts'[q].deleted <= now'
          /\ InBin(q)' => posts'[q].created <= posts'[q].deleted
    BY <2>1, <2>2 DEF RowsOK, InBin
  <2>. QED  BY <2>1, <2>2, <2>3, <2>4 DEF RowsOK
<1>. QED  BY <1>3, <1>4, <1>5, <1>6 DEF AuthorEdits

LEMMA SavesKeepRows ==
  ASSUME RowsOK, NEW p \in DOMAIN posts, NEW u \in Users, Save(p, u) \/ Unsave(p, u)
  PROVE  RowsOK'
<1>1. UNCHANGED <<now, posts>> /\ now \in Nat
  BY DEF Save, Unsave, RowsOK
<1>2. saved' \subseteq saved \/ (saved' = saved \cup {<<u, p, now>>} /\ Saves(p, u) = {})
  BY DEF Save, Unsave
<1>3. CASE saved' \subseteq saved
  BY <1>1, <1>3 DEF RowsOK, InBin
<1>4. CASE saved' = saved \cup {<<u, p, now>>} /\ Saves(p, u) = {}
  <2>1. saved' \subseteq Users \X (DOMAIN posts) \X Nat /\ \A s \in saved' : s[3] <= now
    BY <1>1, <1>4 DEF RowsOK
  <2>2. \A r, s \in saved' : r[1] = s[1] /\ r[2] = s[2] => r = s
    BY <1>4 DEF RowsOK, Saves
  <2>. QED  BY <1>1, <2>1, <2>2 DEF RowsOK, InBin
<1>. QED  BY <1>2, <1>3, <1>4

LEMMA PostJobKeepsRows ==
  ASSUME RowsOK, NEW t \in Nat \ DOMAIN posts, NEW row \in Row, UNCHANGED <<now, saved>>,
         posts' = [q \in DOMAIN posts \cup {t} |-> IF q = t THEN row ELSE posts[q]],
         row.created = now, row.deleted = 0
  PROVE  RowsOK'
<1>1. /\ DOMAIN posts' = DOMAIN posts \cup {t} /\ posts'[t] = row
      /\ \A q \in DOMAIN posts : posts'[q] = posts[q]
  OBVIOUS
<1>2. \A q \in DOMAIN posts' :
        /\ posts'[q] \in Row /\ posts'[q].created <= now' /\ posts'[q].deleted <= now'
        /\ InBin(q)' => posts'[q].created <= posts'[q].deleted
  BY <1>1 DEF RowsOK, InBin
<1>3. saved' \subseteq Users \X (DOMAIN posts') \X Nat
  BY <1>1 DEF RowsOK
<1>. QED  BY <1>1, <1>2, <1>3 DEF RowsOK

-----------------------------------------------------------------------------
(* Requests that publish.                                                  *)

TagsOf(t) == <<"tags", t>>

(* Whose job has run has a row; whose job is running waits for it, unless  *)
(* it was dropped meanwhile.                                               *)
TasksOK ==
  /\ tasks \in Seq(Task)
  /\ \A t \in DOMAIN posts :
       t \in DOMAIN tasks /\ tasks[t].kind = "post" /\ tasks[t].pc # "called"
  /\ \A t \in stories :
       t \in DOMAIN tasks /\ tasks[t].kind = "story" /\ tasks[t].pc # "called"
  /\ \A t \in DOMAIN tasks :
       /\ tasks[t].pc = "job" => running = TagsOf(t)
       /\ tasks[t].pc = "thumb" => tasks[t].kind = "post" /\ tasks[t].what.thumb # Thumbless
  /\ \A t : running = TagsOf(t) =>
       t \in DOMAIN posts /\ tasks[t].what.tagged /\ tasks[t].pc \in {"job", "cut"}

(* What has been enqueued at each stage, and what of it shows.             *)
StagesOK ==
  /\ \A t \in DOMAIN posts :
       posts[t].tagged = tasks[t].what.tagged \/ running = TagsOf(t) \/ tasks[t].pc = "lost"
  /\ \A t \in DOMAIN tasks :
       /\ tasks[t].pc \in {"thumb", "done"} => Queued(tasks[t].what.media)
       /\ tasks[t].pc = "done" /\ tasks[t].kind = "post" => Queued(tasks[t].what.thumb)
       /\ tasks[t].kind = "story" /\ tasks[t].pc \in {"media", "done"} =>
            t \in stories \/ tasks[t].expires < now

PublishOK == TasksOK /\ StagesOK

(* A job that was inserted stays in the table.                             *)
JobsStay == \A c \in Cids : status[c] # "none" => status'[c] # "none"

TagsStay == \A t : running' = TagsOf(t) <=> running = TagsOf(t)

LEMMA TaskFields ==
  \A w : w \in Task => /\ w.what.media \in Cids /\ w.what.thumb \in Cids \cup {Thumbless}
                       /\ w.expires \in Nat /\ w.kind \in {"post", "story"}
                       /\ w.what \in Uploads
  BY ContentAssumption DEF Task

LEMMA QueuedStays ==
  ASSUME JobsStay, NEW c \in Cids \cup {Thumbless}, Queued(c)
  PROVE  Queued(c)'
  BY DEF JobsStay, Queued

(* Steps of others: rows of posts may go, never one that is being tagged.  *)
LEMMA RestKeepsPublish ==
  ASSUME PublishOK, UNCHANGED <<tasks, stories>>, JobsStay, TagsStay,
         now \in Nat, now' \in {now, now + 1},
         DOMAIN posts' \subseteq DOMAIN posts, \A t : running = TagsOf(t) => t \in DOMAIN posts',
         \A t \in DOMAIN posts' : posts'[t].tagged = posts[t].tagged
  PROVE  PublishOK'
<1>1. TasksOK'
  BY DEF PublishOK, TasksOK, TagsStay, TagsOf
<1>2. ASSUME NEW t \in DOMAIN tasks
      PROVE  /\ tasks[t].pc \in {"thumb", "done"} => Queued(tasks[t].what.media)'
             /\ tasks[t].pc = "done" /\ tasks[t].kind = "post" => Queued(tasks[t].what.thumb)'
             /\ tasks[t].kind = "story" /\ tasks[t].pc \in {"media", "done"} =>
                  t \in stories \/ tasks[t].expires < now'
  <2>1. tasks[t] \in Task
    BY DEF PublishOK, TasksOK
  <2>2. tasks'[t] = tasks[t]
    OBVIOUS
  <2>3. /\ tasks[t].pc \in {"thumb", "done"} => Queued(tasks[t].what.media)'
        /\ tasks[t].pc = "done" /\ tasks[t].kind = "post" => Queued(tasks[t].what.thumb)'
    BY <2>1, <2>2, TaskFields DEF PublishOK, StagesOK, Queued, JobsStay
  <2>4. tasks[t].expires \in Nat
    BY <2>1, TaskFields
  <2>5. tasks[t].kind = "story" /\ tasks[t].pc \in {"media", "done"} =>
          t \in stories \/ tasks[t].expires < now'
    BY <2>4 DEF PublishOK, StagesOK
  <2>. QED  BY <2>3, <2>5
<1>3. \A t \in DOMAIN posts' :
        posts'[t].tagged = tasks'[t].what.tagged \/ running' = TagsOf(t) \/ tasks'[t].pc = "lost"
  BY DEF PublishOK, StagesOK, TagsStay
<1>4. StagesOK'
  BY <1>2, <1>3 DEF StagesOK, TagsOf, Queued
<1>. QED  BY <1>1, <1>4 DEF PublishOK

Stages == {"called", "job", "media", "thumb", "done", "cut", "lost"}

LEMMA GotoMoves ==
  ASSUME tasks \in Seq(Task), NEW t \in DOMAIN tasks, NEW pc \in Stages, Goto(t, pc)
  PROVE  /\ tasks' \in Seq(Task) /\ Len(tasks') = Len(tasks) /\ DOMAIN tasks' = DOMAIN tasks
         /\ tasks'[t].pc = pc /\ tasks'[t].kind = tasks[t].kind /\ tasks'[t].by = tasks[t].by
         /\ tasks'[t].what = tasks[t].what /\ tasks'[t].expires = tasks[t].expires
         /\ \A u \in DOMAIN tasks : u # t => tasks'[u] = tasks[u]
<1>. DEFINE w == [tasks[t] EXCEPT !.pc = pc]
<1>1. tasks' = [tasks EXCEPT ![t] = w]
  BY DEF Goto
<1>2. /\ w \in Task /\ w.pc = pc /\ w.kind = tasks[t].kind /\ w.by = tasks[t].by
      /\ w.what = tasks[t].what /\ w.expires = tasks[t].expires
  <2>1. tasks[t] \in Task
    OBVIOUS
  <2>. QED  BY <2>1 DEF Task, Stages
<1>. HIDE DEF w
<1>3. /\ DOMAIN tasks' = DOMAIN tasks /\ tasks'[t] = w
      /\ \A u \in DOMAIN tasks : u # t => tasks'[u] = tasks[u]
  BY <1>1
<1>4. tasks' \in Seq(Task) /\ Len(tasks') = Len(tasks)
  BY <1>1, <1>2
<1>. QED  BY <1>2, <1>3, <1>4

(* What a step of one request has to see to, for all to stay in order.     *)
LEMMA MoveKeepsPublish ==
  ASSUME PublishOK, NEW t \in DOMAIN tasks, NEW pc \in Stages \ {"called"}, Goto(t, pc),
         UNCHANGED now, JobsStay,
         stories \subseteq stories', stories' \subseteq stories \cup {t},
         DOMAIN posts \subseteq DOMAIN posts', DOMAIN posts' \subseteq DOMAIN posts \cup {t},
         \A p \in DOMAIN posts' : p # t => posts'[p].tagged = posts[p].tagged,
         \A p : p # t => (running' = TagsOf(p) <=> running = TagsOf(p)),
         t \in DOMAIN posts' => /\ tasks[t].kind = "post"
                                /\ \/ posts'[t].tagged = tasks[t].what.tagged
                                   \/ running' = TagsOf(t)
                                   \/ pc = "lost",
         t \in stories' => tasks[t].kind = "story",
         pc = "job" => running' = TagsOf(t),
         pc = "thumb" => tasks[t].kind = "post" /\ tasks[t].what.thumb # Thumbless,
         running' = TagsOf(t) =>
           t \in DOMAIN posts' /\ tasks[t].what.tagged /\ pc \in {"job", "cut"},
         pc \in {"thumb", "done"} => Queued(tasks[t].what.media)',
         pc = "done" /\ tasks[t].kind = "post" => Queued(tasks[t].what.thumb)',
         tasks[t].kind = "story" /\ pc \in {"media", "done"} =>
           t \in stories' \/ tasks[t].expires < now
  PROVE  PublishOK'
<1>1. /\ tasks' \in Seq(Task) /\ DOMAIN tasks' = DOMAIN tasks
      /\ tasks'[t].pc = pc /\ tasks'[t].kind = tasks[t].kind
      /\ tasks'[t].what = tasks[t].what /\ tasks'[t].expires = tasks[t].expires
      /\ \A u \in DOMAIN tasks : u # t => tasks'[u] = tasks[u]
  BY GotoMoves DEF PublishOK, TasksOK
<1>2. \A p \in DOMAIN posts' :
        p \in DOMAIN tasks' /\ tasks'[p].kind = "post" /\ tasks'[p].pc # "called"
  BY <1>1 DEF PublishOK, TasksOK
<1>3. \A s \in stories' :
        s \in DOMAIN tasks' /\ tasks'[s].kind = "story" /\ tasks'[s].pc # "called"
  BY <1>1 DEF PublishOK, TasksOK
<1>4. \A u \in DOMAIN tasks' :
       /\ tasks'[u].pc = "job" => running' = TagsOf(u)
       /\ tasks'[u].pc = "thumb" => tasks'[u].kind = "post" /\ tasks'[u].what.thumb # Thumbless
  BY <1>1 DEF PublishOK, TasksOK
<1>5. \A u : running' = TagsOf(u) =>
        u \in DOMAIN posts' /\ tasks'[u].what.tagged /\ tasks'[u].pc \in {"job", "cut"}
  BY <1>1 DEF PublishOK, TasksOK
<1>6. TasksOK'
  BY <1>1, <1>2, <1>3, <1>4, <1>5 DEF TasksOK, TagsOf
<1>7. \A p \in DOMAIN posts' :
        posts'[p].tagged = tasks'[p].what.tagged \/ running' = TagsOf(p) \/ tasks'[p].pc = "lost"
  <2>. SUFFICES ASSUME NEW p \in DOMAIN posts', p # t
                PROVE  posts'[p].tagged = tasks'[p].what.tagged \/ running' = TagsOf(p)
                       \/ tasks'[p].pc = "lost"
    BY <1>1
  <2>1. p \in DOMAIN posts /\ tasks'[p] = tasks[p] /\ posts'[p].tagged = posts[p].tagged
    BY <1>1 DEF PublishOK, TasksOK
  <2>. QED  BY <2>1 DEF PublishOK, StagesOK
<1>8. ASSUME NEW u \in DOMAIN tasks'
      PROVE  /\ tasks'[u].pc \in {"thumb", "done"} => Queued(tasks[u].what.media)'
             /\ tasks'[u].pc = "done" /\ tasks'[u].kind = "post" => Queued(tasks[u].what.thumb)'
             /\ tasks'[u].kind = "story" /\ tasks'[u].pc \in {"media", "done"} =>
                  u \in stories' \/ tasks'[u].expires < now'
  <2>1. CASE u = t
    BY <1>1, <2>1
  <2>2. CASE u # t
    <3>1. u \in DOMAIN tasks /\ tasks'[u] = tasks[u] /\ tasks[u] \in Task
      BY <1>1, <2>2 DEF PublishOK, TasksOK
    <3>2. /\ tasks[u].pc \in {"thumb", "done"} => Queued(tasks[u].what.media)'
          /\ tasks[u].pc = "done" /\ tasks[u].kind = "post" => Queued(tasks[u].what.thumb)'
      BY <3>1, TaskFields DEF PublishOK, StagesOK, Queued, JobsStay
    <3>3. tasks[u].kind = "story" /\ tasks[u].pc \in {"media", "done"} =>
            u \in stories' \/ tasks[u].expires < now'
      BY <3>1 DEF PublishOK, StagesOK
    <3>. QED  BY <3>1, <3>2, <3>3
  <2>. QED  BY <2>1, <2>2
<1>9. \A u \in DOMAIN tasks' : tasks'[u].what = tasks[u].what
  BY <1>1
<1>10. StagesOK'
  BY <1>7, <1>8, <1>9 DEF StagesOK, TagsOf, Queued
<1>. QED  BY <1>6, <1>10 DEF PublishOK

LEMMA EnqueueQueues ==
  ASSUME PinsOK, NEW c \in Cids, Enqueue(c)
  PROVE  JobsStay /\ status'[c] # "none"
  BY DEF PinsOK, PinningTypeOK, Enqueue, JobsStay

LEMMA WorkerLeavesJobs ==
  ASSUME PinsOK, Poll \/ PinByCid \/ WriteBack
  PROVE  JobsStay
<1>1. CASE Poll \/ PinByCid
  BY <1>1 DEF Poll, PinByCid, pinTable, JobsStay
<1>2. CASE WriteBack
  <2>1. jobs' = jobs /\ JobsConsistent /\ PinningTypeOK
    BY <1>2 DEF WriteBack, PinsOK
  <2>2. JobsConsistent'
    BY <1>2, WriteBackKeepsPins DEF PinsOK
  <2>. QED  BY <2>1, <2>2 DEF JobsConsistent, JobsStay
<1>. QED  BY <1>1, <1>2

LEMMA NoTagsBetweenJobs ==
  /\ \A t : Idle => running # TagsOf(t)
  /\ \A t : Idle' => running' # TagsOf(t)
  /\ \A t, s : TagsOf(t) = TagsOf(s) => t = s
  /\ \A t : TagsOf(t) # << >> /\ TagsOf(t)[1] = "tags" /\ TagsOf(t)[2] = t
  BY DEF Idle, TagsOf

LEMMA CallKeepsPublish ==
  ASSUME PublishOK, NEW u \in Users, NEW what \in Uploads, NEW expires \in Nat,
         NEW kind \in {"post", "story"}, Called(kind, u, what, expires)
  PROVE  PublishOK'
<1>. DEFINE w == [kind |-> kind, by |-> u, what |-> what, expires |-> expires, pc |-> "called"]
            n == Len(tasks) + 1
<1>1. tasks' = Append(tasks, w) /\ UNCHANGED <<running, now, posts, stories, status>>
  BY DEF Called, pinVars, pinTable
<1>2. w \in Task /\ w.pc = "called"
  BY DEF Task
<1>. HIDE DEF w
<1>3. /\ tasks \in Seq(Task) /\ Len(tasks) \in Nat /\ DOMAIN tasks = 1..Len(tasks)
      /\ tasks' \in Seq(Task) /\ DOMAIN tasks' = 1..n
      /\ tasks'[n] = w
      /\ \A t \in DOMAIN tasks : tasks'[t] = tasks[t]
  BY <1>1, <1>2 DEF PublishOK, TasksOK
<1>4. \A t \in DOMAIN tasks' : t = n \/ (t \in DOMAIN tasks /\ tasks'[t] = tasks[t])
  BY <1>3
<1>5. n \notin DOMAIN tasks /\ DOMAIN tasks \subseteq DOMAIN tasks'
  BY <1>3
<1>. HIDE DEF n
<1>6. TasksOK'
  <2>1. \A t \in DOMAIN posts' :
          t \in DOMAIN tasks' /\ tasks'[t].kind = "post" /\ tasks'[t].pc # "called"
    BY <1>1, <1>3, <1>5 DEF PublishOK, TasksOK
  <2>2. \A t \in stories' :
          t \in DOMAIN tasks' /\ tasks'[t].kind = "story" /\ tasks'[t].pc # "called"
    BY <1>1, <1>3, <1>5 DEF PublishOK, TasksOK
  <2>3. \A t \in DOMAIN tasks' :
          /\ tasks'[t].pc = "job" => running' = TagsOf(t)
          /\ tasks'[t].pc = "thumb" => tasks'[t].kind = "post" /\ tasks'[t].what.thumb # Thumbless
    BY <1>1, <1>2, <1>3, <1>4 DEF PublishOK, TasksOK
  <2>4. \A t : running' = TagsOf(t) =>
          t \in DOMAIN posts' /\ tasks'[t].what.tagged /\ tasks'[t].pc \in {"job", "cut"}
    BY <1>1, <1>3 DEF PublishOK, TasksOK
  <2>. QED  BY <1>3, <2>1, <2>2, <2>3, <2>4 DEF TasksOK, TagsOf
<1>7. StagesOK'
  <2>1. \A t \in DOMAIN posts' :
          posts'[t].tagged = tasks'[t].what.tagged \/ running' = TagsOf(t) \/ tasks'[t].pc = "lost"
    BY <1>1, <1>3 DEF PublishOK, TasksOK, StagesOK
  <2>2. ASSUME NEW t \in DOMAIN tasks'
        PROVE  /\ tasks'[t].pc \in {"thumb", "done"} => Queued(tasks[t].what.media)'
               /\ tasks'[t].pc = "done" /\ tasks'[t].kind = "post" => Queued(tasks[t].what.thumb)'
               /\ tasks'[t].kind = "story" /\ tasks'[t].pc \in {"media", "done"} =>
                    t \in stories' \/ tasks'[t].expires < now'
    BY <1>1, <1>2, <1>3, <1>4 DEF PublishOK, StagesOK, Queued
  <2>. QED  BY <2>1, <2>2 DEF StagesOK, TagsOf, Queued
<1>. QED  BY <1>6, <1>7 DEF PublishOK

LEMMA PostJobKeepsPublish ==
  ASSUME PublishOK, NEW t \in DOMAIN tasks, PostJob(t)
  PROVE  PublishOK' /\ t \notin DOMAIN posts
<1>1. /\ Idle /\ tasks[t].kind = "post" /\ tasks[t].pc = "called"
      /\ posts' = [p \in DOMAIN posts \cup {t} |->
                     IF p = t THEN NewRow(tasks[t].by, tasks[t].what) ELSE posts[p]]
      /\ running' = IF tasks[t].what.tagged THEN TagsOf(t) ELSE << >>
      /\ Goto(t, IF tasks[t].what.tagged THEN "job" ELSE "media")
      /\ UNCHANGED <<now, stories, status>>
  BY DEF PostJob, TagsOf, pinVars, pinTable
<1>2. t \notin DOMAIN posts /\ t \notin stories /\ tasks[t].what \in Uploads
      /\ tasks[t].what.tagged \in BOOLEAN
  BY <1>1, TaskFields, ContentAssumption DEF PublishOK, TasksOK
<1>3. /\ DOMAIN posts' = DOMAIN posts \cup {t} /\ posts'[t].tagged = FALSE
      /\ \A p \in DOMAIN posts : posts'[p] = posts[p]
  BY <1>1, <1>2 DEF NewRow
<1>4. JobsStay
  BY <1>1 DEF JobsStay
<1>5. \A p : running # TagsOf(p)
  BY <1>1, NoTagsBetweenJobs
<1>6. CASE tasks[t].what.tagged
  <2>1. running' = TagsOf(t) /\ Goto(t, "job") /\ \A p : p # t => running' # TagsOf(p)
    BY <1>1, <1>6, NoTagsBetweenJobs
  <2>. QED  BY <1>1, <1>2, <1>3, <1>4, <1>5, <1>6, <2>1, MoveKeepsPublish DEF Stages
<1>7. CASE ~tasks[t].what.tagged
  <2>1. running' = << >> /\ Goto(t, "media") /\ \A p : running' # TagsOf(p)
    BY <1>1, <1>7, NoTagsBetweenJobs
  <2>2. posts'[t].tagged = tasks[t].what.tagged
    BY <1>2, <1>3, <1>7
  <2>. QED  BY <1>1, <1>2, <1>3, <1>4, <1>5, <1>7, <2>1, <2>2, MoveKeepsPublish DEF Stages
<1>. QED  BY <1>2, <1>6, <1>7

LEMMA TagKeepsPublish ==
  ASSUME PublishOK, TagStatement, \A p \in DOMAIN posts : posts[p] \in Row,
         \E t : running = TagsOf(t)
  PROVE  PublishOK'
<1>1. PICK t : running = TagsOf(t)
  OBVIOUS
<1>2. /\ t \in DOMAIN posts /\ t \in DOMAIN tasks /\ tasks[t].kind = "post"
      /\ tasks[t].what.tagged /\ tasks[t].pc \in {"job", "cut"} /\ posts[t] \in Row
  BY <1>1 DEF PublishOK, TasksOK
<1>3. /\ posts' = [posts EXCEPT ![t].tagged = TRUE] /\ running' = << >>
      /\ Goto(t, IF tasks[t].pc = "job" THEN "media" ELSE tasks[t].pc)
      /\ UNCHANGED <<now, stories, status>>
  BY <1>1, NoTagsBetweenJobs DEF TagStatement, pinVars, pinTable
<1>4. /\ DOMAIN posts' = DOMAIN posts /\ posts'[t].tagged = TRUE
      /\ \A p \in DOMAIN posts : p # t => posts'[p] = posts[p]
  BY <1>2, <1>3 DEF Row
<1>5. PICK pc \in {"media", "cut"} : Goto(t, pc)
  BY <1>2, <1>3
<1>6. \A p : running' # TagsOf(p) /\ (p # t => running # TagsOf(p))
  BY <1>1, <1>3, NoTagsBetweenJobs
<1>7. t \notin stories /\ JobsStay /\ posts'[t].tagged = tasks[t].what.tagged
  <2>1. tasks[t].what \in Uploads
    BY <1>2, TaskFields DEF PublishOK, TasksOK
  <2>. QED  BY <1>2, <1>3, <1>4, <2>1, ContentAssumption DEF PublishOK, TasksOK, JobsStay
<1>. QED  BY <1>2, <1>3, <1>4, <1>5, <1>6, <1>7, MoveKeepsPublish DEF Stages

LEMMA StoryJobKeepsPublish ==
  ASSUME PublishOK, NEW t \in DOMAIN tasks, StoryJob(t)
  PROVE  PublishOK'
<1>1. /\ Idle /\ tasks[t].kind = "story" /\ tasks[t].pc = "called"
      /\ stories' = stories \cup {t} /\ Goto(t, "media")
      /\ UNCHANGED <<running, now, posts, status>>
  BY DEF StoryJob, pinVars, pinTable
<1>2. t \notin DOMAIN posts /\ JobsStay /\ \A p : running # TagsOf(p)
  BY <1>1, NoTagsBetweenJobs DEF PublishOK, TasksOK, JobsStay
<1>. QED  BY <1>1, <1>2, MoveKeepsPublish DEF Stages

LEMMA PinKeepsPublish ==
  ASSUME PublishOK, PinsOK, NEW t \in DOMAIN tasks, Pin(t)
  PROVE  PublishOK' /\ \E c \in Cids : Enqueue(c)
<1>1. /\ Idle /\ tasks[t].pc \in {"media", "thumb"}
      /\ Enqueue(IF tasks[t].pc = "media" THEN tasks[t].what.media ELSE tasks[t].what.thumb)
      /\ Goto(t, IF tasks[t].pc = "media" THEN AfterMedia(t) ELSE "done")
      /\ UNCHANGED <<running, now, posts, stories>>
  BY DEF Pin
<1>2. /\ tasks[t].what.media \in Cids /\ tasks[t].what.thumb \in Cids \cup {Thumbless}
      /\ tasks[t].kind \in {"post", "story"}
  BY TaskFields DEF PublishOK, TasksOK
<1>3. /\ tasks[t].pc = "thumb" => /\ tasks[t].kind = "post" /\ tasks[t].what.thumb # Thumbless
                                  /\ Queued(tasks[t].what.media)
      /\ tasks[t].kind = "story" /\ tasks[t].pc = "media" =>
           t \in stories \/ tasks[t].expires < now
      /\ t \in DOMAIN posts => tasks[t].kind = "post"
      /\ t \in stories => tasks[t].kind = "story"
      /\ \A p \in DOMAIN posts : tasks[p].what.tagged = posts[p].tagged \/ tasks[p].pc = "lost"
      /\ \A p : running # TagsOf(p)
  BY <1>1, NoTagsBetweenJobs DEF PublishOK, TasksOK, StagesOK
<1>4. CASE tasks[t].pc = "media"
  <2>1. Enqueue(tasks[t].what.media) /\ Goto(t, AfterMedia(t))
    BY <1>1, <1>4
  <2>2. JobsStay /\ status'[tasks[t].what.media] # "none"
    BY <1>2, <2>1, EnqueueQueues
  <2>3. Queued(tasks[t].what.media)'
    BY <1>2, <2>1, <2>2, GotoMoves DEF Queued, AfterMedia, Stages, PublishOK, TasksOK
  <2>4. CASE tasks[t].kind = "post" /\ tasks[t].what.thumb # Thumbless
    <3>1. Goto(t, "thumb")
      BY <2>1, <2>4 DEF AfterMedia
    <3>. QED  BY <1>1, <1>2, <1>3, <1>4, <2>1, <2>2, <2>3, <2>4, <3>1, MoveKeepsPublish DEF Stages
  <2>5. CASE ~(tasks[t].kind = "post" /\ tasks[t].what.thumb # Thumbless)
    <3>1. Goto(t, "done")
      BY <2>1, <2>5 DEF AfterMedia
    <3>2. tasks[t].kind = "post" => Queued(tasks[t].what.thumb)'
      BY <2>5, <3>1, GotoMoves DEF Queued, Stages, PublishOK, TasksOK
    <3>. QED  BY <1>1, <1>2, <1>3, <1>4, <2>1, <2>2, <2>3, <2>5, <3>1, <3>2, MoveKeepsPublish
              DEF Stages
  <2>. QED  BY <1>2, <2>1, <2>4, <2>5
<1>5. CASE tasks[t].pc = "thumb"
  <2>1. Enqueue(tasks[t].what.thumb) /\ Goto(t, "done") /\ tasks[t].what.thumb \in Cids
    BY <1>1, <1>2, <1>3, <1>5
  <2>2. JobsStay /\ status'[tasks[t].what.thumb] # "none"
    BY <2>1, EnqueueQueues
  <2>3. tasks'[t].what = tasks[t].what
    BY <2>1, GotoMoves DEF Stages, PublishOK, TasksOK
  <2>4. Queued(tasks[t].what.media)' /\ Queued(tasks[t].what.thumb)'
    BY <1>2, <1>3, <1>5, <2>2, <2>3 DEF Queued, JobsStay
  <2>. QED  BY <1>1, <1>2, <1>3, <1>5, <2>1, <2>2, <2>4, MoveKeepsPublish DEF Stages
<1>. QED  BY <1>1, <1>4, <1>5

LEMMA HangUpKeepsPublish ==
  ASSUME PublishOK, NEW t \in DOMAIN tasks, HangUp(t)
  PROVE  PublishOK'
<1>1. /\ tasks[t].pc \notin {"done", "cut", "lost"} /\ Goto(t, "cut")
      /\ UNCHANGED <<running, now, posts, stories, status>>
  BY DEF HangUp, Finished, pinVars, pinTable
<1>2. /\ t \in DOMAIN posts =>
           /\ tasks[t].kind = "post"
           /\ posts[t].tagged = tasks[t].what.tagged \/ running = TagsOf(t)
      /\ t \in stories => tasks[t].kind = "story"
      /\ running = TagsOf(t) => t \in DOMAIN posts /\ tasks[t].what.tagged
  BY <1>1 DEF PublishOK, TasksOK, StagesOK
<1>3. JobsStay
  BY <1>1 DEF JobsStay
<1>. QED  BY <1>1, <1>2, <1>3, MoveKeepsPublish DEF Stages

LEMMA SweepKeepsPublish ==
  ASSUME PublishOK, Sweep
  PROVE  PublishOK'
<1>1. /\ stories' = {t \in stories : ~(tasks[t].expires < now)}
      /\ UNCHANGED <<tasks, posts, running, status, now>>
  BY DEF Sweep, Expired, pinVars, pinTable
<1>2. TasksOK'
  BY <1>1 DEF PublishOK, TasksOK, TagsOf
<1>3. StagesOK'
  BY <1>1 DEF PublishOK, StagesOK, TagsOf, Queued
<1>. QED  BY <1>2, <1>3 DEF PublishOK

LEMMA CrashKeepsPublish ==
  ASSUME PublishOK, Crash
  PROVE  PublishOK'
<1>. DEFINE Dies(t) == ~Finished(t) \/ running = TagsOf(t)
<1>1. /\ tasks' = [t \in DOMAIN tasks |->
            IF Dies(t) THEN [tasks[t] EXCEPT !.pc = "lost"] ELSE tasks[t]]
      /\ running' = << >> /\ UNCHANGED <<posts, stories, now, status>>
  BY DEF Crash, GraphCrash, PinningCrash, pinTable, TagsOf
<1>2. ASSUME NEW t \in DOMAIN tasks
      PROVE  /\ tasks'[t] \in Task /\ tasks'[t].kind = tasks[t].kind
             /\ tasks'[t].what = tasks[t].what /\ tasks'[t].expires = tasks[t].expires
             /\ Dies(t) => tasks'[t].pc = "lost"
             /\ ~Dies(t) => tasks'[t] = tasks[t] /\ tasks[t].pc \in {"done", "cut", "lost"}
  <2>1. tasks[t] \in Task
    BY DEF PublishOK, TasksOK
  <2>2. CASE Dies(t)
    <3>1. tasks'[t] = [tasks[t] EXCEPT !.pc = "lost"]
      BY <1>1, <2>2
    <3>. QED  BY <2>1, <2>2, <3>1 DEF Task
  <2>3. CASE ~Dies(t)
    BY <1>1, <2>1, <2>3 DEF Finished
  <2>. QED  BY <2>2, <2>3
<1>3. DOMAIN tasks' = DOMAIN tasks
  BY <1>1
<1>4. tasks' \in Seq(Task)
  <2>1. tasks \in Seq(Task) /\ DOMAIN tasks = 1..Len(tasks) /\ Len(tasks) \in Nat
    BY DEF PublishOK, TasksOK
  <2>2. tasks' \in [1..Len(tasks) -> Task]
    BY <1>1, <1>2, <2>1
  <2>. QED  BY <2>1, <2>2
<1>5. \A t : ~(running' = TagsOf(t))
  BY <1>1, NoTagsBetweenJobs
<1>6. \A t \in DOMAIN tasks : running = TagsOf(t) => Dies(t)
  OBVIOUS
<1>. HIDE DEF Dies
<1>7. TasksOK'
  <2>1. UNCHANGED <<posts, stories>>
    BY <1>1
  <2>2. \A t \in DOMAIN tasks : tasks[t].pc # "called" => tasks'[t].pc # "called"
    BY <1>2
  <2>3. /\ \A t \in DOMAIN posts :
             t \in DOMAIN tasks' /\ tasks'[t].kind = "post" /\ tasks'[t].pc # "called"
        /\ \A t \in stories :
             t \in DOMAIN tasks' /\ tasks'[t].kind = "story" /\ tasks'[t].pc # "called"
    BY <1>2, <1>3, <2>2 DEF PublishOK, TasksOK
  <2>4. \A t \in DOMAIN tasks' : tasks'[t].pc \notin {"job", "thumb"}
    BY <1>2, <1>3
  <2>. QED  BY <1>4, <1>5, <2>1, <2>3, <2>4 DEF TasksOK, TagsOf
<1>8. \A t \in DOMAIN posts' : posts'[t].tagged = tasks'[t].what.tagged \/ tasks'[t].pc = "lost"
  <2>. SUFFICES ASSUME NEW t \in DOMAIN posts
                PROVE  posts[t].tagged = tasks'[t].what.tagged \/ tasks'[t].pc = "lost"
    BY <1>1
  <2>1. t \in DOMAIN tasks
    BY DEF PublishOK, TasksOK
  <2>2. posts[t].tagged = tasks[t].what.tagged \/ running = TagsOf(t) \/ tasks[t].pc = "lost"
    BY DEF PublishOK, StagesOK
  <2>. QED  BY <1>2, <1>6, <2>1, <2>2
<1>9. \A t \in DOMAIN tasks' :
       /\ tasks'[t].pc \in {"thumb", "done"} => Queued(tasks[t].what.media)'
       /\ tasks'[t].pc = "done" /\ tasks'[t].kind = "post" => Queued(tasks[t].what.thumb)'
       /\ tasks'[t].kind = "story" /\ tasks'[t].pc \in {"media", "done"} =>
            t \in stories' \/ tasks'[t].expires < now'
  <2>. SUFFICES ASSUME NEW t \in DOMAIN tasks, ~Dies(t)
                PROVE  /\ tasks[t].pc = "done" => Queued(tasks[t].what.media)'
                       /\ tasks[t].pc = "done" /\ tasks[t].kind = "post" =>
                            Queued(tasks[t].what.thumb)'
                       /\ tasks[t].kind = "story" /\ tasks[t].pc = "done" =>
                            t \in stories \/ tasks[t].expires < now
    BY <1>1, <1>2, <1>3
  <2>. QED  BY <1>1, <1>2 DEF PublishOK, StagesOK, Queued
<1>10. StagesOK'
  BY <1>5, <1>8, <1>9 DEF StagesOK, TagsOf, Queued
<1>. QED  BY <1>7, <1>10 DEF PublishOK

-----------------------------------------------------------------------------
(* All of it together.                                                     *)

ContentIInv == GraphIInv /\ PinsOK /\ RowsOK /\ PublishOK

RowsAndJobsOK == PinsOK /\ RowsOK /\ PublishOK

LEMMA GraphStepsLeaveTags ==
  ASSUME \/ \E a, b \in Users : Follow(a, b) \/ Unfollow(a, b) \/ Block(a, b) \/ Unblock(a, b)
         \/ \E u \in Users, v \in {"public", "private", "absent"} : PatchMe(u, v) \/ PatchPrivacy(u, v)
         \/ GraphStatement
  PROVE  TagsStay
<1>1. ASSUME NEW t PROVE running # TagsOf(t) /\ running' # TagsOf(t)
  <2>1. CASE \E a, b \in Users : Follow(a, b) \/ Unfollow(a, b) \/ Block(a, b) \/ Unblock(a, b)
    BY <2>1 DEF Follow, Unfollow, Block, Unblock, Idle, TagsOf
  <2>2. CASE \E u \in Users, v \in {"public", "private", "absent"} :
               PatchMe(u, v) \/ PatchPrivacy(u, v)
    BY <2>2 DEF PatchMe, PatchPrivacy, Idle, TagsOf
  <2>3. CASE GraphStatement
    <3>1. running[1] \in {"unfollow", "users", "settings"}
      BY <2>3 DEF GraphStatement, DropFollows, PatchUsers, PatchSettings
    <3>2. running' = << >> \/ \E a, b : running' = <<"settings", a, b>>
      BY <2>3 DEF GraphStatement, DropFollows, PatchUsers, PatchSettings
    <3>. QED  BY <3>1, <3>2 DEF TagsOf
  <2>. QED  BY <2>1, <2>2, <2>3
<1>. QED  BY <1>1 DEF TagsStay

LEMMA RestKeepsContent ==
  ASSUME RowsAndJobsOK, UNCHANGED <<pinVars, publishVars, now, posts, saved>>, TagsStay
  PROVE  RowsAndJobsOK'
<1>1. PinsOK' /\ RowsOK'
  BY RestKeepsPins, RestKeepsRows DEF RowsAndJobsOK
<1>2. JobsStay /\ UNCHANGED <<tasks, stories>> /\ now \in Nat
  BY DEF JobsStay, pinVars, pinTable, publishVars, RowsAndJobsOK, RowsOK
<1>3. \A t : running = TagsOf(t) => t \in DOMAIN posts'
  BY DEF RowsAndJobsOK, PublishOK, TasksOK
<1>4. PublishOK'
  BY <1>2, <1>3, RestKeepsPublish DEF RowsAndJobsOK
<1>. QED  BY <1>1, <1>4 DEF RowsAndJobsOK

LEMMA PinningKeepsContent ==
  ASSUME RowsAndJobsOK, UNCHANGED <<running, publishVars, now, posts, saved>>,
         (\E c \in Cids : Enqueue(c)) \/ Poll \/ PinByCid \/ WriteBack
  PROVE  RowsAndJobsOK'
<1>1. PinsOK' /\ RowsOK' /\ JobsStay
  BY EnqueueKeepsPins, PollKeepsPins, PinByCidKeepsPins, WriteBackKeepsPins, RestKeepsRows,
     EnqueueQueues, WorkerLeavesJobs DEF RowsAndJobsOK
<1>2. UNCHANGED <<tasks, stories>> /\ now \in Nat /\ TagsStay
  BY DEF publishVars, RowsAndJobsOK, RowsOK, TagsStay
<1>3. \A t : running = TagsOf(t) => t \in DOMAIN posts'
  BY DEF RowsAndJobsOK, PublishOK, TasksOK
<1>4. PublishOK'
  BY <1>1, <1>2, <1>3, RestKeepsPublish DEF RowsAndJobsOK
<1>. QED  BY <1>1, <1>4 DEF RowsAndJobsOK

LEMMA AuthorsKeepContent ==
  ASSUME RowsAndJobsOK, NEW p \in DOMAIN posts, NEW u \in Users,
         EditRequest(p, u) \/ SaveRequest(p, u)
  PROVE  RowsAndJobsOK'
<1>1. /\ AuthorEdits(p, u) \/ Save(p, u) \/ Unsave(p, u)
      /\ UNCHANGED <<pinVars, publishVars>>
  BY DEF EditRequest, SaveRequest, Counted
<1>2. Idle /\ UNCHANGED <<running, now>>
  BY <1>1 DEF AuthorEdits, SoftDelete, HardDelete, Archive, Unarchive, Restore, postsOnly, Mine,
              Save, Unsave
<1>3. RowsOK'
  BY <1>1, EditsKeepRows, SavesKeepRows DEF RowsAndJobsOK
<1>4. PinsOK' /\ JobsStay
  BY <1>1, RestKeepsPins DEF RowsAndJobsOK, JobsStay, pinVars, pinTable
<1>5. /\ DOMAIN posts' \subseteq DOMAIN posts
      /\ \A t \in DOMAIN posts' : posts'[t].tagged = posts[t].tagged
  <2>1. CASE SoftDelete(p, u) \/ Archive(p, u) \/ Unarchive(p, u) \/ Restore(p, u)
    <3>1. \A q \in DOMAIN posts : posts[q] \in Row
      BY DEF RowsAndJobsOK, RowsOK
    <3>. QED  BY <2>1, <3>1 DEF SoftDelete, Archive, Unarchive, Restore, Row
  <2>2. CASE HardDelete(p, u)
    BY <2>2 DEF HardDelete
  <2>3. CASE Save(p, u) \/ Unsave(p, u)
    BY <2>3 DEF Save, Unsave
  <2>. QED  BY <1>1, <2>1, <2>2, <2>3 DEF AuthorEdits
<1>6. /\ TagsStay /\ \A t : running # TagsOf(t)
  BY <1>2, NoTagsBetweenJobs DEF TagsStay
<1>7. UNCHANGED <<tasks, stories>> /\ now \in Nat
  BY <1>1 DEF publishVars, RowsAndJobsOK, RowsOK
<1>8. PublishOK'
  BY <1>2, <1>4, <1>5, <1>6, <1>7, RestKeepsPublish DEF RowsAndJobsOK
<1>. QED  BY <1>3, <1>4, <1>8 DEF RowsAndJobsOK

LEMMA RequestsKeepContent ==
  ASSUME RowsAndJobsOK, NEW t \in DOMAIN tasks, RunTask(t)
  PROVE  RowsAndJobsOK'
<1>0. t \in Nat /\ tasks[t] \in Task
  BY DEF RowsAndJobsOK, PublishOK, TasksOK
<1>1. CASE PostJob(t)
  <2>. DEFINE row == NewRow(tasks[t].by, tasks[t].what)
  <2>1. PublishOK' /\ t \notin DOMAIN posts
    BY <1>1, PostJobKeepsPublish DEF RowsAndJobsOK
  <2>2. /\ posts' = [q \in DOMAIN posts \cup {t} |-> IF q = t THEN row ELSE posts[q]]
        /\ UNCHANGED <<now, saved, pinVars>>
    BY <1>1 DEF PostJob
  <2>3. tasks[t].by \in Users /\ tasks[t].what.reel \in BOOLEAN /\ now \in Nat
    BY <1>0, ContentAssumption DEF Task, RowsAndJobsOK, RowsOK
  <2>4. row \in Row /\ row.created = now /\ row.deleted = 0
    BY <2>3 DEF NewRow, Row
  <2>. HIDE DEF row
  <2>5. RowsOK'
    BY <1>0, <2>1, <2>2, <2>4, PostJobKeepsRows DEF RowsAndJobsOK
  <2>. QED  BY <2>1, <2>2, <2>5, RestKeepsPins DEF RowsAndJobsOK
<1>2. CASE StoryJob(t)
  BY <1>2, StoryJobKeepsPublish, RestKeepsRows, RestKeepsPins DEF RowsAndJobsOK, StoryJob
<1>3. CASE Pin(t)
  BY <1>3, PinKeepsPublish, EnqueueKeepsPins, RestKeepsRows DEF RowsAndJobsOK, Pin
<1>4. CASE HangUp(t)
  BY <1>4, HangUpKeepsPublish, RestKeepsRows, RestKeepsPins DEF RowsAndJobsOK, HangUp
<1>. QED  BY <1>1, <1>2, <1>3, <1>4 DEF RunTask

LEMMA TaggingKeepsContent ==
  ASSUME RowsAndJobsOK, GraphIInv, TagStatement
  PROVE  RowsAndJobsOK'
<1>1. PICK t : running = TagsOf(t)
  BY Running DEF TagStatement, GraphIInv, RunningOK, Idle, Unfollowing, Hiding, Telling, Tagging,
                 TagsOf
<1>2. t \in DOMAIN posts /\ \A p \in DOMAIN posts : posts[p] \in Row
  BY <1>1 DEF RowsAndJobsOK, PublishOK, TasksOK, RowsOK
<1>3. PublishOK'
  BY <1>1, <1>2, TagKeepsPublish DEF RowsAndJobsOK
<1>. DEFINE row == [posts[t] EXCEPT !.tagged = TRUE]
<1>4. posts' = [posts EXCEPT ![t] = row] /\ UNCHANGED <<now, saved, pinVars>>
  BY <1>1, NoTagsBetweenJobs DEF TagStatement
<1>5. row \in Row /\ row.created = posts[t].created /\ row.deleted = posts[t].deleted
  BY <1>2 DEF Row
<1>. HIDE DEF row
<1>6. /\ row.created <= now /\ row.deleted <= now
      /\ row.deleted # 0 => row.created <= row.deleted
  BY <1>2, <1>5 DEF RowsAndJobsOK, RowsOK, InBin
<1>7. RowsOK'
  BY <1>2, <1>4, <1>5, <1>6, UpdateKeepsRows DEF RowsAndJobsOK
<1>. QED  BY <1>3, <1>4, <1>7, RestKeepsPins DEF RowsAndJobsOK

LEMMA BackgroundKeepsContent ==
  ASSUME RowsAndJobsOK, Worker \/ Sweep \/ Pass
  PROVE  RowsAndJobsOK'
<1>1. CASE Worker
  BY <1>1, PinningKeepsContent DEF Worker
<1>2. CASE Sweep
  <2>1. UNCHANGED <<now, posts, saved, pinVars>>
    BY <1>2 DEF Sweep
  <2>. QED  BY <1>2, <2>1, SweepKeepsPublish, RestKeepsRows, RestKeepsPins DEF RowsAndJobsOK
<1>3. CASE Pass
  <2>1. now' = now + 1 /\ UNCHANGED <<running, posts, saved, pinVars, tasks, stories>> /\ now \in Nat
    BY <1>3 DEF Pass, publishVars, RowsAndJobsOK, RowsOK
  <2>2. PinsOK' /\ RowsOK' /\ JobsStay /\ TagsStay
    BY <2>1, PassKeepsRows, RestKeepsPins DEF RowsAndJobsOK, JobsStay, TagsStay, pinVars, pinTable
  <2>3. \A t : running = TagsOf(t) => t \in DOMAIN posts'
    BY <2>1 DEF RowsAndJobsOK, PublishOK, TasksOK
  <2>4. PublishOK'
    BY <2>1, <2>2, <2>3, RestKeepsPublish DEF RowsAndJobsOK
  <2>. QED  BY <2>2, <2>4 DEF RowsAndJobsOK
<1>. QED  BY <1>1, <1>2, <1>3

LEMMA ContentInvariance ==
  ASSUME ContentIInv, [ContentNext]_contentVars
  PROVE  ContentIInv'
<1>. SUFFICES RowsAndJobsOK'
  BY GraphInvariance DEF ContentIInv, RowsAndJobsOK
<1>0. RowsAndJobsOK /\ GraphIInv
  BY DEF ContentIInv, RowsAndJobsOK
<1>1. CASE UNCHANGED contentVars
  BY <1>0, <1>1, RestKeepsContent DEF contentVars, TagsStay
<1>2. ASSUME NEW u \in Users, NEW what \in Uploads, NEW expires \in Nat,
             NEW kind \in {"post", "story"}, Called(kind, u, what, expires)
      PROVE  RowsAndJobsOK'
  <2>1. UNCHANGED <<now, posts, saved, pinVars>>
    BY <1>2 DEF Called
  <2>. QED  BY <1>0, <1>2, <2>1, CallKeepsPublish, RestKeepsRows, RestKeepsPins DEF RowsAndJobsOK
<1>3. ASSUME NEW u \in Users, NEW what \in Uploads, CallPost(u, what) PROVE RowsAndJobsOK'
  BY <1>2, <1>3 DEF CallPost
<1>4. ASSUME NEW u \in Users, NEW what \in Uploads, NEW ttl \in 1..StoryTtl,
             CallStory(u, what, ttl) PROVE RowsAndJobsOK'
  <2>1. now + ttl \in Nat
    BY <1>0, ContentAssumption DEF RowsAndJobsOK, RowsOK
  <2>. QED  BY <1>2, <1>4, <2>1 DEF CallStory
<1>5. ASSUME NEW t \in DOMAIN tasks, RunTask(t) PROVE RowsAndJobsOK'
  BY <1>0, <1>5, RequestsKeepContent
<1>6. ASSUME NEW a \in Users, NEW b \in Users, GraphRequest(a, b) PROVE RowsAndJobsOK'
  <2>1. TagsStay
    BY <1>6, GraphStepsLeaveTags DEF GraphRequest
  <2>. QED  BY <1>0, <1>6, <2>1, RestKeepsContent DEF GraphRequest, Counted
<1>7. ASSUME NEW u \in Users, NEW v \in {"public", "private", "absent"}, PrivacyRequest(u, v)
      PROVE  RowsAndJobsOK'
  <2>1. TagsStay
    BY <1>7, GraphStepsLeaveTags DEF PrivacyRequest
  <2>. QED  BY <1>0, <1>7, <2>1, RestKeepsContent DEF PrivacyRequest, Counted
<1>8. ASSUME NEW p \in DOMAIN posts, NEW u \in Users, EditRequest(p, u) \/ SaveRequest(p, u)
      PROVE  RowsAndJobsOK'
  BY <1>0, <1>8, AuthorsKeepContent
<1>9. ASSUME NEW c \in Cids, MediaAnnounce(c) PROVE RowsAndJobsOK'
  BY <1>0, <1>9, PinningKeepsContent DEF MediaAnnounce
<1>10. CASE ReportUser
  BY <1>0, <1>10, PinningKeepsContent, ContentAssumption DEF ReportUser
<1>11. ASSUME NEW list \in ListNames, NEW me \in Users, NEW of \in Users, Reading(list, me, of)
       PROVE  RowsAndJobsOK'
  BY <1>0, <1>11, RestKeepsContent DEF Reading, AskList, TagsStay
<1>12. CASE PageStep
  BY <1>0, <1>12, RestKeepsContent DEF PageStep, WalkStep, CheckGrid, ReadPage, TagsStay
<1>13. CASE GraphJob
  <2>1. TagsStay
    BY <1>13, GraphStepsLeaveTags DEF GraphJob
  <2>. QED  BY <1>0, <1>13, <2>1, RestKeepsContent DEF GraphJob
<1>14. CASE TagStatement
  BY <1>0, <1>14, TaggingKeepsContent
<1>15. CASE Worker \/ Sweep \/ Pass
  BY <1>0, <1>15, BackgroundKeepsContent
<1>16. CASE Crash
  <2>1. PinningCrash /\ UNCHANGED <<now, posts, saved>>
    BY <1>16 DEF Crash
  <2>. QED  BY <1>0, <1>16, <2>1, CrashKeepsPublish, CrashKeepsPins, RestKeepsRows
            DEF RowsAndJobsOK
<1>. QED  BY <1>1, <1>3, <1>4, <1>5, <1>6, <1>7, <1>8, <1>9, <1>10, <1>11, <1>12, <1>13, <1>14,
             <1>15, <1>16 DEF ContentNext

(* What is there when the behaviour begins.                                *)
LEMMA OldTyped ==
  ASSUME mix \in Mixes
  PROVE  /\ Len(Old) \in Nat /\ DOMAIN Old = 1..Len(Old)
         /\ \A p \in DOMAIN Old :
              /\ Old[p].by \in Users /\ Old[p].what \in Uploads /\ Old[p].created \in Nat
              /\ Old[p].created <= StartTime /\ ~Old[p].what.tagged
              /\ Old[p].what.thumb = Thumbless
<1>1. CASE Old = Published
  <2>. DEFINE OldPost == [by : Users, what : Uploads, created : Nat, saved : BOOLEAN]
  <2>1. Published \in Seq(OldPost)
    BY ContentAssumption
  <2>. HIDE DEF OldPost
  <2>2. /\ Len(Published) \in Nat /\ DOMAIN Published = 1..Len(Published)
        /\ \A p \in DOMAIN Published : Published[p] \in OldPost
    BY <2>1
  <2>3. \A p \in DOMAIN Published :
          /\ Published[p].by \in Users /\ Published[p].what \in Uploads
          /\ Published[p].created \in Nat
    BY <2>2 DEF OldPost
  <2>. QED  BY <1>1, <2>2, <2>3, ContentAssumption
<1>2. CASE Old = << >>
  BY <1>2
<1>. QED  BY <1>1, <1>2 DEF Old

LEMMA InitContent ==
  ASSUME ContentInit
  PROVE  ContentIInv
<1>1. /\ mix \in Mixes /\ now = 1 /\ running = << >> /\ stories = {}
      /\ tasks = [p \in DOMAIN Old |-> [kind |-> "post", by |-> Old[p].by,
                what |-> Old[p].what, expires |-> 0, pc |-> "done"]]
      /\ posts = [p \in DOMAIN Old |->
                [NewRow(Old[p].by, Old[p].what) EXCEPT !.created = Old[p].created]]
      /\ saved = {<<Old[p].by, p, Old[p].created>> : p \in {q \in DOMAIN Old : Old[q].saved}}
  BY DEF ContentInit, PostsInit, StartTime
<1>2. /\ Len(Old) \in Nat /\ DOMAIN Old = 1..Len(Old)
      /\ \A p \in DOMAIN Old :
           /\ Old[p].by \in Users /\ Old[p].what \in Uploads /\ Old[p].created \in Nat
           /\ Old[p].created <= 1 /\ ~Old[p].what.tagged /\ Old[p].what.thumb = Thumbless
  BY <1>1, OldTyped DEF StartTime
<1>. DEFINE cids == {Old[p].what.media : p \in DOMAIN Old}
<1>3. PinnedInit(cids)
  BY DEF ContentInit
<1>4. cids \in SUBSET Cids
  BY <1>2, ContentAssumption
<1>5. IsFiniteSet(cids)
  <2>. DEFINE f == [p \in 1..Len(Old) |-> Old[p].what.media]
  <2>1. f \in Surjection(1..Len(Old), cids)
    BY <1>2 DEF Surjection
  <2>2. IsFiniteSet(1..Len(Old))
    BY <1>2, FS_Interval
  <2>. HIDE DEF f, cids
  <2>. QED  BY <2>1, <2>2, FS_Surjection
<1>6. PinsOK
  <2>. HIDE DEF cids
  <2>. QED  BY <1>3, <1>4, <1>5, InitPins
<1>7. GraphIInv
  BY DEF ContentInit, GraphInit, GraphIInv, GraphTypeOK, RunningOK, Idle, GraphConsistent,
         BlockSupersedes, PrivacyAsTold
<1>8. RowsOK
  <2>1. ASSUME NEW p \in DOMAIN posts
        PROVE  /\ posts[p] \in Row /\ posts[p].created <= now /\ posts[p].deleted <= now
               /\ InBin(p) => posts[p].created <= posts[p].deleted
    <3>1. /\ p \in DOMAIN Old
          /\ posts[p] = [author |-> Old[p].by, created |-> Old[p].created, deleted |-> 0,
                         archived |-> FALSE, tagged |-> FALSE, reel |-> Old[p].what.reel]
      BY <1>1, <2>1 DEF NewRow
    <3>2. Old[p].what.reel \in BOOLEAN
      BY <1>2, <3>1, ContentAssumption
    <3>3. /\ Old[p].by \in Users /\ Old[p].created \in Nat /\ Old[p].created <= now
          /\ now = 1
      BY <1>1, <1>2, <3>1
    <3>4. posts[p] \in Row
      BY <3>1, <3>2, <3>3 DEF Row
    <3>5. posts[p].created = Old[p].created /\ posts[p].deleted = 0
      BY <3>1
    <3>. QED  BY <3>3, <3>4, <3>5 DEF InBin
  <2>2. DOMAIN posts = DOMAIN Old /\ DOMAIN posts \subseteq Nat /\ now \in Nat \ {0}
    BY <1>1, <1>2
  <2>3. \A s \in saved : \E p \in DOMAIN Old : s = <<Old[p].by, p, Old[p].created>>
    BY <1>1
  <2>4. saved \subseteq Users \X (DOMAIN posts) \X Nat /\ \A s \in saved : s[3] <= now
    BY <1>1, <1>2, <2>2, <2>3
  <2>5. \A r, s \in saved : r[1] = s[1] /\ r[2] = s[2] => r = s
    BY <2>3
  <2>. QED  BY <2>1, <2>2, <2>4, <2>5 DEF RowsOK
<1>9. ASSUME NEW t \in DOMAIN tasks
      PROVE  /\ t \in DOMAIN Old /\ tasks[t] \in Task /\ tasks[t].pc = "done"
             /\ tasks[t].kind = "post" /\ tasks[t].what = Old[t].what
  BY <1>1, <1>2 DEF Task
<1>10. DOMAIN tasks = DOMAIN Old /\ DOMAIN posts = DOMAIN Old
  BY <1>1
<1>11. TasksOK
  <2>1. tasks \in Seq(Task)
    <3>1. tasks \in [1..Len(Old) -> Task]
      BY <1>1, <1>2, <1>9
    <3>. QED  BY <1>2, <3>1
  <2>. QED  BY <1>1, <1>9, <1>10, <2>1, NoTagsBetweenJobs DEF TasksOK, Idle
<1>12. StagesOK
  <2>1. \A p \in DOMAIN posts : posts[p].tagged = FALSE
    BY <1>1 DEF NewRow
  <2>2. \A p \in DOMAIN posts : tasks[p].what.tagged = FALSE
    <3>. SUFFICES ASSUME NEW p \in DOMAIN posts PROVE tasks[p].what.tagged = FALSE
      OBVIOUS
    <3>1. tasks[p].what = Old[p].what /\ Old[p].what \in Uploads /\ ~Old[p].what.tagged
      BY <1>2, <1>9, <1>10
    <3>2. Old[p].what.tagged \in BOOLEAN
      BY <3>1, ContentAssumption
    <3>. QED  BY <3>1, <3>2
  <2>3. \A t \in DOMAIN tasks : Queued(tasks[t].what.media) /\ Queued(tasks[t].what.thumb)
    <3>. SUFFICES ASSUME NEW t \in DOMAIN tasks
                  PROVE  Queued(tasks[t].what.media) /\ Queued(tasks[t].what.thumb)
      OBVIOUS
    <3>1. tasks[t].what.media \in cids /\ tasks[t].what.thumb = Thumbless
      BY <1>2, <1>9
    <3>2. status[tasks[t].what.media] # "none"
      BY <1>3, <1>4, <3>1 DEF PinnedInit
    <3>. QED  BY <3>1, <3>2 DEF Queued
  <2>. QED  BY <1>9, <2>1, <2>2, <2>3 DEF StagesOK
<1>. QED  BY <1>6, <1>7, <1>8, <1>11, <1>12 DEF ContentIInv, PublishOK

(* What a pinned, a failed and a pending job are, in any run of the queue  *)
(* and its worker, with calls that time out though they were accepted.     *)
THEOREM JobsConsistentAlways == ContentSpec => []JobsConsistent
<1>1. ContentInit => ContentIInv
  BY InitContent
<1>2. ContentIInv /\ [ContentNext]_contentVars => ContentIInv'
  BY ContentInvariance
<1>3. ContentIInv => JobsConsistent
  BY DEF ContentIInv, PinsOK
<1>. QED  BY <1>1, <1>2, <1>3, PTL DEF ContentSpec

LEMMA WholeFromStages ==
  ASSUME PublishOK, now \in Nat
  PROVE  PublishedWhole
<1>1. ASSUME NEW t \in DOMAIN posts \cup stories
      PROVE  \/ tasks[t].pc \in {"job", "media", "thumb", "cut", "lost"}
             \/ /\ Queued(tasks[t].what.media)
                /\ tasks[t].kind = "post" => Queued(tasks[t].what.thumb)
  <2>1. t \in DOMAIN tasks /\ tasks[t] \in Task /\ tasks[t].pc # "called"
    BY DEF PublishOK, TasksOK
  <2>2. tasks[t].pc \in {"called", "job", "media", "thumb", "done", "cut", "lost"}
    BY <2>1 DEF Task
  <2>. QED  BY <2>1, <2>2 DEF PublishOK, StagesOK
<1>2. \A t \in DOMAIN posts :
        posts[t].tagged = tasks[t].what.tagged \/ running = <<"tags", t>> \/ tasks[t].pc = "lost"
  BY DEF PublishOK, StagesOK, TagsOf
<1>3. ASSUME NEW t \in DOMAIN tasks, tasks[t].kind = "story",
             tasks[t].pc \in {"media", "done"}, tasks[t].expires > now
      PROVE  t \in StoriesFeed(tasks[t].by)
  <2>1. tasks[t].expires \in Nat
    BY TaskFields DEF PublishOK, TasksOK
  <2>2. t \in stories
    BY <1>3, <2>1 DEF PublishOK, StagesOK
  <2>. QED  BY <1>3, <2>2 DEF StoriesFeed, FollowsOrIs
<1>. QED  BY <1>1, <1>2, <1>3 DEF PublishedWhole

(* A post or a story that is answered has its pins queued and its tags, and*)
(* a story is in its author's feed to its last second, for any uploads and *)
(* any interleaving of requests, deletions, hang-ups and deaths.           *)
THEOREM PublishedWholeAlways == ContentSpec => []PublishedWhole
<1>1. ContentInit => ContentIInv
  BY InitContent
<1>2. ContentIInv /\ [ContentNext]_contentVars => ContentIInv'
  BY ContentInvariance
<1>3. ContentIInv => PublishedWhole
  BY WholeFromStages DEF ContentIInv, RowsOK
<1>. QED  BY <1>1, <1>2, <1>3, PTL DEF ContentSpec

-----------------------------------------------------------------------------
(* Pages.                                                                  *)

Keys == Nat \X Nat

LEMMA BelowOrders ==
  /\ \A k \in Keys : k # NoCursor /\ ~Below(k, k)
  /\ \A k, l \in Keys : k = l \/ Below(k, l) \/ Below(l, k)
  /\ \A k, l \in Keys : Below(k, l) => ~Below(l, k)
  /\ \A k, l, m \in Keys : Below(k, l) /\ Below(l, m) => Below(k, m)
  /\ \A k, l, m \in Keys : Below(k, l) /\ ~Below(m, l) => Below(k, m)
  /\ \A k, l, m \in Keys : ~Below(k, l) /\ ~Below(l, m) => ~Below(k, m)
<1>1. \A k \in Keys : k # NoCursor /\ k = <<k[1], k[2]>> /\ k[1] \in Nat /\ k[2] \in Nat
  BY DEF Keys, NoCursor
<1>2. \A k, l \in Keys : Below(k, l) <=> (k[1] < l[1] \/ (k[1] = l[1] /\ k[2] < l[2]))
  BY <1>1 DEF Below
<1>3. \A k \in Keys : ~Below(k, k)
  BY <1>1, <1>2
<1>4. \A k, l \in Keys : k = l \/ Below(k, l) \/ Below(l, k)
  <2>. SUFFICES ASSUME NEW k \in Keys, NEW l \in Keys, ~Below(k, l), ~Below(l, k)
                PROVE  k = l
    OBVIOUS
  <2>1. k[1] = l[1] /\ k[2] = l[2]
    BY <1>1, <1>2
  <2>. QED  BY <1>1, <2>1
<1>5. \A k, l \in Keys : Below(k, l) => ~Below(l, k)
  BY <1>1, <1>2
<1>6. ASSUME NEW k \in Keys, NEW l \in Keys, NEW m \in Keys
      PROVE  /\ Below(k, l) /\ Below(l, m) => Below(k, m)
             /\ Below(k, l) /\ ~Below(m, l) => Below(k, m)
             /\ ~Below(k, l) /\ ~Below(l, m) => ~Below(k, m)
  BY <1>1, <1>2
<1>. QED  BY <1>1, <1>3, <1>4, <1>5, <1>6

(* How many keys are sorted before one tells its place.                    *)
LEMMA Ranks ==
  ASSUME NEW S \in SUBSET Keys, IsFiniteSet(S)
  PROVE  /\ Cardinality(S) \in Nat
         /\ \A k \in S : Cardinality(Before(S, k)) \in 0..(Cardinality(S) - 1)
         /\ \A k, l \in S : Below(k, l) =>
              Cardinality(Before(S, l)) < Cardinality(Before(S, k))
         /\ \A i \in 1..Cardinality(S) : \E k \in S : Cardinality(Before(S, k)) = i - 1
<1>. DEFINE n == Cardinality(S)
            rank(k) == Cardinality(Before(S, k))
<1>1. n \in Nat
  BY FS_CardinalityType
<1>2. ASSUME NEW k \in S
      PROVE  rank(k) \in 0..(n - 1) /\ IsFiniteSet(Before(S, k))
  <2>1. Before(S, k) \in SUBSET S /\ k \notin Before(S, k)
    BY BelowOrders DEF Before
  <2>2. /\ IsFiniteSet(Before(S, k)) /\ rank(k) <= n
        /\ n = rank(k) => S = Before(S, k)
    BY <2>1, FS_Subset
  <2>3. rank(k) \in Nat
    BY <2>2, FS_CardinalityType
  <2>4. rank(k) # n
    BY <2>1, <2>2
  <2>. HIDE DEF n, rank
  <2>. QED  BY <1>1, <2>2, <2>3, <2>4
<1>3. ASSUME NEW k \in S, NEW l \in S, Below(k, l)
      PROVE  rank(l) < rank(k)
  <2>1. Before(S, l) \in SUBSET Before(S, k) /\ l \in Before(S, k) /\ l \notin Before(S, l)
    BY <1>3, BelowOrders DEF Before
  <2>2. /\ rank(l) <= rank(k)
        /\ rank(k) = rank(l) => Before(S, k) = Before(S, l)
    BY <1>2, <2>1, FS_Subset
  <2>3. rank(l) \in Nat /\ rank(k) \in Nat /\ rank(k) # rank(l)
    BY <1>1, <1>2, <2>1, <2>2
  <2>. HIDE DEF rank
  <2>. QED  BY <2>2, <2>3
<1>. DEFINE f == [k \in S |-> rank(k)]
<1>4. f \in Injection(S, 0..(n - 1))
  <2>1. f \in [S -> 0..(n - 1)]
    BY <1>2
  <2>2. ASSUME NEW k \in S, NEW l \in S, f[k] = f[l]
        PROVE  k = l
    <3>1. rank(k) = rank(l) /\ rank(k) \in Nat
      BY <1>1, <1>2, <2>2
    <3>2. ~Below(k, l) /\ ~Below(l, k)
      <4>. HIDE DEF rank, f
      <4>. QED  BY <1>3, <3>1
    <3>. QED  BY <3>2, BelowOrders
  <2>. HIDE DEF f
  <2>. QED  BY <2>1, <2>2 DEF Injection, IsInjective
<1>5. IsFiniteSet(0..(n - 1)) /\ Cardinality(0..(n - 1)) = n
  <2>. HIDE DEF n
  <2>1. 0 \in Int /\ n - 1 \in Int
    BY <1>1
  <2>. QED  BY <1>1, <2>1, FS_Interval
<1>6. f \in Surjection(S, 0..(n - 1))
  <2>. HIDE DEF f
  <2>. QED  BY <1>4, <1>5, FS_Injection
<1>7. \A i \in 1..n : \E k \in S : rank(k) = i - 1
  <2>. SUFFICES ASSUME NEW i \in 1..n PROVE \E k \in S : rank(k) = i - 1
    OBVIOUS
  <2>1. i - 1 \in 0..(n - 1)
    BY <1>1
  <2>2. PICK k \in S : f[k] = i - 1
    BY <1>6, <2>1 DEF Surjection
  <2>. QED  BY <2>2
<1>. QED  BY <1>1, <1>2, <1>3, <1>7

(* A page holds what remains from the top, in order and once each: all of  *)
(* it, or PageLimit keys and nothing that is left is above the last.       *)
LEMMA PageIs ==
  ASSUME NEW w, Remaining(w) \in SUBSET Keys, IsFiniteSet(Remaining(w))
  PROVE  LET S == Remaining(w)  page == PageOf(w) IN
         /\ page \in Seq(S) /\ Len(page) \in 0..PageLimit
         /\ \A i, j \in DOMAIN page : page[i] = page[j] => i = j
         /\ \A i \in DOMAIN page : ~Below(page[i], page[Len(page)])
         /\ Len(page) < PageLimit => \A k \in S : \E i \in DOMAIN page : page[i] = k
         /\ Len(page) = PageLimit =>
              \A k \in S : (\E i \in DOMAIN page : page[i] = k) \/ Below(k, page[Len(page)])
<1>. DEFINE S == Remaining(w)
            rank(k) == Cardinality(Before(S, k))
            n == IF Cardinality(S) < PageLimit THEN Cardinality(S) ELSE PageLimit
            page == [i \in 1..n |-> CHOOSE k \in S : rank(k) = i - 1]
<1>1. page = PageOf(w)
  BY DEF PageOf
<1>2. /\ Cardinality(S) \in Nat
      /\ \A k \in S : rank(k) \in 0..(Cardinality(S) - 1)
      /\ \A k, l \in S : Below(k, l) => rank(l) < rank(k)
      /\ \A i \in 1..Cardinality(S) : \E k \in S : rank(k) = i - 1
  BY Ranks
<1>3. S \in SUBSET Keys
  OBVIOUS
<1>4. PageLimit \in Nat \ {0}
  BY PostsAssumption
<1>. HIDE DEF S, rank
<1>5. n \in Nat /\ n <= PageLimit /\ n <= Cardinality(S) /\ (n < PageLimit => n = Cardinality(S))
  BY <1>2, <1>4
<1>6. ASSUME NEW i \in 1..n
      PROVE  page[i] \in S /\ rank(page[i]) = i - 1
  <2>1. i \in 1..Cardinality(S)
    BY <1>2, <1>5
  <2>2. \E k \in S : rank(k) = i - 1
    BY <1>2, <2>1
  <2>3. page[i] = CHOOSE k \in S : rank(k) = i - 1
    OBVIOUS
  <2>. QED  BY <2>2, <2>3
<1>7. DOMAIN page = 1..n
  OBVIOUS
<1>8. page \in Seq(S) /\ Len(page) = n
  <2>1. page \in [1..n -> S]
    BY <1>6
  <2>. HIDE DEF n, page
  <2>. QED  BY <1>5, <2>1
<1>. HIDE DEF n, page
<1>9. \A i, j \in DOMAIN page : page[i] = page[j] => i = j
  <2>. SUFFICES ASSUME NEW i \in 1..n, NEW j \in 1..n, page[i] = page[j]
                PROVE  i = j
    BY <1>7
  <2>1. i - 1 = j - 1
    BY <1>6
  <2>. QED  BY <1>5, <2>1
<1>10. \A i \in DOMAIN page : ~Below(page[i], page[n])
  <2>. SUFFICES ASSUME NEW i \in 1..n, Below(page[i], page[n])
                PROVE  FALSE
    BY <1>7
  <2>1. n \in 1..n
    BY <1>5
  <2>2. rank(page[n]) < rank(page[i])
    BY <1>2, <1>6, <2>1
  <2>3. n - 1 < i - 1
    BY <1>6, <2>1, <2>2
  <2>. QED  BY <1>5, <2>3
<1>11. ASSUME NEW k \in S, rank(k) < n
       PROVE  \E i \in DOMAIN page : page[i] = k
  <2>. DEFINE i == rank(k) + 1
  <2>1. i \in 1..n /\ rank(k) = i - 1
    BY <1>2, <1>5, <1>11
  <2>. HIDE DEF i
  <2>2. page[i] \in S /\ rank(page[i]) = rank(k)
    BY <1>6, <2>1
  <2>3. rank(k) \in Int
    BY <1>2
  <2>4. page[i] = k
    BY <1>2, <1>3, <2>2, <2>3, BelowOrders
  <2>. QED  BY <1>7, <2>1, <2>4
<1>12. n < PageLimit => \A k \in S : \E i \in DOMAIN page : page[i] = k
  BY <1>2, <1>5, <1>11
<1>13. ASSUME n = PageLimit, NEW k \in S, ~Below(k, page[n])
       PROVE  \E i \in DOMAIN page : page[i] = k
  <2>1. n \in 1..n /\ page[n] \in S /\ rank(page[n]) = n - 1
    BY <1>4, <1>5, <1>6, <1>13
  <2>2. k = page[n] \/ Below(page[n], k)
    BY <1>3, <1>13, <2>1, BelowOrders
  <2>3. rank(k) < n
    <3>1. rank(k) = n - 1 \/ rank(k) < n - 1
      BY <1>2, <2>1, <2>2
    <3>. QED  BY <1>2, <1>5, <3>1
  <2>. QED  BY <1>11, <2>3
<1>. QED  BY <1>1, <1>5, <1>8, <1>9, <1>10, <1>12, <1>13 DEF S

(* Whether post p has what walk w sorts by.                                *)
Keyed(w, p) ==
  (w.list = "deleted" => InBin(p)) /\ (w.list = "saved" => Saves(p, w.me) # {})

(* What PagesComplete owes for key k is paid.                              *)
Told(w, k) ==
  \/ \E i \in DOMAIN w.seen : w.seen[i][2] = k[2]
  \/ w.list = "deleted" /\ \E i \in DOMAIN w.seen : w.seen[i][1] <= k[1]

Paging == walk.pc \in {"check", "read"}

(* The cursor has passed post p for good: what p may still be sorted by,   *)
(* now or when it is deleted or saved again, is not below it.              *)
Passed(p) ==
  /\ walk.cursor # NoCursor /\ ~Below(<<now, p>>, walk.cursor)
  /\ p \in DOMAIN posts /\ Keyed(walk, p) => ~Below(Key(walk, p), walk.cursor)

WalkOK ==
  /\ walk \in Walk
  /\ \A i, j \in DOMAIN walk.seen : walk.seen[i][2] = walk.seen[j][2] => i = j
  /\ \A i \in DOMAIN walk.seen :
       /\ walk.seen[i][2] \in DOMAIN tasks /\ tasks[walk.seen[i][2]].pc # "called"
       /\ Paging => Passed(walk.seen[i][2])
  /\ Paging /\ walk.cursor # NoCursor =>
       \A k \in walk.must : Told(walk, k) \/ Below(k, walk.cursor)
  /\ walk.pc = "done" => \A k \in walk.must : Told(walk, k)

LEMMA SavedAtIs ==
  ASSUME RowsOK, NEW p, NEW u, NEW s \in Saves(p, u)
  PROVE  SavedAt(p, u) = s[3] /\ s[3] \in Nat /\ s[3] <= now
<1>1. \A r \in Saves(p, u) : r = s
  BY DEF RowsOK, Saves
<1>2. (CHOOSE r \in Saves(p, u) : TRUE) = s
  BY <1>1
<1>3. s \in saved
  BY DEF Saves
<1>. QED  BY <1>2, <1>3 DEF SavedAt, RowsOK

LEMMA KeyIs ==
  ASSUME RowsOK, NEW w, NEW p \in DOMAIN posts, Keyed(w, p)
  PROVE  Key(w, p) \in Keys /\ Key(w, p)[2] = p /\ Key(w, p)[1] <= now
<1>1. p \in Nat /\ posts[p].created \in Nat /\ posts[p].deleted \in Nat
      /\ posts[p].created <= now /\ posts[p].deleted <= now
  BY DEF RowsOK, Row
<1>2. CASE w.list = "saved"
  <2>1. PICK s \in Saves(p, w.me) : TRUE
    BY <1>2 DEF Keyed
  <2>2. SavedAt(p, w.me) \in Nat /\ SavedAt(p, w.me) <= now
    BY <2>1, SavedAtIs
  <2>. QED  BY <1>1, <1>2, <2>2 DEF Key, Keys
<1>3. CASE w.list # "saved"
  BY <1>1, <1>3 DEF Key, Keys
<1>. QED  BY <1>2, <1>3

LEMMA ListedKeyed ==
  ASSUME NEW w, NEW p \in Listed(w)
  PROVE  p \in DOMAIN posts /\ Keyed(w, p)
<1>1. p \in DOMAIN posts
  BY DEF Listed
<1>2. CASE w.list = "deleted"
  BY <1>2 DEF Listed, MyDeleted, Keyed
<1>3. CASE w.list = "saved"
  BY <1>3 DEF Listed, SavedList, Keyed
<1>4. CASE w.list \notin {"deleted", "saved"}
  BY <1>1, <1>4 DEF Keyed
<1>. QED  BY <1>1, <1>2, <1>3, <1>4

LEMMA RemainingIs ==
  ASSUME RowsOK, TasksOK, NEW w
  PROVE  /\ ListedKeys(w) \in SUBSET Keys
         /\ Remaining(w) \in SUBSET Keys /\ IsFiniteSet(Remaining(w))
         /\ \A k \in ListedKeys(w) : /\ k[2] \in Listed(w) /\ k = Key(w, k[2])
                                     /\ k[1] <= now
<1>1. \A p \in Listed(w) : /\ p \in DOMAIN posts /\ Keyed(w, p)
                           /\ Key(w, p) \in Keys /\ Key(w, p)[2] = p /\ Key(w, p)[1] <= now
  BY ListedKeyed, KeyIs
<1>2. \A k \in ListedKeys(w) : \E p \in Listed(w) : k = Key(w, p)
  BY DEF ListedKeys
<1>3. ListedKeys(w) \in SUBSET Keys
  BY <1>1, <1>2
<1>4. IsFiniteSet(Listed(w))
  <2>1. DOMAIN tasks = 1..Len(tasks) /\ Len(tasks) \in Nat
    BY DEF TasksOK
  <2>2. IsFiniteSet(1..Len(tasks))
    BY <2>1, FS_Interval
  <2>3. Listed(w) \in SUBSET (1..Len(tasks))
    BY <1>1, <2>1 DEF TasksOK
  <2>. QED  BY <2>2, <2>3, FS_Subset
<1>5. IsFiniteSet(ListedKeys(w))
  <2>. DEFINE f == [p \in Listed(w) |-> Key(w, p)]
  <2>1. f \in Surjection(Listed(w), ListedKeys(w))
    BY DEF Surjection, ListedKeys
  <2>. HIDE DEF f
  <2>. QED  BY <1>4, <2>1, FS_Surjection
<1>6. Remaining(w) \in SUBSET ListedKeys(w)
  BY DEF Remaining
<1>7. IsFiniteSet(Remaining(w))
  BY <1>5, <1>6, FS_Subset
<1>. QED  BY <1>1, <1>2, <1>3, <1>6, <1>7

(* While a client holds a page the rest of the server may change any row,  *)
(* but no key that the cursor has passed comes below it.                   *)
KeysStay ==
  \A p \in DOMAIN posts \cap DOMAIN posts' : Keyed(walk, p)' =>
    (Keyed(walk, p) /\ Key(walk, p)' = Key(walk, p)) \/ Key(walk, p)' = <<now', p>>

LEMMA RestKeepsWalk ==
  ASSUME WalkOK, UNCHANGED walk, now \in Nat, now' \in {now, now + 1}, KeysStay,
         \A t \in DOMAIN tasks :
           t \in DOMAIN tasks' /\ (tasks[t].pc # "called" => tasks'[t].pc # "called"),
         \A p \in DOMAIN posts' : p \in DOMAIN posts \/ tasks[p].pc = "called"
  PROVE  WalkOK'
<1>1. walk \in Walk /\ walk.seen \in Seq(Nat \X Nat) /\ walk.cursor \in Cursors
  BY DEF WalkOK, Walk
<1>2. ASSUME NEW i \in DOMAIN walk.seen
      PROVE  /\ walk.seen[i][2] \in DOMAIN tasks' /\ tasks'[walk.seen[i][2]].pc # "called"
             /\ Paging => Passed(walk.seen[i][2])'
  <2>0. PICK p : p = walk.seen[i][2] /\ p = walk'.seen[i][2]
    OBVIOUS
  <2>1. p \in Nat
    BY <1>1, <2>0
  <2>2. p \in DOMAIN tasks /\ tasks[p].pc # "called"
    BY <2>0 DEF WalkOK
  <2>3. ASSUME Paging
        PROVE  Passed(p)'
    <3>1. Passed(p)
      BY <2>0, <2>3 DEF WalkOK
    <3>2. walk.cursor \in Keys /\ <<now, p>> \in Keys /\ <<now', p>> \in Keys
      <4>1. walk.cursor \in Keys
        BY <1>1, <3>1 DEF Passed, Cursors, Keys
      <4>2. now' \in Nat
        OBVIOUS
      <4>. QED  BY <2>1, <4>1, <4>2 DEF Keys
    <3>3. ~Below(<<now', p>>, <<now, p>>)
      <4>1. <<now, p>> # NoCursor
        BY <3>2, BelowOrders
      <4>. QED  BY <2>1, <4>1 DEF Below
    <3>4. ~Below(<<now', p>>, walk.cursor)
      BY <3>1, <3>2, <3>3, BelowOrders DEF Passed
    <3>5. ASSUME p \in DOMAIN posts', Keyed(walk, p)'
          PROVE  ~Below(Key(walk, p)', walk.cursor)
      <4>1. p \in DOMAIN posts
        BY <2>2, <3>5
      <4>2. (Keyed(walk, p) /\ Key(walk, p)' = Key(walk, p)) \/ Key(walk, p)' = <<now', p>>
        BY <3>5, <4>1 DEF KeysStay
      <4>. QED  BY <3>1, <3>4, <4>1, <4>2 DEF Passed
    <3>6. Below(Key(walk, p), walk.cursor)' <=> Below(Key(walk, p)', walk.cursor)
      BY DEF Below, NoCursor
    <3>. QED  BY <3>1, <3>4, <3>5, <3>6 DEF Passed
  <2>. QED  BY <2>0, <2>2, <2>3 DEF Passed
<1>3. \A i \in DOMAIN walk'.seen :
       /\ walk'.seen[i][2] \in DOMAIN tasks' /\ tasks'[walk'.seen[i][2]].pc # "called"
       /\ Paging' => Passed(walk.seen[i][2])'
  BY <1>2 DEF Paging
<1>. QED  BY <1>3 DEF WalkOK, Paging, Told, Below

(* The cursor after a page that is not the last: not above its last key,   *)
(* and for every list but the bin that key itself.                         *)
LEMMA NextCursorIs ==
  ASSUME RowsOK, NEW w, NEW page, NEW n, n = Len(page),
         page # << >>, page \in Seq(Keys),
         page[n][2] \in DOMAIN posts, Keyed(w, page[n][2]), page[n] = Key(w, page[n][2])
  PROVE  /\ Len(page) < PageLimit => NextCursor(w, page) = NoCursor
         /\ ~(Len(page) < PageLimit) =>
              /\ NextCursor(w, page) \in Keys
              /\ ~Below(page[n], NextCursor(w, page))
              /\ \/ NextCursor(w, page) = page[n]
                 \/ /\ w.list = "deleted"
                    /\ NextCursor(w, page) = <<posts[page[n][2]].created, page[n][2]>>
<1>. DEFINE p == page[n][2]
<1>1. p \in Nat /\ posts[p].created \in Nat /\ posts[p].deleted \in Nat
      /\ (InBin(p) => posts[p].created <= posts[p].deleted)
  BY DEF RowsOK, Row
<1>2. n \in Nat /\ n # 0 /\ Last(page) = page[n]
  BY DEF Last
<1>3. page[n] \in Keys
  BY <1>2
<1>. HIDE DEF p
<1>4. CASE w.list = "deleted"
  <2>1. CursorOf(w, p) = <<posts[p].created, p>> /\ page[n] = <<posts[p].deleted, p>>
    BY <1>4 DEF CursorOf, Key, p
  <2>2. posts[p].created <= posts[p].deleted
    BY <1>1, <1>4 DEF Keyed, p
  <2>3. CursorOf(w, p) \in Keys
    BY <1>1, <2>1 DEF Keys
  <2>4. CursorOf(w, p) # NoCursor
    BY <2>3, BelowOrders
  <2>5. ~Below(page[n], CursorOf(w, p))
    BY <1>1, <2>1, <2>2, <2>4 DEF Below
  <2>. QED  BY <1>2, <1>4, <2>1, <2>3, <2>5 DEF NextCursor, p
<1>5. CASE w.list # "deleted"
  <2>1. CursorOf(w, p) = page[n]
    BY <1>5 DEF CursorOf, Key, p
  <2>. QED  BY <1>2, <1>3, <2>1, BelowOrders DEF NextCursor, p
<1>. QED  BY <1>4, <1>5

(* A page follows the pages before it, and what it leaves is below it.     *)
LEMMA ReadKeepsWalk ==
  ASSUME WalkOK, RowsOK, TasksOK, ReadPage, UNCHANGED tasks
  PROVE  WalkOK'
<1>1. /\ walk \in Walk /\ walk.pc = "read" /\ UNCHANGED <<posts, saved, now, tasks>>
  BY DEF WalkOK, ReadPage
<1>2. PICK c : c = walk.cursor
  OBVIOUS
<1>3. c \in Cursors /\ (c # NoCursor => c \in Keys)
  BY <1>1, <1>2 DEF Walk, Cursors, Keys
<1>4. PICK S : S = Remaining(walk)
  OBVIOUS
<1>5. PICK page : page = PageOf(walk)
  OBVIOUS
<1>6. PICK next : next = NextCursor(walk, page)
  OBVIOUS
<1>7. /\ S \in SUBSET Keys
      /\ \A k \in S : /\ k[2] \in DOMAIN posts /\ Keyed(walk, k[2]) /\ k = Key(walk, k[2])
                      /\ k[1] <= now /\ (c = NoCursor \/ Below(k, c))
  <2>1. \A k \in S : k \in ListedKeys(walk) /\ (c = NoCursor \/ Below(k, c))
    BY <1>2, <1>4 DEF Remaining, Below
  <2>. QED  BY <1>4, <2>1, RemainingIs, ListedKeyed
<1>8. PICK n : n = Len(page)
  OBVIOUS
<1>9. /\ page \in Seq(S) /\ n \in 0..PageLimit /\ DOMAIN page = 1..n
      /\ \A i, j \in 1..n : page[i] = page[j] => i = j
      /\ \A i \in 1..n : ~Below(page[i], page[n])
      /\ n < PageLimit => \A k \in S : \E i \in 1..n : page[i] = k
      /\ n = PageLimit => \A k \in S : (\E i \in 1..n : page[i] = k) \/ Below(k, page[n])
  <2>1. Remaining(walk) \in SUBSET Keys /\ IsFiniteSet(Remaining(walk))
    BY RemainingIs
  <2>2. /\ page \in Seq(S) /\ n \in 0..PageLimit
        /\ \A i, j \in DOMAIN page : page[i] = page[j] => i = j
        /\ \A i \in DOMAIN page : ~Below(page[i], page[n])
        /\ n < PageLimit => \A k \in S : \E i \in DOMAIN page : page[i] = k
        /\ n = PageLimit =>
             \A k \in S : (\E i \in DOMAIN page : page[i] = k) \/ Below(k, page[n])
    BY <1>4, <1>5, <1>8, <2>1, PageIs
  <2>3. DOMAIN page = 1..n
    BY <1>8, <2>2
  <2>. QED  BY <2>2, <2>3
<1>10. \A i \in 1..n : page[i] \in S
  BY <1>9
<1>11. /\ n < PageLimit => next = NoCursor
       /\ ~(n < PageLimit) =>
            /\ next \in Keys /\ ~Below(page[n], next)
            /\ \/ next = page[n]
               \/ walk.list = "deleted" /\ next = <<posts[page[n][2]].created, page[n][2]>>
  <2>1. CASE n = 0
    BY <1>6, <1>8, <2>1, PostsAssumption DEF NextCursor
  <2>2. CASE n # 0
    <3>1. n \in 1..n /\ page[n] \in S
      BY <1>9, <1>10, <2>2, PostsAssumption
    <3>2. page # << >> /\ page \in Seq(Keys)
      BY <1>7, <1>8, <1>9, <2>2
    <3>. QED  BY <1>6, <1>7, <1>8, <3>1, <3>2, NextCursorIs
  <2>. QED  BY <2>1, <2>2
<1>12. PICK fresh : fresh = [i \in 1..n |-> <<posts[page[i][2]].created, page[i][2]>>]
  OBVIOUS
<1>13. /\ fresh \in Seq(Keys) /\ Len(fresh) = n /\ DOMAIN fresh = 1..n
       /\ \A i \in 1..n : fresh[i] = <<posts[page[i][2]].created, page[i][2]>>
  <2>1. \A i \in 1..n : <<posts[page[i][2]].created, page[i][2]>> \in Keys
    <3>1. \A p \in DOMAIN posts : p \in Nat /\ posts[p].created \in Nat
      BY DEF RowsOK, Row
    <3>. QED  BY <1>7, <1>10, <3>1 DEF Keys
  <2>2. fresh \in [1..n -> Keys] /\ n \in Nat
    BY <1>9, <1>12, <2>1, PostsAssumption
  <2>3. fresh \in Seq(Keys) /\ Len(fresh) = n /\ DOMAIN fresh = 1..n
    BY <2>2
  <2>. QED  BY <1>12, <2>3
<1>14. /\ walk'.list = walk.list /\ walk'.me = walk.me /\ walk'.of = walk.of
       /\ walk'.cursor = next /\ walk'.seen = walk.seen \o fresh
       /\ walk'.must = IF c = NoCursor THEN ListedKeys(walk) ELSE walk.must \cap ListedKeys(walk)
       /\ walk'.pc = IF next = NoCursor THEN "done"
                     ELSE IF walk.list = "grid" THEN "check" ELSE "read"
       /\ walk' \in [list : ListNames \cup {"none"}, me : Users, of : Users,
                     pc : {walk'.pc}, cursor : {walk'.cursor}, seen : {walk'.seen},
                     must : {walk'.must}]
  <2>1. walk' = [walk EXCEPT
          !.must = IF c = NoCursor THEN ListedKeys(walk) ELSE @ \cap ListedKeys(walk),
          !.seen = @ \o fresh,
          !.cursor = next,
          !.pc = IF next = NoCursor THEN "done"
                 ELSE IF walk.list = "grid" THEN "check" ELSE "read"]
    BY <1>2, <1>5, <1>6, <1>9, <1>12 DEF ReadPage
  <2>. QED  BY <1>1, <2>1 DEF Walk
<1>15. PICK seen : seen = walk.seen
  OBVIOUS
<1>16. seen \in Seq(Keys) /\ Len(seen) \in Nat /\ DOMAIN seen = 1..Len(seen)
  BY <1>1, <1>15 DEF Walk, Keys
<1>17. PICK m : m = Len(seen)
  OBVIOUS
<1>18. /\ walk'.seen \in Seq(Keys) /\ DOMAIN walk'.seen = 1..(m + n) /\ m \in Nat /\ n \in Nat
       /\ \A i \in 1..m : walk'.seen[i] = seen[i]
       /\ \A i \in 1..n : walk'.seen[m + i] = fresh[i] /\ m + i \in DOMAIN walk'.seen
       /\ \A i \in DOMAIN walk'.seen : i \in 1..m \/ (i - m \in 1..n /\ i = m + (i - m))
  <2>1. n \in Nat
    BY <1>9, PostsAssumption
  <2>2. walk'.seen = seen \o fresh
    BY <1>14, <1>15
  <2>3. walk'.seen \in Seq(Keys) /\ Len(walk'.seen) = m + n /\ m \in Nat
    BY <1>13, <1>16, <1>17, <2>2
  <2>4. DOMAIN walk'.seen = 1..(m + n)
    BY <2>3
  <2>5. \A i \in 1..(m + n) :
          walk'.seen[i] = IF i <= m THEN seen[i] ELSE fresh[i - m]
    BY <1>13, <1>16, <1>17, <2>1, <2>2
  <2>. QED
    <3>1. \A i \in 1..m : i \in 1..(m + n) /\ i <= m
      BY <2>1, <2>3
    <3>2. \A i \in 1..n : m + i \in 1..(m + n) /\ ~(m + i <= m) /\ (m + i) - m = i
      BY <2>1, <2>3
    <3>3. \A i \in 1..(m + n) : i \in 1..m \/ (i - m \in 1..n /\ i = m + (i - m))
      BY <2>1, <2>3
    <3>. QED  BY <2>1, <2>3, <2>4, <2>5, <3>1, <3>2, <3>3
<1>19. \A p : /\ Keyed(walk, p)' <=> Keyed(walk, p)
              /\ Key(walk, p)' = Key(walk, p)
  BY <1>1, <1>14 DEF Keyed, Key, InBin, Saves, SavedAt
<1>20. ListedKeys(walk) \in SUBSET Keys /\ walk.must \in SUBSET Keys
  BY <1>1, RemainingIs DEF Walk, Keys
<1>21. walk' \in Walk
  <2>1. next \in Cursors
    BY <1>9, <1>11 DEF Cursors, Keys
  <2>2. walk'.must \in SUBSET Keys
    BY <1>14, <1>20
  <2>3. walk'.pc \in {"check", "read", "done", "locked"}
    BY <1>14
  <2>4. walk'.cursor \in Cursors /\ walk'.seen \in Seq(Nat \X Nat)
        /\ walk'.must \in SUBSET (Nat \X Nat)
    BY <1>14, <1>18, <2>1, <2>2 DEF Keys
  <2>. QED  BY <1>14, <2>3, <2>4 DEF Walk
(* What the cursor has passed is not listed below it again.                *)
<1>22. \A i \in 1..m : /\ seen[i][2] \in DOMAIN tasks /\ tasks[seen[i][2]].pc # "called"
                       /\ c # NoCursor /\ ~Below(<<now, seen[i][2]>>, c)
                       /\ seen[i][2] \in DOMAIN posts /\ Keyed(walk, seen[i][2]) =>
                            ~Below(Key(walk, seen[i][2]), c)
  <2>1. Paging
    BY <1>1 DEF Paging
  <2>. QED  BY <1>2, <1>15, <1>16, <1>17, <2>1 DEF WalkOK, Passed
<1>23. \A i \in 1..n : /\ fresh[i][2] = page[i][2] /\ page[i][2] \in DOMAIN posts
                       /\ page[i][2] \in DOMAIN tasks /\ tasks[page[i][2]].pc # "called"
                       /\ Keyed(walk, page[i][2]) /\ page[i] = Key(walk, page[i][2])
                       /\ page[i] \in Keys /\ page[i][1] <= now
                       /\ c = NoCursor \/ Below(page[i], c)
  BY <1>7, <1>10, <1>13 DEF TasksOK
<1>24. \A i, j \in DOMAIN walk'.seen : walk'.seen[i][2] = walk'.seen[j][2] => i = j
  <2>1. \A i \in 1..m, j \in 1..n : seen[i][2] # fresh[j][2]
    BY <1>22, <1>23
  <2>2. \A i, j \in 1..m : seen[i][2] = seen[j][2] => i = j
    BY <1>15, <1>16, <1>17 DEF WalkOK
  <2>3. \A i, j \in 1..n : fresh[i][2] = fresh[j][2] => i = j
    <3>. SUFFICES ASSUME NEW i \in 1..n, NEW j \in 1..n, fresh[i][2] = fresh[j][2]
                  PROVE  i = j
      OBVIOUS
    <3>1. page[i] = page[j]
      BY <1>23
    <3>. QED  BY <1>9, <3>1
  <2>. SUFFICES ASSUME NEW i \in DOMAIN walk'.seen, NEW j \in DOMAIN walk'.seen,
                       walk'.seen[i][2] = walk'.seen[j][2]
                PROVE  i = j
    OBVIOUS
  <2>4. CASE i \in 1..m /\ j \in 1..m
    <3>1. walk'.seen[i] = seen[i] /\ walk'.seen[j] = seen[j]
      BY <1>18, <2>4
    <3>. QED  BY <2>2, <2>4, <3>1
  <2>5. CASE i \in 1..m /\ j \notin 1..m
    <3>1. PICK h \in 1..n : j = m + h
      BY <1>18, <2>5
    <3>2. walk'.seen[i] = seen[i] /\ walk'.seen[j] = fresh[h]
      BY <1>18, <2>5, <3>1
    <3>. QED  BY <2>1, <2>5, <3>2
  <2>6. CASE i \notin 1..m /\ j \in 1..m
    <3>1. PICK h \in 1..n : i = m + h
      BY <1>18, <2>6
    <3>2. walk'.seen[i] = fresh[h] /\ walk'.seen[j] = seen[j]
      BY <1>18, <2>6, <3>1
    <3>. QED  BY <2>1, <2>6, <3>2
  <2>7. CASE i \notin 1..m /\ j \notin 1..m
    <3>1. PICK h \in 1..n : i = m + h
      BY <1>18, <2>7
    <3>2. PICK k \in 1..n : j = m + k
      BY <1>18, <2>7
    <3>3. walk'.seen[i] = fresh[h] /\ walk'.seen[j] = fresh[k]
      BY <1>18, <3>1, <3>2
    <3>4. h = k
      BY <2>3, <3>3
    <3>. QED  BY <3>1, <3>2, <3>4
  <2>. QED  BY <2>4, <2>5, <2>6, <2>7
(* The new cursor is not above the last key, which is below the old one.   *)
<1>25. ASSUME next # NoCursor
       PROVE  /\ n \in 1..n /\ n = PageLimit /\ next \in Keys /\ ~Below(page[n], next)
              /\ \A k \in Keys : c # NoCursor /\ ~Below(k, c) => ~Below(k, next)
  <2>1. n \in 1..n /\ n = PageLimit /\ next \in Keys /\ ~Below(page[n], next)
    BY <1>9, <1>11, <1>18, <1>25, PostsAssumption
  <2>2. page[n] \in Keys /\ (c = NoCursor \/ Below(page[n], c))
    BY <1>23, <2>1
  <2>3. ASSUME NEW k \in Keys, c # NoCursor, ~Below(k, c)
        PROVE  ~Below(k, next)
    <3>1. Below(page[n], k)
      BY <1>3, <2>2, <2>3, BelowOrders
    <3>2. ~Below(k, page[n])
      BY <2>2, <3>1, BelowOrders
    <3>. QED  BY <2>1, <2>2, <3>2, BelowOrders
  <2>. QED  BY <2>1, <2>3
<1>26. ASSUME next # NoCursor, NEW i \in DOMAIN walk'.seen
       PROVE  LET p == walk'.seen[i][2] IN
              /\ ~Below(<<now, p>>, next)
              /\ p \in DOMAIN posts /\ Keyed(walk, p) => ~Below(Key(walk, p), next)
  <2>1. CASE i \in 1..m
    <3>1. walk'.seen[i] = seen[i] /\ seen[i][2] \in Nat
      <4>1. walk'.seen[i] = seen[i]
        BY <1>18, <2>1
      <4>2. i \in DOMAIN seen
        BY <1>16, <1>17, <2>1
      <4>3. seen[i] \in Keys
        BY <1>16, <4>2
      <4>. QED  BY <4>1, <4>3 DEF Keys
    <3>2. <<now, seen[i][2]>> \in Keys
      BY <3>1 DEF RowsOK, Keys
    <3>3. ~Below(<<now, seen[i][2]>>, next)
      BY <1>22, <1>25, <1>26, <2>1, <3>2
    <3>4. ASSUME seen[i][2] \in DOMAIN posts, Keyed(walk, seen[i][2])
          PROVE  ~Below(Key(walk, seen[i][2]), next)
      BY <1>22, <1>25, <1>26, <2>1, <3>4, KeyIs
    <3>. QED  BY <3>1, <3>3, <3>4
  <2>2. CASE i \notin 1..m
    <3>1. PICK h \in 1..n : i = m + h
      BY <1>18, <2>2
    <3>2. walk'.seen[i][2] = page[h][2]
      BY <1>18, <1>23, <3>1
    <3>3. ~Below(page[h], page[n]) /\ ~Below(page[n], next) /\ next \in Keys
          /\ page[n] \in Keys /\ page[h] \in Keys
      BY <1>9, <1>23, <1>25, <1>26
    <3>4. ~Below(page[h], next)
      BY <3>3, BelowOrders
    <3>5. <<now, page[h][2]>> \in Keys /\ ~Below(<<now, page[h][2]>>, page[h])
      <4>1. page[h][1] <= now /\ page[h][1] \in Nat /\ page[h][2] \in Nat /\ now \in Nat
        BY <1>23, <3>3 DEF Keys, RowsOK
      <4>2. page[h] # NoCursor
        BY <3>3, BelowOrders
      <4>. QED  BY <4>1, <4>2 DEF Below, Keys
    <3>6. ~Below(<<now, page[h][2]>>, next)
      BY <3>3, <3>4, <3>5, BelowOrders
    <3>7. Key(walk, page[h][2]) = page[h]
      BY <1>23
    <3>. QED  BY <3>2, <3>4, <3>6, <3>7
  <2>. QED  BY <2>1, <2>2
<1>27. \A i \in DOMAIN walk'.seen :
         /\ walk'.seen[i][2] \in DOMAIN tasks' /\ tasks'[walk'.seen[i][2]].pc # "called"
         /\ Paging' => Passed(walk.seen[i][2])'
  <2>. SUFFICES ASSUME NEW i \in DOMAIN walk'.seen
                PROVE  /\ walk'.seen[i][2] \in DOMAIN tasks' /\ tasks'[walk'.seen[i][2]].pc # "called"
                       /\ Paging' => Passed(walk.seen[i][2])'
    OBVIOUS
  <2>1. walk'.seen[i][2] \in DOMAIN tasks /\ tasks[walk'.seen[i][2]].pc # "called"
    <3>1. CASE i \in 1..m
      BY <1>18, <1>22, <3>1
    <3>2. CASE i \notin 1..m
      <4>1. PICK h \in 1..n : i = m + h
        BY <1>18, <3>2
      <4>2. walk'.seen[i] = fresh[h]
        BY <1>18, <4>1
      <4>3. fresh[h][2] \in DOMAIN tasks /\ tasks[fresh[h][2]].pc # "called"
        BY <1>23
      <4>. QED  BY <4>2, <4>3
    <3>. QED  BY <3>1, <3>2
  <2>2. ASSUME Paging'
        PROVE  Passed(walk.seen[i][2])'
    <3>1. PICK p : p = walk'.seen[i][2]
      OBVIOUS
    <3>2. next # NoCursor
      BY <1>14, <2>2 DEF Paging
    <3>3. /\ ~Below(<<now, p>>, next)
          /\ p \in DOMAIN posts /\ Keyed(walk, p) => ~Below(Key(walk, p), next)
      BY <1>26, <3>1, <3>2
    <3>4. Passed(p)'
      BY <1>1, <1>14, <1>19, <3>2, <3>3 DEF Passed, Below, NoCursor
    <3>. QED  BY <3>1, <3>4 DEF Passed
  <2>. QED  BY <1>1, <2>1, <2>2
(* What was to be told is on the page, or below its last key.              *)
<1>28. ASSUME NEW k \in walk'.must
       PROVE  Told(walk', k) \/ (next # NoCursor /\ Below(k, next))
  <2>1. k \in ListedKeys(walk) /\ k \in Keys
    BY <1>14, <1>20
  <2>2. ASSUME NEW i \in 1..n, page[i] = k
        PROVE  Told(walk', k)
    <3>1. m + i \in DOMAIN walk'.seen /\ walk'.seen[m + i][2] = k[2]
      BY <1>18, <1>23, <2>2
    <3>. QED  BY <3>1 DEF Told
  <2>3. CASE Told(walk, k)
    <3>1. \A i \in DOMAIN walk.seen : i \in DOMAIN walk'.seen /\ walk'.seen[i] = walk.seen[i]
      BY <1>15, <1>16, <1>17, <1>18
    <3>. QED  BY <1>14, <2>3, <3>1 DEF Told
  <2>4. CASE ~Told(walk, k)
    <3>1. c = NoCursor \/ Below(k, c)
      <4>1. c # NoCursor => k \in walk.must /\ Paging
        BY <1>1, <1>14 DEF Paging
      <4>. QED  BY <1>2, <2>4, <4>1 DEF WalkOK
    <3>2. k \in S
      BY <1>2, <1>4, <2>1, <3>1 DEF Remaining, Below
    <3>3. CASE n < PageLimit
      BY <1>9, <2>2, <3>2, <3>3
    <3>4. CASE n = PageLimit
      <4>1. next # NoCursor /\ n \in 1..n
        BY <1>11, <1>18, <3>4, PostsAssumption, BelowOrders
      <4>2. CASE \E i \in 1..n : page[i] = k
        BY <2>2, <4>2
      <4>3. CASE Below(k, page[n]) /\ next = page[n]
        BY <4>1, <4>3
      <4>4. CASE /\ Below(k, page[n]) /\ walk.list = "deleted"
                 /\ next = <<posts[page[n][2]].created, page[n][2]>>
        <5>1. CASE Below(k, next)
          BY <4>1, <5>1
        <5>2. CASE ~Below(k, next)
          <6>1. next[1] <= k[1]
            <7>1. next \in Keys /\ k \in Keys
              BY <1>25, <2>1, <4>1
            <7>2. k[1] \in Nat /\ next[1] \in Nat /\ ~(k[1] < next[1])
              BY <5>2, <7>1 DEF Below, Keys
            <7>. QED  BY <7>2
          <6>2. m + n \in DOMAIN walk'.seen /\ walk'.seen[m + n] = next
            BY <1>13, <1>18, <4>1, <4>4
          <6>. QED  BY <1>14, <4>4, <6>1, <6>2 DEF Told
        <5>. QED  BY <5>1, <5>2
      <4>. QED  BY <1>9, <1>11, <3>2, <3>4, <4>1, <4>2, <4>3, <4>4
    <3>. QED  BY <1>9, <1>18, <3>3, <3>4, PostsAssumption
  <2>. QED  BY <2>3, <2>4
<1>29. /\ Paging' /\ walk'.cursor # NoCursor =>
            \A k \in walk'.must : Told(walk', k) \/ Below(k, walk'.cursor)
       /\ walk'.pc = "done" => \A k \in walk'.must : Told(walk', k)
  <2>1. walk'.pc = "done" => next = NoCursor
    BY <1>14
  <2>. QED  BY <1>14, <1>28, <2>1
<1>30. \A k : (Told(walk, k)' <=> Told(walk', k)) /\ (Below(k, walk.cursor)' <=> Below(k, walk'.cursor))
  BY DEF Told, Below, NoCursor
<1>. QED  BY <1>21, <1>24, <1>27, <1>29, <1>30 DEF WalkOK, NoCursor

LEMMA AskKeepsWalk ==
  ASSUME NEW list \in ListNames, NEW me \in Users, NEW of \in Users, AskList(list, me, of)
  PROVE  WalkOK'
<1>1. walk' = [NoWalk EXCEPT !.list = list, !.me = me, !.of = of,
                             !.pc = IF list = "grid" THEN "check" ELSE "read"]
  BY DEF AskList
<1>2. /\ walk'.seen = << >> /\ walk'.must = {} /\ walk'.cursor = NoCursor
      /\ walk'.pc \in {"check", "read"}
      /\ walk' = [list |-> list, me |-> me, of |-> of,
                  pc |-> IF list = "grid" THEN "check" ELSE "read", cursor |-> NoCursor,
                  seen |-> << >>, must |-> {}]
  BY <1>1 DEF NoWalk
<1>3. walk' \in Walk
  BY <1>2 DEF Walk, Cursors
<1>4. DOMAIN walk'.seen = {}
  BY <1>2
<1>. QED  BY <1>2, <1>3, <1>4 DEF WalkOK, NoCursor

LEMMA CheckKeepsWalk ==
  ASSUME WalkOK, CheckGrid, UNCHANGED tasks
  PROVE  WalkOK'
<1>1. /\ walk \in Walk /\ walk.pc = "check" /\ UNCHANGED <<posts, saved, now, tasks>>
  BY DEF CheckGrid, WalkOK
<1>2. PICK pc \in {"locked", "read"} : walk' = [walk EXCEPT !.pc = pc]
  BY DEF CheckGrid
<1>3. /\ walk' \in Walk /\ walk'.pc = pc /\ walk'.list = walk.list /\ walk'.me = walk.me
      /\ walk'.cursor = walk.cursor /\ walk'.seen = walk.seen /\ walk'.must = walk.must
  BY <1>1, <1>2 DEF Walk
<1>4. \A p : /\ Keyed(walk, p)' <=> Keyed(walk, p)
             /\ Key(walk, p)' = Key(walk, p)
  BY <1>1, <1>3 DEF Keyed, Key, InBin, Saves, SavedAt
<1>5. \A p : Passed(p) => Passed(p)'
  BY <1>1, <1>3, <1>4 DEF Passed, Below, NoCursor
<1>6. \A k : Told(walk, k) => Told(walk, k)'
  BY <1>3 DEF Told
<1>7. \A i \in DOMAIN walk'.seen :
       /\ walk'.seen[i][2] \in DOMAIN tasks' /\ tasks'[walk'.seen[i][2]].pc # "called"
       /\ Paging' => Passed(walk.seen[i][2])'
  <2>1. Paging
    BY <1>1 DEF Paging
  <2>2. \A i \in DOMAIN walk.seen : Passed(walk.seen[i][2])
    BY <2>1 DEF WalkOK
  <2>3. ASSUME NEW i \in DOMAIN walk.seen PROVE Passed(walk.seen[i][2])'
    <3>1. PICK p : p = walk.seen[i][2]
      OBVIOUS
    <3>2. Passed(p)'
      BY <1>5, <2>2, <3>1
    <3>. QED  BY <1>3, <3>1, <3>2 DEF Passed
  <2>. QED  BY <1>1, <1>3, <2>3 DEF WalkOK
<1>8. \A i, j \in DOMAIN walk'.seen : walk'.seen[i][2] = walk'.seen[j][2] => i = j
  BY <1>3 DEF WalkOK
<1>9. Paging' /\ walk'.cursor # NoCursor =>
        \A k \in walk'.must : Told(walk, k)' \/ Below(k, walk'.cursor)
  BY <1>1, <1>3, <1>6 DEF WalkOK, Paging
<1>10. walk'.pc # "done"
  BY <1>3
<1>11. \A k : Below(k, walk.cursor)' <=> Below(k, walk'.cursor)
  BY DEF Below, NoCursor
<1>. QED  BY <1>3, <1>7, <1>8, <1>9, <1>10, <1>11 DEF WalkOK, NoCursor

LEMMA EditsLeaveKeys ==
  ASSUME RowsOK, NEW p \in DOMAIN posts, NEW u \in Users, AuthorEdits(p, u)
  PROVE  KeysStay
<1>1. UNCHANGED <<now, saved, walk>>
  BY DEF AuthorEdits, SoftDelete, HardDelete, Archive, Unarchive, Restore, postsOnly
<1>2. \A q : Saves(q, walk.me)' = Saves(q, walk.me) /\ SavedAt(q, walk.me)' = SavedAt(q, walk.me)
  BY <1>1 DEF Saves, SavedAt
<1>3. ASSUME NEW q \in DOMAIN posts \cap DOMAIN posts'
      PROVE  /\ posts'[q].created = posts[q].created
             /\ posts'[q].deleted \in {posts[q].deleted, now, 0}
  <2>0. posts[p] \in Row
    BY DEF RowsOK
  <2>1. CASE SoftDelete(p, u) \/ Archive(p, u) \/ Unarchive(p, u) \/ Restore(p, u)
    BY <2>0, <2>1 DEF SoftDelete, Archive, Unarchive, Restore, Row
  <2>2. CASE HardDelete(p, u)
    BY <2>2 DEF HardDelete
  <2>. QED  BY <2>1, <2>2 DEF AuthorEdits
<1>. SUFFICES ASSUME NEW q \in DOMAIN posts \cap DOMAIN posts', Keyed(walk, q)'
              PROVE  \/ Keyed(walk, q) /\ Key(walk, q)' = Key(walk, q)
                     \/ Key(walk, q)' = <<now', q>>
  BY DEF KeysStay
<1>4. CASE walk.list = "deleted"
  <2>1. posts'[q].deleted # 0 /\ Key(walk, q)' = <<posts'[q].deleted, q>>
        /\ Key(walk, q) = <<posts[q].deleted, q>>
    BY <1>1, <1>4 DEF Keyed, Key, InBin
  <2>2. CASE posts'[q].deleted = now
    BY <1>1, <2>1, <2>2
  <2>3. CASE posts'[q].deleted = posts[q].deleted
    BY <1>4, <2>1, <2>3 DEF Keyed, InBin
  <2>. QED  BY <1>3, <2>1, <2>2, <2>3
<1>5. CASE walk.list # "deleted"
  BY <1>1, <1>2, <1>3, <1>5 DEF Keyed, Key
<1>. QED  BY <1>4, <1>5

LEMMA SavesLeaveKeys ==
  ASSUME RowsOK, NEW p \in DOMAIN posts, NEW u \in Users, Save(p, u) \/ Unsave(p, u)
  PROVE  KeysStay
<1>1. UNCHANGED <<now, posts, walk>>
  BY DEF Save, Unsave
<1>. SUFFICES ASSUME NEW q \in DOMAIN posts, Keyed(walk, q)'
              PROVE  \/ Keyed(walk, q) /\ Key(walk, q)' = Key(walk, q)
                     \/ Key(walk, q)' = <<now', q>>
  BY DEF KeysStay
<1>2. PICK me : me = walk.me /\ me = walk'.me
  BY <1>1
<1>3. CASE walk.list # "saved"
  BY <1>1, <1>3 DEF Keyed, Key, InBin
<1>4. CASE walk.list = "saved"
  <2>1. Saves(q, me)' # {}
    BY <1>1, <1>2, <1>4 DEF Keyed, Saves
  <2>2. CASE Saves(q, me)' = Saves(q, me)
    BY <1>1, <1>2, <1>4, <2>1, <2>2 DEF Keyed, Key, SavedAt
  <2>3. CASE Saves(q, me)' = {<<u, p, now>>}
    <3>1. PICK row : row = <<u, p, now>>
      OBVIOUS
    <3>2. SavedAt(q, me)' = now
      <4>1. (CHOOSE s \in {row} : TRUE) = row
        OBVIOUS
      <4>2. SavedAt(q, me)' = row[3]
        BY <2>3, <3>1, <4>1 DEF SavedAt
      <4>. QED  BY <3>1, <4>2
    <3>. QED  BY <1>1, <1>2, <1>4, <3>2 DEF Key, SavedAt, Saves
  <2>4. \/ Saves(q, me)' = Saves(q, me)
        \/ Saves(q, me)' = {}
        \/ Saves(q, me)' = {<<u, p, now>>}
    <3>1. CASE q = p /\ me = u
      <4>1. CASE saved' = saved
        BY <4>1 DEF Saves
      <4>2. CASE saved' = saved \ Saves(p, u)
        BY <3>1, <4>2 DEF Saves
      <4>3. CASE saved' = saved \cup {<<u, p, now>>} /\ Saves(p, u) = {}
        BY <3>1, <4>3 DEF Saves
      <4>. QED  BY <4>1, <4>2, <4>3 DEF Save, Unsave
    <3>2. CASE ~(q = p /\ me = u)
      <4>1. \A s : s[1] = me /\ s[2] = q => (s \in saved' <=> s \in saved)
        BY <3>2 DEF Save, Unsave, Saves
      <4>. QED  BY <4>1 DEF Saves
    <3>. QED  BY <3>1, <3>2
  <2>. QED  BY <2>1, <2>2, <2>3, <2>4
<1>. QED  BY <1>3, <1>4

QuietWalk ==
  \/ UNCHANGED <<walk, tasks>> /\ DOMAIN posts' \subseteq DOMAIN posts
  \/ \E t \in DOMAIN tasks : RunTask(t)
  \/ \E kind, u, what, expires : Called(kind, u, what, expires)
  \/ Crash \/ TagStatement

LEMMA TasksLeaveWalk ==
  ASSUME TasksOK, RowsOK, WalkOK, KeysStay, QuietWalk, now' \in {now, now + 1}
  PROVE  WalkOK'
<1>. DEFINE Grow ==
       \A t \in DOMAIN tasks :
         t \in DOMAIN tasks' /\ (tasks[t].pc # "called" => tasks'[t].pc # "called")
            New == \A p \in DOMAIN posts' : p \in DOMAIN posts \/ tasks[p].pc = "called"
<1>0. tasks \in Seq(Task) /\ now \in Nat
  BY DEF TasksOK, RowsOK
<1>. SUFFICES UNCHANGED walk /\ Grow /\ New
  BY <1>0, RestKeepsWalk
<1>1. CASE UNCHANGED <<walk, tasks>> /\ DOMAIN posts' \subseteq DOMAIN posts
  BY <1>1
<1>2. ASSUME NEW t \in DOMAIN tasks, RunTask(t)
      PROVE  UNCHANGED walk /\ Grow /\ New
  <2>1. PICK pc \in Stages \ {"called"} : Goto(t, pc)
    <3>1. CASE PostJob(t)
      BY <3>1 DEF PostJob, Stages
    <3>2. CASE StoryJob(t)
      BY <3>2 DEF StoryJob, Stages
    <3>3. CASE Pin(t)
      BY <3>3 DEF Pin, AfterMedia, Stages
    <3>4. CASE HangUp(t)
      BY <3>4 DEF HangUp, Stages
    <3>. QED  BY <1>2, <3>1, <3>2, <3>3, <3>4 DEF RunTask
  <2>2. Grow
    BY <1>0, <2>1, GotoMoves
  <2>3. UNCHANGED walk /\ New
    <3>1. CASE PostJob(t)
      <4>1. DOMAIN posts' = DOMAIN posts \cup {t} /\ tasks[t].pc = "called" /\ UNCHANGED walk
        BY <3>1 DEF PostJob
      <4>. QED  BY <4>1
    <3>2. CASE StoryJob(t) \/ Pin(t) \/ HangUp(t)
      BY <3>2 DEF StoryJob, Pin, HangUp
    <3>. QED  BY <1>2, <3>1, <3>2 DEF RunTask
  <2>. QED  BY <2>2, <2>3
<1>3. ASSUME NEW kind, NEW u, NEW what, NEW expires, Called(kind, u, what, expires)
      PROVE  UNCHANGED walk /\ Grow /\ New
  <2>1. PICK w : tasks' = Append(tasks, w)
    BY <1>3 DEF Called
  <2>2. \A t \in DOMAIN tasks : t \in DOMAIN tasks' /\ tasks'[t] = tasks[t]
    BY <1>0, <2>1
  <2>. QED  BY <1>3, <2>2 DEF Called
<1>4. CASE Crash
  <2>1. ASSUME NEW t \in DOMAIN tasks
        PROVE  t \in DOMAIN tasks' /\ (tasks[t].pc # "called" => tasks'[t].pc # "called")
    <3>1. t \in DOMAIN tasks' /\ tasks'[t] \in {tasks[t], [tasks[t] EXCEPT !.pc = "lost"]}
      BY <1>4 DEF Crash
    <3>2. tasks[t] \in Task
      BY <1>0
    <3>3. [tasks[t] EXCEPT !.pc = "lost"].pc = "lost"
      BY <3>2 DEF Task
    <3>. QED  BY <3>1, <3>3
  <2>. QED  BY <1>4, <2>1 DEF Crash
<1>5. CASE TagStatement
  <2>1. PICK t : /\ tasks' = [tasks EXCEPT ![t].pc = IF tasks[t].pc = "job" THEN "media" ELSE @]
                 /\ posts' = [posts EXCEPT ![t].tagged = TRUE] /\ UNCHANGED walk
    BY <1>5 DEF TagStatement, Goto
  <2>2. DOMAIN tasks' = DOMAIN tasks /\ DOMAIN posts' = DOMAIN posts
    BY <2>1
  <2>3. ASSUME NEW s \in DOMAIN tasks, tasks[s].pc # "called" PROVE tasks'[s].pc # "called"
    <3>1. tasks[s] \in Task
      BY <1>0
    <3>2. CASE s # t
      BY <2>1, <2>3, <3>2
    <3>3. CASE s = t
      <4>1. tasks'[s] = [tasks[s] EXCEPT !.pc = IF tasks[s].pc = "job" THEN "media" ELSE tasks[s].pc]
        BY <2>1, <3>3
      <4>. QED  BY <2>3, <3>1, <4>1 DEF Task
    <3>. QED  BY <3>2, <3>3
  <2>. QED  BY <2>1, <2>2, <2>3
<1>. QED  BY <1>1, <1>2, <1>3, <1>4, <1>5 DEF QuietWalk

LEMMA RowsLeaveKeys ==
  ASSUME UNCHANGED <<walk, saved>>,
         \A p \in DOMAIN posts \cap DOMAIN posts' :
           posts'[p].created = posts[p].created /\ posts'[p].deleted = posts[p].deleted
  PROVE  KeysStay
<1>1. \A q : Saves(q, walk.me)' = Saves(q, walk.me) /\ SavedAt(q, walk.me)' = SavedAt(q, walk.me)
  BY DEF Saves, SavedAt
<1>. QED  BY <1>1 DEF KeysStay, Keyed, Key, InBin

LEMMA WalkInvariance ==
  ASSUME ContentIInv, WalkOK, [ContentNext]_contentVars
  PROVE  WalkOK'
<1>0. TasksOK /\ RowsOK /\ now \in Nat /\ \A p \in DOMAIN posts : posts[p] \in Row
  BY DEF ContentIInv, PublishOK, RowsOK
<1>1. ASSUME UNCHANGED <<walk, tasks, posts, saved>>, now' \in {now, now + 1}
      PROVE  WalkOK'
  <2>1. KeysStay
    BY <1>1, RowsLeaveKeys
  <2>. QED  BY <1>0, <1>1, <2>1, TasksLeaveWalk DEF QuietWalk
<1>2. CASE UNCHANGED contentVars
  BY <1>1, <1>2 DEF contentVars, publishVars
<1>3. ASSUME NEW kind, NEW u, NEW what, NEW expires, Called(kind, u, what, expires)
      PROVE  WalkOK'
  <2>1. UNCHANGED <<walk, saved, posts, now>>
    BY <1>3 DEF Called
  <2>2. KeysStay
    BY <2>1, RowsLeaveKeys
  <2>. QED  BY <1>0, <1>3, <2>1, <2>2, TasksLeaveWalk DEF QuietWalk
<1>4. ASSUME NEW t \in DOMAIN tasks, RunTask(t)
      PROVE  WalkOK'
  <2>1. UNCHANGED <<walk, saved, now>>
    BY <1>4 DEF RunTask, PostJob, StoryJob, Pin, HangUp
  <2>2. \A p \in DOMAIN posts : p \in DOMAIN posts' /\ posts'[p] = posts[p]
    <3>1. CASE PostJob(t)
      <4>1. t \notin DOMAIN posts
        BY <1>0, <3>1 DEF PostJob, TasksOK
      <4>2. posts' = [p \in DOMAIN posts \cup {t} |->
                       IF p = t THEN NewRow(tasks[t].by, tasks[t].what) ELSE posts[p]]
        BY <3>1 DEF PostJob
      <4>. HIDE DEF NewRow
      <4>. QED  BY <4>1, <4>2
    <3>2. CASE StoryJob(t) \/ Pin(t) \/ HangUp(t)
      BY <3>2 DEF StoryJob, Pin, HangUp
    <3>. QED  BY <1>4, <3>1, <3>2 DEF RunTask
  <2>3. KeysStay
    BY <2>1, <2>2, RowsLeaveKeys
  <2>. QED  BY <1>0, <1>4, <2>1, <2>3, TasksLeaveWalk DEF QuietWalk
<1>5. ASSUME NEW p \in DOMAIN posts, NEW u \in Users, EditRequest(p, u) \/ SaveRequest(p, u)
      PROVE  WalkOK'
  <2>1. /\ AuthorEdits(p, u) \/ Save(p, u) \/ Unsave(p, u)
        /\ UNCHANGED tasks
    BY <1>5 DEF EditRequest, SaveRequest, Counted, publishVars
  <2>2. KeysStay
    BY <1>0, <2>1, EditsLeaveKeys, SavesLeaveKeys
  <2>3. DOMAIN posts' \subseteq DOMAIN posts /\ UNCHANGED <<walk, now>>
    BY <2>1 DEF AuthorEdits, SoftDelete, HardDelete, Archive, Unarchive, Restore, postsOnly,
                Save, Unsave
  <2>. QED  BY <1>0, <2>1, <2>2, <2>3, TasksLeaveWalk DEF QuietWalk
<1>6. ASSUME NEW list \in ListNames, NEW me \in Users, NEW of \in Users, Reading(list, me, of)
      PROVE  WalkOK'
  BY <1>6, AskKeepsWalk DEF Reading
<1>7. CASE PageStep
  <2>1. UNCHANGED tasks
    BY <1>7 DEF PageStep, publishVars
  <2>. QED  BY <1>0, <1>7, <2>1, CheckKeepsWalk, ReadKeepsWalk DEF PageStep, WalkStep
<1>8. CASE TagStatement
  <2>1. PICK t : posts' = [posts EXCEPT ![t].tagged = TRUE] /\ UNCHANGED <<walk, saved, now>>
    BY <1>8 DEF TagStatement
  <2>2. \A p \in DOMAIN posts :
          posts'[p].created = posts[p].created /\ posts'[p].deleted = posts[p].deleted
    BY <1>0, <2>1 DEF Row
  <2>3. KeysStay
    BY <2>1, <2>2, RowsLeaveKeys
  <2>. QED  BY <1>0, <1>8, <2>1, <2>3, TasksLeaveWalk DEF QuietWalk
<1>9. CASE Crash
  <2>1. UNCHANGED <<walk, saved, posts, now>>
    BY <1>9 DEF Crash
  <2>2. KeysStay
    BY <2>1, RowsLeaveKeys
  <2>. QED  BY <1>0, <1>9, <2>1, <2>2, TasksLeaveWalk DEF QuietWalk
<1>10. ASSUME NEW a \in Users, NEW b \in Users, GraphRequest(a, b) PROVE WalkOK'
  BY <1>1, <1>10 DEF GraphRequest, Counted, publishVars
<1>11. ASSUME NEW u \in Users, NEW v \in {"public", "private", "absent"}, PrivacyRequest(u, v)
       PROVE  WalkOK'
  BY <1>1, <1>11 DEF PrivacyRequest, Counted, publishVars
<1>12. CASE ReportUser \/ GraphJob \/ Worker \/ Sweep \/ Pass \/ \E c \in Cids : MediaAnnounce(c)
  BY <1>1, <1>12 DEF ReportUser, GraphJob, Worker, Sweep, Pass, MediaAnnounce, publishVars
<1>. QED  BY <1>2, <1>3, <1>4, <1>5, <1>6, <1>7, <1>8, <1>9, <1>10, <1>11, <1>12
          DEF ContentNext, CallPost, CallStory

LEMMA InitWalk ==
  ASSUME ContentInit
  PROVE  WalkOK
<1>1. walk = NoWalk
  BY DEF ContentInit, PostsInit
<1>2. /\ walk.list = "none" /\ walk.pc = "done" /\ walk.cursor = NoCursor
      /\ walk.seen = << >> /\ walk.must = {}
  BY <1>1 DEF NoWalk
<1>3. (CHOOSE u \in Users : TRUE) \in Users
  BY PostsAssumption
<1>4. walk \in Walk
  BY <1>1, <1>3 DEF NoWalk, Walk, Cursors
<1>. QED  BY <1>2, <1>4 DEF WalkOK, Paging

WalkIInv == ContentIInv /\ WalkOK

(* Who pages to the end of a list sees every post that stayed in it, and   *)
(* none twice, however long the list is, whatever the size of a page and   *)
(* whatever authors, users and the clock do between two pages.             *)
THEOREM PagesCompleteAlways == ContentSpec => []PagesComplete
<1>1. ContentInit => WalkIInv
  BY InitContent, InitWalk DEF WalkIInv
<1>2. WalkIInv /\ [ContentNext]_contentVars => WalkIInv'
  BY ContentInvariance, WalkInvariance DEF WalkIInv
<1>3. WalkIInv => PagesComplete
  BY DEF WalkIInv, WalkOK, PagesComplete, Told
<1>. QED  BY <1>1, <1>2, <1>3, PTL DEF ContentSpec

BoundsOK ==
  /\ mix \in Mixes /\ Len(tasks) - Len(Old) <= MaxTasks
  /\ calls \in 0..MaxCalls /\ crashes \in 0..MaxCrashes

LEMMA BoundsInvariance ==
  ASSUME ContentIInv, BoundsOK, [ContentNext]_contentVars
  PROVE  BoundsOK'
<1>0. tasks \in Seq(Task) /\ Len(tasks) \in Nat /\ Len(Old) \in Nat
  BY OldTyped DEF ContentIInv, PublishOK, TasksOK, BoundsOK
<1>1. ASSUME mix' = mix, Len(tasks') = Len(tasks), UNCHANGED crashes,
             UNCHANGED calls \/ (calls < MaxCalls /\ calls' = calls + 1)
      PROVE  BoundsOK'
  BY <1>1, ContentAssumption DEF BoundsOK, Old
<1>2. CASE UNCHANGED contentVars
  BY <1>1, <1>2 DEF contentVars, publishVars, boundVars
<1>3. ASSUME NEW kind, NEW u, NEW what, NEW expires, Called(kind, u, what, expires)
      PROVE  BoundsOK'
  <2>1. UNCHANGED <<mix, calls, crashes>> /\ Len(tasks) - Len(Old) < MaxTasks
    BY <1>3 DEF Called, boundVars
  <2>2. Len(tasks') = Len(tasks) + 1
    BY <1>0, <1>3 DEF Called
  <2>. QED  BY <1>0, <2>1, <2>2, ContentAssumption DEF BoundsOK, Old
<1>4. ASSUME NEW t \in DOMAIN tasks, RunTask(t)
      PROVE  BoundsOK'
  <2>1. UNCHANGED boundVars /\ \E pc : tasks' = [tasks EXCEPT ![t].pc = pc]
    BY <1>4 DEF RunTask, PostJob, StoryJob, Pin, HangUp, Goto
  <2>2. Len(tasks') = Len(tasks)
    BY <1>0, <2>1
  <2>. QED  BY <1>1, <2>1, <2>2 DEF boundVars
<1>5. ASSUME \E kind : Counted(kind)
      PROVE  BoundsOK'
  BY <1>1, <1>5 DEF Counted, publishVars
<1>6. CASE TagStatement
  <2>1. UNCHANGED boundVars /\ \E t, pc : tasks' = [tasks EXCEPT ![t].pc = pc]
    BY <1>6 DEF TagStatement, Goto
  <2>2. Len(tasks') = Len(tasks)
    BY <1>0, <2>1
  <2>. QED  BY <1>1, <2>1, <2>2 DEF boundVars
<1>7. CASE Crash
  <2>1. DOMAIN tasks' = 1..Len(tasks)
    BY <1>0, <1>7 DEF Crash
  <2>2. tasks' \in Seq(Task)
    BY <1>7, CrashKeepsPublish DEF ContentIInv, PublishOK, TasksOK
  <2>3. Len(tasks') = Len(tasks)
    BY <1>0, <2>1, <2>2
  <2>. QED  BY <1>0, <1>7, <2>3, ContentAssumption DEF BoundsOK, Old, Crash
<1>8. ASSUME UNCHANGED <<tasks, boundVars>> PROVE BoundsOK'
  BY <1>1, <1>8 DEF boundVars
<1>9. CASE \/ \E c \in Cids : MediaAnnounce(c)
           \/ \E list \in ListNames, me, of \in Users : Reading(list, me, of)
           \/ ReportUser \/ PageStep \/ GraphJob \/ Worker \/ Sweep \/ Pass
  BY <1>8, <1>9 DEF MediaAnnounce, Reading, ReportUser, PageStep, GraphJob, Worker, Sweep, Pass,
                    publishVars
<1>. QED  BY <1>2, <1>3, <1>4, <1>5, <1>6, <1>7, <1>9
          DEF ContentNext, CallPost, CallStory, GraphRequest, PrivacyRequest, EditRequest, SaveRequest

(* What the model's variables hold, and that a row that refers to another  *)
(* finds it: saves their posts, posts and stories their requests.          *)
THEOREM ContentTypeCorrect == ContentSpec => []ContentTypeOK
<1>1. ContentInit => WalkIInv /\ BoundsOK
  <2>. SUFFICES ASSUME ContentInit PROVE WalkIInv /\ BoundsOK
    OBVIOUS
  <2>1. WalkIInv /\ mix \in Mixes /\ calls = 0 /\ crashes = 0
    BY InitContent, InitWalk DEF WalkIInv, ContentInit
  <2>2. DOMAIN tasks = DOMAIN Old /\ tasks \in Seq(Task)
    BY <2>1 DEF ContentInit, WalkIInv, ContentIInv, PublishOK, TasksOK
  <2>3. Len(tasks) = Len(Old) /\ Len(Old) \in Nat
    BY <2>1, <2>2, OldTyped
  <2>. QED  BY <2>1, <2>3, ContentAssumption DEF BoundsOK
<1>2. WalkIInv /\ BoundsOK /\ [ContentNext]_contentVars => WalkIInv' /\ BoundsOK'
  BY ContentInvariance, WalkInvariance, BoundsInvariance DEF WalkIInv
<1>3. WalkIInv /\ BoundsOK => ContentTypeOK
  <2>. SUFFICES ASSUME WalkIInv, BoundsOK PROVE ContentTypeOK
    OBVIOUS
  <2>1. GraphTypeOK /\ PinningTypeOK
    BY DEF WalkIInv, ContentIInv, GraphIInv, PinsOK
  <2>2. PostsTypeOK
    BY DEF WalkIInv, ContentIInv, RowsOK, WalkOK, PostsTypeOK
  <2>3. TasksOK
    BY DEF WalkIInv, ContentIInv, PublishOK
  <2>. QED  BY <2>1, <2>2, <2>3 DEF BoundsOK, TasksOK, TagsOf, ContentTypeOK
<1>. QED  BY <1>1, <1>2, <1>3, PTL DEF ContentSpec

(* What a step does to the queue of pins and to the service.               *)
LEMMA PinStep ==
  ASSUME ContentIInv, ContentNext
  PROVE  \/ \E c \in Cids : Enqueue(c)
         \/ PinByCid \/ WriteBack \/ UNCHANGED <<status, attempts, remote>>
<1>1. ASSUME NEW t \in DOMAIN tasks, RunTask(t)
      PROVE  (\E c \in Cids : Enqueue(c)) \/ UNCHANGED pinVars
  <2>1. CASE Pin(t)
    BY <2>1, PinKeepsPublish DEF ContentIInv
  <2>2. CASE PostJob(t) \/ StoryJob(t) \/ HangUp(t)
    BY <2>2 DEF PostJob, StoryJob, HangUp
  <2>. QED  BY <1>1, <2>1, <2>2 DEF RunTask
<1>2. CASE (\E c \in Cids : MediaAnnounce(c)) \/ ReportUser
  BY <1>2, ContentAssumption DEF MediaAnnounce, ReportUser
<1>3. CASE Worker \/ Crash
  <2>1. WriteBack \/ Poll \/ PinByCid \/ PinningCrash
    BY <1>3 DEF Worker, Crash
  <2>. QED  BY <2>1 DEF Poll, PinningCrash, pinTable
<1>4. CASE \/ \E u \in Users, what \in Uploads : CallPost(u, what)
           \/ \E u \in Users, what \in Uploads, ttl \in 1..StoryTtl : CallStory(u, what, ttl)
           \/ \E a, b \in Users : GraphRequest(a, b)
           \/ \E u \in Users, v \in {"public", "private", "absent"} : PrivacyRequest(u, v)
           \/ \E p \in DOMAIN posts, u \in Users : EditRequest(p, u) \/ SaveRequest(p, u)
           \/ \E list \in ListNames, me, of \in Users : Reading(list, me, of)
           \/ PageStep \/ GraphJob \/ TagStatement \/ Sweep \/ Pass
  <2>1. UNCHANGED pinVars
    BY <1>4 DEF CallPost, CallStory, Called, GraphRequest, PrivacyRequest, EditRequest,
                SaveRequest, Counted, Reading, PageStep, GraphJob, TagStatement, Sweep, Pass
  <2>. QED  BY <2>1 DEF pinVars, pinTable, pinWorker
<1>5. UNCHANGED pinVars => UNCHANGED <<status, attempts, remote>>
  BY DEF pinVars, pinTable, pinWorker
<1>. QED  BY <1>1, <1>2, <1>3, <1>4, <1>5 DEF ContentNext

(* A write-back is of a pending job, and counts one attempt of it.         *)
LEMMA WriteBackIs ==
  ASSUME PinsOK, WriteBack
  PROVE  LET c == work[1][1] IN
         /\ c \in Cids /\ status[c] = "pending" /\ attempts[c] < MaxAttempts
         /\ attempts' = [attempts EXCEPT ![c] = attempts[c] + 1]
         /\ status' = [status EXCEPT ![c] = NextStatus(attempts[c] + 1)]
         /\ answer = "ok" => c \in remote
<1>1. work # << >> /\ work \in Seq(Cids \X (0..(MaxAttempts - 1)))
  BY DEF WriteBack, PinsOK, PinningTypeOK
<1>2. 1 \in 1..Len(work) /\ Head(work) = work[1]
  BY <1>1
<1>3. work[1][1] \in Cids /\ status[work[1][1]] = "pending" /\ attempts[work[1][1]] = work[1][2]
  BY <1>1, <1>2 DEF PinsOK, JobsConsistent
<1>. QED  BY <1>2, <1>3 DEF WriteBack, PinsOK, JobsConsistent

(* A job that was pinned or has failed is settled: neither another enqueue *)
(* of its cid nor a write-back of the worker, made from a row that was     *)
(* read before its call, takes it up again; and no attempt is uncounted.   *)
SettledStay ==
  [][\A c \in Cids : /\ attempts[c] <= attempts'[c]
                     /\ status[c] \in {"pinned", "failed"} =>
                          status'[c] = status[c] /\ attempts'[c] = attempts[c]]_contentVars

(* Settled jobs stay settled, for any queue, batch and number of deaths.   *)
THEOREM SettledJobsStay == ContentSpec => SettledStay
<1>. DEFINE Stay == \A c \in Cids :
       /\ attempts[c] <= attempts'[c]
       /\ status[c] \in {"pinned", "failed"} =>
            status'[c] = status[c] /\ attempts'[c] = attempts[c]
<1>1. ASSUME ContentIInv, ContentNext PROVE Stay
  <2>1. /\ PinsOK /\ \A c \in Cids : attempts[c] \in Nat
        /\ DOMAIN status = Cids /\ DOMAIN attempts = Cids
    BY <1>1, PinningAssumption DEF ContentIInv, PinsOK, PinningTypeOK
  <2>2. CASE UNCHANGED <<status, attempts>>
    BY <2>1, <2>2
  <2>3. ASSUME NEW c \in Cids, Enqueue(c) PROVE Stay
    BY <2>1, <2>3 DEF Enqueue
  <2>4. CASE WriteBack
    <3>1. PICK d \in Cids : /\ status[d] = "pending"
                            /\ attempts' = [attempts EXCEPT ![d] = attempts[d] + 1]
                            /\ \E s : status' = [status EXCEPT ![d] = s]
      BY <2>1, <2>4, WriteBackIs
    <3>. QED  BY <2>1, <3>1
  <2>5. PinByCid => UNCHANGED <<status, attempts>>
    BY DEF PinByCid, pinTable
  <2>. QED  BY <1>1, <2>2, <2>3, <2>4, <2>5, PinStep
<1>2. ContentSpec => []ContentIInv
  BY InitContent, ContentInvariance, PTL DEF ContentSpec
<1>. QED  BY <1>1, <1>2, PTL DEF ContentSpec, SettledStay

-----------------------------------------------------------------------------
(* A queue with retries.                                                   *)

(* One job's status changes, to one that is called s or something else in  *)
(* the abstract queue.                                                     *)
LEMMA OutcomeOfOne ==
  ASSUME PinsOK, NEW c \in Cids, NEW s, status' = [status EXCEPT ![c] = s]
  PROVE  Outcome' = [Outcome EXCEPT ![c] = CASE s = "pinned" -> "done"
                                             [] s = "failed" -> "spent"
                                             [] OTHER -> s]
<1>1. DOMAIN status = Cids
  BY DEF PinsOK, PinningTypeOK
<1>2. status'[c] = s /\ \A d \in Cids \ {c} : status'[d] = status[d]
  BY <1>1
<1>. QED  BY <1>2 DEF Outcome

LEMMA EnqueueSubmits ==
  ASSUME PinsOK, NEW c \in Cids, Enqueue(c)
  PROVE  [Queue!RetryNext]_<<Outcome, attempts, remote>>
<1>1. UNCHANGED <<attempts, remote>>
  BY DEF Enqueue, pinWorker
<1>2. CASE status[c] # "none"
  BY <1>1, <1>2 DEF Enqueue, Outcome
<1>3. CASE status[c] = "none"
  <2>1. Outcome' = [Outcome EXCEPT ![c] = "pending"]
    BY <1>3, OutcomeOfOne DEF Enqueue
  <2>2. Outcome[c] = "none"
    BY <1>3 DEF Outcome
  <2>3. Queue!Submit(c)
    BY <1>1, <2>1, <2>2 DEF Queue!Submit, Queue!Become
  <2>. QED  BY <2>3 DEF Queue!RetryNext
<1>. QED  BY <1>2, <1>3

LEMMA CallReaches ==
  ASSUME PinsOK, PinByCid
  PROVE  [Queue!RetryNext]_<<Outcome, attempts, remote>>
<1>1. UNCHANGED <<status, attempts>> /\ work # << >>
  BY DEF PinByCid, pinTable
<1>2. Outcome' = Outcome
  BY <1>1 DEF Outcome
<1>3. Head(work)[1] \in Cids /\ status[Head(work)[1]] = "pending"
  BY <1>1 DEF PinsOK, PinningTypeOK, JobsConsistent
<1>4. PICK c \in Cids : c = Head(work)[1]
  BY <1>3
<1>5. remote' = remote \/ remote' = remote \cup {c}
  BY <1>4 DEF PinByCid
<1>6. Outcome[c] = "pending"
  BY <1>3, <1>4 DEF Outcome
<1>7. CASE remote' = remote \cup {c}
  <2>1. Queue!Reach(c)
    BY <1>1, <1>2, <1>6, <1>7 DEF Queue!Reach
  <2>. QED  BY <2>1 DEF Queue!RetryNext
<1>. QED  BY <1>1, <1>2, <1>5, <1>7

LEMMA WriteBackTries ==
  ASSUME PinsOK, WriteBack
  PROVE  Queue!RetryNext
<1>1. PICK c \in Cids : c = work[1][1]
  BY WriteBackIs
<1>2. /\ status[c] = "pending" /\ attempts[c] < MaxAttempts
      /\ attempts' = [attempts EXCEPT ![c] = attempts[c] + 1]
      /\ status' = [status EXCEPT ![c] = NextStatus(attempts[c] + 1)]
      /\ answer = "ok" => c \in remote
  BY <1>1, WriteBackIs
<1>3. remote' = remote /\ attempts[c] \in Nat /\ MaxAttempts \in Nat
  BY PinningAssumption DEF WriteBack, PinsOK, PinningTypeOK
<1>4. Outcome[c] = "pending"
  BY <1>2 DEF Outcome
<1>5. /\ NextStatus(attempts[c] + 1) = "pinned" => c \in remote
      /\ NextStatus(attempts[c] + 1) = "failed" => attempts[c] + 1 = MaxAttempts
      /\ NextStatus(attempts[c] + 1) = "pending" => attempts[c] + 1 < MaxAttempts
      /\ NextStatus(attempts[c] + 1) \in {"pinned", "failed", "pending"}
  BY <1>2, <1>3 DEF NextStatus
<1>6. PICK s : s = NextStatus(attempts[c] + 1)
  OBVIOUS
<1>7. Outcome' = [Outcome EXCEPT ![c] = CASE s = "pinned" -> "done"
                                          [] s = "failed" -> "spent"
                                          [] OTHER -> s]
  BY <1>2, <1>6, OutcomeOfOne
<1>8. Queue!Try(c)
  BY <1>2, <1>3, <1>4, <1>5, <1>6, <1>7 DEF Queue!Try, Queue!Become
<1>. QED  BY <1>8 DEF Queue!RetryNext

(* For any cids, attempts, batch and deaths of the process, the queue of   *)
(* pins and its worker implement the queue with retries: no write-back     *)
(* counts a try of a job that is settled, and none is done that the        *)
(* service has not accepted.                                               *)
THEOREM PinsImplementQueue == ContentSpec => PinsImplementRetryQueue
<1>1. ContentInit => ContentIInv /\ Queue!RetryInit
  <2>. SUFFICES ASSUME ContentInit PROVE ContentIInv /\ Queue!RetryInit
    OBVIOUS
  <2>1. ContentIInv
    BY InitContent
  <2>2. PICK past : PinnedInit(past)
    BY DEF ContentInit
  <2>3. past \in SUBSET Cids
    BY <2>1, <2>2 DEF PinnedInit, ContentIInv, PinsOK, PinningTypeOK
  <2>4. Outcome = [c \in Cids |-> IF c \in past THEN "done" ELSE "none"]
    BY <2>2 DEF PinnedInit, Outcome
  <2>. QED  BY <2>1, <2>2, <2>3, <2>4 DEF PinnedInit, Queue!RetryInit
<1>2. ContentIInv /\ [ContentNext]_contentVars =>
        ContentIInv' /\ [Queue!RetryNext]_<<Outcome, attempts, remote>>
  <2>. SUFFICES ASSUME ContentIInv, [ContentNext]_contentVars
                PROVE  [Queue!RetryNext]_<<Outcome, attempts, remote>>
    BY ContentInvariance
  <2>1. PinsOK
    BY DEF ContentIInv
  <2>2. CASE UNCHANGED <<status, attempts, remote>>
    BY <2>2 DEF Outcome
  <2>3. CASE ContentNext
    BY <2>1, <2>2, <2>3, PinStep, EnqueueSubmits, CallReaches, WriteBackTries
  <2>4. CASE UNCHANGED contentVars
    BY <2>2, <2>4 DEF contentVars, pinVars, pinTable, pinWorker
  <2>. QED  BY <2>3, <2>4
<1>3. [Queue!RetryNext]_<<Outcome, attempts, remote>> => [Queue!RetryNext]_Queue!queue
  BY DEF Queue!queue
<1>. QED  BY <1>1, <1>2, <1>3, PTL DEF ContentSpec, PinsImplementRetryQueue, Queue!RetrySpec
===============================================================================
