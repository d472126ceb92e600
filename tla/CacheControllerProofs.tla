----------------------- MODULE CacheControllerProofs -----------------------
(***************************************************************************)
(* The registry of the cache controller is right, for any number of        *)
(* workers, keys, faults and operations.  The invariant speaks of one      *)
(* worker at a time: of its hot cache, the operations and messages on their*)
(* way, and its node in the registry.                                      *)
(***************************************************************************)
EXTENDS CacheController, FiniteSetTheorems, TLAPS

(* Types.                                                                   *)

Operations == [adm : BOOLEAN, key : Keys, seq : Int]
OpsMessages == [type : {"ops"}, ops : Seq(Operations)]
BatchMessages == [type : {"batch"}, sid : Nat, id : Nat, keys : SUBSET Keys]
EndMessages == [type : {"end"}, sid : Nat]
Messages == OpsMessages \cup BatchMessages \cup EndMessages \cup [type : {"dereg"}]
Syncs == [sid : Nat, state : {"none", "syncing", "completed"}, count : Nat,
          got : SUBSET Nat]
Nodes == [kv : SUBSET Keys, seq : Int, sync : Syncs, reg : BOOLEAN]
Phases == {"idle", "delay", "start", "batches", "poll", "resend"}
Senders == [phase : Phases, sid : Nat, snap : Seq(Keys), next : Nat, tries : Nat,
            resend : Seq(Nat), resends : Nat, polls : Nat]

WorkerType ==
    /\ up \in [Workers -> {"new", "up", "closed"}]
    /\ hot \in [Workers -> SUBSET Keys] /\ storing \in [Workers -> SUBSET Keys]
    /\ frozen \in [Workers -> BOOLEAN]
SenderType ==
    /\ opq \in [Workers -> Seq(Operations)] /\ seqno \in [Workers -> Nat]
    /\ push \in [Workers -> Seq(Messages)]
    /\ snd \in [Workers -> Senders] /\ nsync \in [Workers -> Nat]
RegistryType == node \in [Workers -> Nodes] /\ gap \in [Workers -> BOOLEAN]
HistoryType ==
    /\ dirty \in [Workers -> SUBSET Keys] /\ unsent \in [Workers -> SUBSET Keys]
    /\ copy \in [Workers -> SUBSET Keys] /\ dropped \in [Workers -> BOOLEAN]
Types == WorkerType /\ SenderType /\ RegistryType /\ HistoryType

-----------------------------------------------------------------------------
(* Operations on their way.                                                 *)

OnOps(ops, k) == \E j \in DOMAIN ops : ops[j].key = k
\* The last operation on k is v.
Says(ops, k, v) ==
    \E i \in DOMAIN ops : /\ ops[i].key = k /\ ops[i].adm = v
                          /\ \A j \in DOMAIN ops : ops[j].key = k => j <= i
HasOps(m, k) == m.type = "ops" /\ OnOps(m.ops, k)
OnPush(p, k) == \E i \in DOMAIN p : HasOps(p[i], k)
LastSays(p, k, v) ==
    \E i \in DOMAIN p : /\ HasOps(p[i], k) /\ Says(p[i].ops, k, v)
                        /\ \A j \in DOMAIN p : HasOps(p[j], k) => j <= i
Pending(q, p, k) == OnOps(q, k) \/ OnPush(p, k)
\* The last operation on its way of a key is what the hot cache has become.
Replays(q, p, h) ==
    \A k \in Keys : IF OnOps(q, k) THEN Says(q, k, k \in h)
                    ELSE OnPush(p, k) => LastSays(p, k, k \in h)

-----------------------------------------------------------------------------
(* A full sync on its way: y is the node's sync, x the sender, p the pipe.  *)

OfSync(m, s) == m.type \in {"batch", "end"} /\ m.sid = s
EndAt(p, s, i) == p[i].type = "end" /\ p[i].sid = s
KeyOn(p, s, n, k) ==
    \E j \in DOMAIN p : j < n /\ p[j].type = "batch" /\ p[j].sid = s /\ k \in p[j].keys
IdOn(p, s, n, b) ==
    \E j \in DOMAIN p : j < n /\ p[j].type = "batch" /\ p[j].sid = s /\ p[j].id = b

\* Sync ids are drawn in order, and 0 is none.
Drawn(y, x, p, n) ==
    /\ y.sid <= n /\ x.sid <= n
    /\ \A i \in DOMAIN p : p[i].type \in {"batch", "end"} => p[i].sid \in 1..n
    /\ x.phase \in {"idle", "delay"} <=> x.sid = 0
    /\ y.state = "syncing" => y.sid > 0
\* Where the sender is.
Progress(x, p) ==
    /\ x.phase \in {"idle", "delay", "start"} => x.next = 0
    /\ x.phase = "batches" => x.next <= Batches(x.snap)
    /\ x.phase \in {"poll", "resend"} => x.next = Batches(x.snap)
    /\ x.phase # "resend" => x.resend = <<>>
    /\ \A i \in DOMAIN x.resend : x.resend[i] < Batches(x.snap)
    /\ x.phase = "start" => \A i \in DOMAIN p : ~OfSync(p[i], x.sid)
\* An open sync collects a copy, the one its sender has listed.
Open(y, x, p, kv, c) ==
    y.state = "syncing" =>
        /\ kv \subseteq c /\ y.got \subseteq 0..y.count - 1
        /\ \A i \in DOMAIN p : p[i].type = "batch" /\ p[i].sid = y.sid =>
               p[i].keys \subseteq c /\ p[i].id < y.count
        /\ x.sid = y.sid => c = ToSet(x.snap) /\ y.count = Batches(x.snap)
\* The keys of the copy: received, lost, on their way or yet to be sent; before
\* an end there is nothing yet to be sent.
Covers(y, x, p, kv, c, u) ==
    y.state = "syncing" => \A k \in c :
        \/ k \in kv \cup u
        \/ /\ x.sid = y.sid => \/ KeyOn(p, y.sid, Len(p) + 1, k)
                               \/ \E b \in x.next..y.count - 1 : k \in BatchKeys(x.snap, b)
           /\ \A i \in DOMAIN p : EndAt(p, y.sid, i) => KeyOn(p, y.sid, i, k)
\* The same of the batches.
Counts(y, x, p) ==
    y.state = "syncing" => \A b \in 0..y.count - 1 :
        \/ b \in y.got
        \/ /\ x.sid = y.sid => IdOn(p, y.sid, Len(p) + 1, b) \/ b >= x.next
           /\ \A i \in DOMAIN p : EndAt(p, y.sid, i) => IdOn(p, y.sid, i, b)
SyncOK(y, x, p, kv, c, u, n) ==
    Drawn(y, x, p, n) /\ Progress(x, p) /\ Open(y, x, p, kv, c) /\ Covers(y, x, p, kv, c, u)
\* A sync that may still be completed, and its copy.
Live(y, x, p) ==
    y.state = "syncing" /\ (x.sid = y.sid \/ \E i \in DOMAIN p : EndAt(p, y.sid, i))
Agrees(y, x, q, p, h, c, d) ==
    Live(y, x, p) => \A k \in Keys \ d : ~Pending(q, p, k) => (k \in c <=> k \in h)

-----------------------------------------------------------------------------
(* Sequence numbers.                                                        *)

NoOps(p, a, b) == \A i \in DOMAIN p : a < i /\ i < b => p[i].type # "ops"
First(m) == m.ops[1].seq
After(m) == m.ops[1].seq + Len(m.ops)
Run(m) == m.type = "ops" => /\ Len(m.ops) > 0
                            /\ \A j \in DOMAIN m.ops : m.ops[j].seq = First(m) + j - 1
Runs(p) ==
    /\ \A i \in DOMAIN p : Run(p[i])
    /\ \A i, j \in DOMAIN p :
          i < j /\ p[i].type = "ops" /\ p[j].type = "ops" /\ NoOps(p, i, j) =>
              First(p[j]) = After(p[i])
\* The next number is drawn after the ones in the pipe ...
Numbered(p, n) ==
    \A i \in DOMAIN p : p[i].type = "ops" /\ NoOps(p, i, Len(p) + 1) => After(p[i]) = n
\* ... and the pipe goes on where the registry is.
Follows(p, s) ==
    \A i \in DOMAIN p : p[i].type = "ops" /\ NoOps(p, 0, i) => First(p[i]) = s + 1

-----------------------------------------------------------------------------
(* The invariant.                                                           *)

\* A process, a sync or a node that has not begun has nothing.
Blank(w) ==
    /\ up[w] = "new" => /\ hot[w] = {} /\ storing[w] = {} /\ snd[w] = Idle
                        /\ opq[w] = <<>> /\ push[w] = <<>>
    /\ node[w].sync.state = "none" => node[w].sync.sid = 0
    /\ ~node[w].reg => node[w].sync.state = "none"
OpsInv(w) == up[w] = "up" => Replays(opq[w], push[w], hot[w])
SyncInv(w) ==
    SyncOK(node[w].sync, snd[w], push[w], node[w].kv, copy[w], unsent[w], nsync[w])
CountInv(w) ==
    "push" \notin mode.may =>
        /\ Counts(node[w].sync, snd[w], push[w])
        /\ node[w].sync.state = "completed" =>
               node[w].sync.got = 0..node[w].sync.count - 1
AgreeInv(w) ==
    up[w] = "up" =>
      Agrees(node[w].sync, snd[w], opq[w], push[w], hot[w], copy[w], dirty[w])
KeysInv(w) ==
    up[w] = "up" /\ Registered(w) /\ ~Syncing(w) =>
        \A k \in Keys \ (dirty[w] \cup unsent[w]) :
            ~Pending(opq[w], push[w], k) => (k \in node[w].kv <=> k \in hot[w])
SeqInv(w) ==
    /\ Runs(push[w])
    /\ up[w] = "up" => Numbered(push[w], seqno[w])
    /\ (up[w] # "new" /\ Registered(w) /\ ~dropped[w] /\ node[w].seq # -1) =>
          /\ Follows(push[w], node[w].seq)
          /\ (up[w] = "up" /\ NoOps(push[w], 0, Len(push[w]) + 1)) =>
                seqno[w] = node[w].seq + 1
    /\ gap[w] => dropped[w]
Finite(w) == IsFiniteSet(hot[w])

WorkerInv(w) ==
    Finite(w) /\ Blank(w) /\ OpsInv(w) /\ SyncInv(w) /\ CountInv(w) /\ AgreeInv(w)
    /\ KeysInv(w) /\ SeqInv(w)
RegistryInv == Types /\ \A w \in Workers : WorkerInv(w)
-----------------------------------------------------------------------------
(* Lemmas on the operations on their way.                                   *)

LEMMA ReplaysAdd ==
    ASSUME NEW q \in Seq(Operations), NEW p \in Seq(Messages), NEW h \in SUBSET Keys,
           Replays(q, p, h),
           NEW k \in Keys, NEW adm \in BOOLEAN, NEW g \in SUBSET Keys,
           \A j \in Keys \ {k} : j \in g <=> j \in h, (k \in g) <=> adm
    PROVE  LET r == Append(q, Op(adm, k, -1))
           IN  /\ Replays(r, p, g) /\ Pending(r, p, k)
               /\ \A j \in Keys \ {k} : Pending(r, p, j) <=> Pending(q, p, j)
<1> DEFINE r == Append(q, Op(adm, k, -1))
           n == Len(q)
<1>1. /\ n \in Nat /\ DOMAIN q = 1..n /\ DOMAIN r = 1..n + 1
      /\ r[n + 1] = Op(adm, k, -1) /\ \A i \in 1..n : r[i] = q[i]
      /\ r[n + 1].key = k /\ r[n + 1].adm = adm
  BY DEF Op
<1> HIDE DEF r, n
<1>2. OnOps(r, k) /\ Says(r, k, k \in g)
  BY <1>1 DEF OnOps, Says
<1>3. ASSUME NEW j \in Keys \ {k} PROVE OnOps(r, j) <=> OnOps(q, j)
  BY <1>1, <1>3 DEF OnOps
<1>4. ASSUME NEW j \in Keys \ {k}, OnOps(q, j) PROVE Says(r, j, j \in g)
  <2>1. PICK i \in 1..n : /\ q[i].key = j /\ q[i].adm = (j \in h)
                          /\ \A l \in 1..n : q[l].key = j => l <= i
    BY <1>1, <1>4 DEF Replays, Says
  <2>2. \A l \in 1..n + 1 : r[l].key = j => l <= i
    BY <2>1, <1>1, <1>4
  <2>3. r[i].key = j /\ r[i].adm = (j \in g) /\ i \in 1..n + 1
    BY <2>1, <1>1, <1>4
  <2> QED BY <2>2, <2>3, <1>1 DEF Says
<1>5. Replays(r, p, g)
  BY <1>2, <1>3, <1>4 DEF Replays
<1> QED BY <1>2, <1>3, <1>5 DEF Pending, r

\* The operations of a queue numbered and sent as one message.
LEMMA ReplaysSend ==
    ASSUME NEW q \in Seq(Operations), NEW p \in Seq(Messages), NEW h \in SUBSET Keys,
           Replays(q, p, h), NEW n \in Int,
           NEW m \in OpsMessages,
           m.ops = [i \in DOMAIN q |-> [q[i] EXCEPT !.seq = n + i - 1]]
    PROVE  /\ Replays(<<>>, Append(p, m), h)
           /\ \A k \in Keys : Pending(<<>>, Append(p, m), k) <=> Pending(q, p, k)
<1> DEFINE r == Append(p, m)
<1>1. /\ Len(p) \in Nat /\ DOMAIN p = 1..Len(p) /\ DOMAIN r = 1..Len(p) + 1
      /\ r[Len(p) + 1] = m /\ \A i \in 1..Len(p) : r[i] = p[i]
  OBVIOUS
<1>2. /\ DOMAIN m.ops = DOMAIN q
      /\ \A i \in DOMAIN q : m.ops[i].key = q[i].key /\ m.ops[i].adm = q[i].adm
  <2>1. \A i \in DOMAIN q : q[i] \in Operations
    OBVIOUS
  <2> QED BY <2>1 DEF Operations
<1>3. m.type = "ops"
  BY DEF OpsMessages
<1> HIDE DEF r
<1>4. ASSUME NEW k \in Keys PROVE /\ OnOps(m.ops, k) <=> OnOps(q, k)
                                  /\ Says(q, k, k \in h) <=> Says(m.ops, k, k \in h)
                                  /\ ~OnOps(<<>>, k)
  <2> DEFINE o == m.ops
             v == k \in h
  <2>1. /\ DOMAIN o = DOMAIN q
        /\ \A i \in DOMAIN q : o[i].key = q[i].key /\ o[i].adm = q[i].adm
    BY <1>2
  <2> HIDE DEF o, v
  <2>2. OnOps(o, k) <=> OnOps(q, k)
    BY <2>1 DEF OnOps
  <2>3. Says(q, k, v) <=> Says(o, k, v)
    BY <2>1 DEF Says
  <2>4. ~OnOps(<<>>, k)
    BY DEF OnOps
  <2> QED BY <2>2, <2>3, <2>4 DEF o, v
<1>5. ASSUME NEW k \in Keys PROVE OnPush(r, k) <=> OnOps(q, k) \/ OnPush(p, k)
  <2>1. HasOps(r[Len(p) + 1], k) <=> OnOps(q, k)
    BY <1>1, <1>3, <1>4 DEF HasOps
  <2>2. \A i \in 1..Len(p) + 1 : i \in 1..Len(p) \/ i = Len(p) + 1
    BY <1>1
  <2>3. Len(p) + 1 \in 1..Len(p) + 1 /\ \A i \in 1..Len(p) : i \in 1..Len(p) + 1
    BY <1>1
  <2> QED BY <1>1, <2>1, <2>2, <2>3 DEF OnPush
<1>6. ASSUME NEW k \in Keys, OnOps(q, k) PROVE LastSays(r, k, k \in h)
  <2>0. Says(q, k, k \in h)
    BY <1>6 DEF Replays
  <2>1. HasOps(r[Len(p) + 1], k) /\ Says(r[Len(p) + 1].ops, k, k \in h)
    BY <1>1, <1>3, <1>4, <1>6, <2>0 DEF HasOps
  <2> QED BY <2>1, <1>1 DEF LastSays
<1>7. ASSUME NEW k \in Keys, ~OnOps(q, k), OnPush(p, k) PROVE LastSays(r, k, k \in h)
  <2>1. PICK i \in 1..Len(p) : /\ HasOps(p[i], k) /\ Says(p[i].ops, k, k \in h)
                               /\ \A j \in 1..Len(p) : HasOps(p[j], k) => j <= i
    BY <1>1, <1>7 DEF Replays, LastSays
  <2>2. ~HasOps(r[Len(p) + 1], k)
    BY <1>1, <1>4, <1>7 DEF HasOps
  <2>3. \A j \in 1..Len(p) + 1 : HasOps(r[j], k) => j <= i
    BY <2>1, <2>2, <1>1
  <2> QED BY <2>1, <2>3, <1>1 DEF LastSays
<1> QED BY <1>4, <1>5, <1>6, <1>7 DEF Replays, Pending, r

\* The head of the pipe leaves it.
LEMMA ReplaysTail ==
    ASSUME NEW q \in Seq(Operations), NEW p \in Seq(Messages), NEW h \in SUBSET Keys,
           Replays(q, p, h), p # <<>>
    PROVE  /\ Replays(q, Tail(p), h)
           /\ \A k \in Keys : Pending(q, Tail(p), k) => Pending(q, p, k)
           /\ \A k \in Keys : ~Pending(q, Tail(p), k) /\ Pending(q, p, k) =>
                  HasOps(Head(p), k) /\ Says(Head(p).ops, k, k \in h)
<1> DEFINE t == Tail(p)
           n == Len(p)
<1>1. /\ n \in Nat \ {0} /\ DOMAIN p = 1..n /\ DOMAIN t = 1..n - 1
      /\ \A i \in 1..n - 1 : t[i] = p[i + 1]
      /\ Head(p) = p[1]
  OBVIOUS
<1> HIDE DEF t, n
<1>2. ASSUME NEW k \in Keys, NEW i \in 2..n, HasOps(p[i], k) PROVE OnPush(t, k)
  <2>1. i - 1 \in 1..n - 1 /\ t[i - 1] = p[i]
    BY <1>1
  <2> QED BY <1>1, <1>2, <2>1 DEF OnPush
<1>3. ASSUME NEW k \in Keys, OnPush(t, k) PROVE OnPush(p, k)
  <2>1. PICK i \in 1..n - 1 : HasOps(t[i], k)
    BY <1>1, <1>3 DEF OnPush
  <2>2. i + 1 \in 1..n /\ HasOps(p[i + 1], k)
    BY <1>1, <2>1
  <2> QED BY <1>1, <2>2 DEF OnPush
<1>4. ASSUME NEW k \in Keys, ~OnOps(q, k), OnPush(p, k)
      PROVE  IF OnPush(t, k) THEN LastSays(t, k, k \in h)
             ELSE HasOps(p[1], k) /\ Says(p[1].ops, k, k \in h)
  <2>1. PICK i \in 1..n : /\ HasOps(p[i], k) /\ Says(p[i].ops, k, k \in h)
                          /\ \A j \in 1..n : HasOps(p[j], k) => j <= i
    BY <1>1, <1>4 DEF Replays, LastSays
  <2>2. CASE i = 1
    <3>1. ~OnPush(t, k)
      <4>1. \A j \in 1..n - 1 : j + 1 \in 1..n /\ t[j] = p[j + 1] /\ j + 1 > 1
        BY <1>1
      <4> QED BY <2>1, <2>2, <4>1, <1>1 DEF OnPush
    <3> QED BY <2>1, <2>2, <3>1
  <2>3. CASE i # 1
    <3>1. i - 1 \in 1..n - 1 /\ t[i - 1] = p[i]
      BY <2>3, <1>1
    <3>2. \A j \in 1..n - 1 : HasOps(t[j], k) => j <= i - 1
      <4>1. \A j \in 1..n - 1 : j + 1 \in 1..n /\ t[j] = p[j + 1]
        BY <1>1
      <4> QED BY <2>1, <4>1, <1>1
    <3>3. LastSays(t, k, k \in h)
      BY <2>1, <3>1, <3>2, <1>1 DEF LastSays
    <3>4. OnPush(t, k)
      BY <3>1, <2>1, <1>1 DEF OnPush
    <3> QED BY <3>3, <3>4
  <2> QED BY <2>2, <2>3
<1>5. Replays(q, t, h)
  BY <1>3, <1>4 DEF Replays
<1>6. ASSUME NEW k \in Keys, ~Pending(q, t, k), Pending(q, p, k)
      PROVE HasOps(p[1], k) /\ Says(p[1].ops, k, k \in h)
  BY <1>4, <1>6 DEF Pending
<1> QED BY <1>1, <1>3, <1>5, <1>6 DEF Pending, t
-----------------------------------------------------------------------------
(* Lists of sets, and the batches of a list.                                *)

\* A finite set as a sequence: every element once.
LEMMA Listing ==
    ASSUME NEW S, IsFiniteSet(S)
    PROVE  LET s == SetToSeq(S)
           IN  /\ s \in Seq(S) /\ \A i, j \in DOMAIN s : s[i] = s[j] => i = j
               /\ \A e \in S : \E i \in DOMAIN s : s[i] = e
<1> DEFINE n == Cardinality(S)
           s == SetToSeq(S)
<1>1. n \in Nat /\ ExistsBijection(1..n, S)
  BY FS_CardinalityType
<1>2. \E f \in [1..n -> S] : IsInjective(f)
  BY <1>1 DEF ExistsBijection, Bijection, Injection
<1>3. s \in [1..n -> S] /\ IsInjective(s)
  BY <1>2 DEF SetToSeq
<1>4. s \in Injection(1..n, S)
  BY <1>3 DEF Injection
<1>5. Cardinality(1..n) = n
  BY <1>1, FS_Interval
<1> HIDE DEF s
<1>6. s \in Surjection(1..n, S)
  BY <1>1, <1>4, <1>5, FS_Injection
<1>7. s \in Seq(S)
  BY <1>1, <1>3
<1>8. DOMAIN s = 1..n
  BY <1>3
<1>9. \A i, j \in DOMAIN s : s[i] = s[j] => i = j
  BY <1>3 DEF IsInjective
<1>10. \A e \in S : \E i \in DOMAIN s : s[i] = e
  BY <1>6, <1>8 DEF Surjection
<1> QED BY <1>7, <1>9, <1>10 DEF s

\* clear() queues one removal for each key of the hot cache.
LEMMA ReplaysClear ==
    ASSUME NEW q \in Seq(Operations), NEW p \in Seq(Messages), NEW h \in SUBSET Keys,
           Replays(q, p, h), IsFiniteSet(h)
    PROVE  LET s == SetToSeq(h)
               r == q \o [i \in DOMAIN s |-> Op(FALSE, s[i], -1)]
           IN  /\ r \in Seq(Operations) /\ Replays(r, p, {})
               /\ \A k \in Keys : Pending(r, p, k) <=> k \in h \/ Pending(q, p, k)
<1> DEFINE s == SetToSeq(h)
           c == [i \in DOMAIN s |-> Op(FALSE, s[i], -1)]
           r == q \o c
           n == Len(q)
           l == Len(s)
<1>1. /\ s \in Seq(h) /\ \A i, j \in DOMAIN s : s[i] = s[j] => i = j
      /\ \A e \in h : \E i \in DOMAIN s : s[i] = e
  BY Listing
<1> HIDE DEF s
<1>2. l \in Nat /\ DOMAIN s = 1..l /\ \A i \in 1..l : s[i] \in h
  BY <1>1
<1>3. c \in Seq(Operations)
  <2>1. \A i \in 1..l : Op(FALSE, s[i], -1) \in Operations
    <3>1. ASSUME NEW i \in 1..l PROVE Op(FALSE, s[i], -1) \in Operations
      <4>1. s[i] \in Keys
        BY <1>2
      <4> QED BY <4>1 DEF Op, Operations
    <3> QED BY <3>1
  <2>2. c \in [1..l -> Operations]
    BY <1>2, <2>1
  <2> HIDE DEF c
  <2> QED BY ONLY <1>2, <2>2
<1>4. Len(c) = l
  BY <1>2
<1>0. \A i \in 1..l : c[i].key = s[i] /\ c[i].adm = FALSE
  BY <1>2 DEF Op
<1> HIDE DEF c
<1>5. /\ n \in Nat /\ DOMAIN q = 1..n /\ DOMAIN r = 1..n + l /\ r \in Seq(Operations)
      /\ \A i \in 1..n : r[i] = q[i]
      /\ \A i \in 1..l : r[n + i] = c[i]
  <2>1. r \in Seq(Operations) /\ Len(r) = n + l
    BY <1>3, <1>4
  <2>2. n \in Nat /\ DOMAIN q = 1..n /\ \A i \in 1..n : r[i] = q[i]
    BY <1>2, <1>3, <1>4
  <2>3. \A i \in 1..l : r[n + i] = c[i]
    BY <1>2, <1>3, <1>4
  <2> QED BY <2>1, <2>2, <2>3, <1>2
<1>6. \A i \in 1..l : r[n + i].key = s[i] /\ r[n + i].adm = FALSE
  BY <1>0, <1>5
<1> HIDE DEF r, n, l
<1>7. ASSUME NEW k \in h PROVE OnOps(r, k) /\ Says(r, k, FALSE)
  <2>1. PICK i \in 1..l : s[i] = k
    BY <1>1, <1>2
  <2>2. n + i \in DOMAIN r /\ r[n + i].key = k /\ r[n + i].adm = FALSE
    BY <1>2, <1>5, <1>6, <2>1
  <2>3. ASSUME NEW j \in DOMAIN r, r[j].key = k, j > n + i PROVE FALSE
    <3>1. j - n \in 1..l /\ j = n + (j - n) /\ j - n > i
      BY <1>2, <1>5, <2>1, <2>3
    <3>2. s[j - n] = k
      BY <1>6, <2>3, <3>1
    <3>3. j - n = i
      BY <1>1, <1>2, <2>1, <3>1, <3>2
    <3> QED BY <3>1, <3>3, <1>2, <1>5
  <2>4. \A j \in DOMAIN r : r[j].key = k => j <= n + i
    BY <1>2, <1>5, <2>3
  <2> QED BY <2>2, <2>4 DEF OnOps, Says
<1>8. ASSUME NEW k \in Keys, k \notin h
      PROVE /\ OnOps(r, k) <=> OnOps(q, k)
            /\ OnOps(q, k) => Says(r, k, FALSE)
  <2>1. ASSUME NEW j \in DOMAIN r, r[j].key = k PROVE j \in 1..n /\ q[j].key = k
    <3>1. CASE j > n
      <4>1. j - n \in 1..l /\ j = n + (j - n)
        BY <1>2, <1>5, <3>1
      <4>2. s[j - n] = k /\ s[j - n] \in h
        BY <1>2, <1>6, <2>1, <4>1
      <4> QED BY <4>2, <1>8
    <3> QED BY <3>1, <1>5, <2>1
  <2>2. ASSUME NEW j \in 1..n PROVE j \in DOMAIN r /\ r[j] = q[j]
    BY <1>2, <1>5
  <2>3. OnOps(r, k) <=> OnOps(q, k)
    BY <2>1, <2>2, <1>5 DEF OnOps
  <2>4. ASSUME OnOps(q, k) PROVE Says(r, k, FALSE)
    <3>1. Says(q, k, FALSE)
      <4>1. Says(q, k, k \in h) /\ (k \in h) = FALSE
        BY <2>4, <1>8 DEF Replays
      <4> QED BY <4>1
    <3>2. PICK i \in 1..n : /\ q[i].key = k /\ q[i].adm = FALSE
                            /\ \A j \in 1..n : q[j].key = k => j <= i
      BY <3>1, <1>5 DEF Says
    <3> QED BY <2>1, <2>2, <3>2 DEF Says
  <2> QED BY <2>3, <2>4
<1>9. Replays(r, p, {})
  <2>1. ASSUME NEW k \in Keys PROVE /\ OnOps(r, k) => Says(r, k, FALSE)
                                    /\ ~OnOps(r, k) /\ OnPush(p, k) => LastSays(p, k, FALSE)
    <3>1. OnOps(r, k) => Says(r, k, FALSE)
      BY <1>7, <1>8
    <3>2. ASSUME ~OnOps(r, k), OnPush(p, k) PROVE LastSays(p, k, FALSE)
      <4>1. k \notin h /\ ~OnOps(q, k)
        BY <1>7, <1>8, <3>2
      <4>2. LastSays(p, k, k \in h) /\ (k \in h) = FALSE
        BY <3>2, <4>1 DEF Replays
      <4> QED BY <4>2
    <3> QED BY <3>1, <3>2
  <2>2. ASSUME NEW k \in Keys PROVE (k \in {}) = FALSE
    OBVIOUS
  <2> QED BY <2>1, <2>2 DEF Replays
<1>10. \A k \in Keys : Pending(r, p, k) <=> k \in h \/ Pending(q, p, k)
  BY <1>7, <1>8 DEF Pending
<1> QED BY <1>5, <1>9, <1>10 DEF r, c, s

\* The number of batches, and which batch an element is in.
LEMMA BatchSplit ==
    ASSUME NEW s \in Seq(Keys)
    PROVE  /\ Batches(s) \in Nat \ {0}
           /\ \A b \in Nat : BatchKeys(s, b) \subseteq ToSet(s)
           /\ \A k \in ToSet(s) : \E b \in 0..Batches(s) - 1 : k \in BatchKeys(s, b)
<1> DEFINE n == Len(s)
           z == BatchSize
           cap(b) == IF (b + 1) * z < n THEN (b + 1) * z ELSE n
<1>1. z \in Nat \ {0} /\ n \in Nat /\ DOMAIN s = 1..n
  BY BoundAssumption
<1>2. ASSUME NEW x \in Nat
      PROVE x \div z \in Nat /\ x % z \in 0..z - 1 /\ x = (z * (x \div z)) + (x % z)
  BY <1>1
<1>3. Batches(s) \in Nat \ {0}
  <2>1. CASE n = 0
    BY <2>1 DEF Batches
  <2>2. CASE n > 0
    <3> DEFINE x == n + z - 1
               d == x \div z
               m == x % z
    <3>1. x \in Nat /\ x >= z
      BY <1>1, <2>2
    <3>2. d \in Nat /\ m \in 0..z - 1 /\ x = z * d + m
      BY <1>2, <3>1
    <3>3. Batches(s) = d
      BY <2>2 DEF Batches
    <3> HIDE DEF x, d, m
    <3>4. d # 0
      <4>1. ASSUME d = 0 PROVE FALSE
        <5>1. z * d = 0
          BY <4>1, <1>1
        <5> QED BY <5>1, <3>1, <3>2, <1>1
      <4> QED BY <4>1
    <3> QED BY <3>2, <3>3, <3>4
  <2> QED BY <2>1, <2>2, <1>1
<1>4. ASSUME NEW b \in Nat
      PROVE /\ b * z \in Nat /\ cap(b) \in Nat /\ cap(b) <= n
            /\ BatchKeys(s, b) = {s[i] : i \in b * z + 1 .. cap(b)}
  <2>1. b * z \in Nat /\ (b + 1) * z \in Nat
    BY <1>1
  <2>2. cap(b) \in Nat /\ cap(b) <= n
    BY <1>1, <2>1
  <2> DEFINE l == cap(b)
             f == b * z + 1
             t == SubSeq(s, f, l)
  <2>3. BatchKeys(s, b) = ToSet(t)
    BY DEF BatchKeys
  <2>4. f \in Nat \ {0}
    BY <2>1
  <2>5. l \in Nat /\ l <= n
    BY <2>2
  <2> HIDE DEF f, l
  <2>6. ToSet(t) = {s[i] : i \in f .. l}
    <3>1. CASE f <= l
      <4>1. DOMAIN t = 1..l - f + 1 /\ \A i \in 1..l - f + 1 : t[i] = s[f + i - 1]
        BY <3>1, <2>4, <2>5, <1>1
      <4>2. \A i \in f..l : i - f + 1 \in 1..l - f + 1 /\ i = f + (i - f + 1) - 1
        BY <2>4, <2>5
      <4>3. \A i \in 1..l - f + 1 : f + i - 1 \in f..l
        BY <2>4, <2>5
      <4> HIDE DEF t
      <4>4. ASSUME NEW e \in ToSet(t) PROVE \E i \in f..l : e = s[i]
        <5>1. PICK i \in 1..l - f + 1 : e = t[i]
          BY <4>1, <4>4 DEF ToSet
        <5> QED BY <4>1, <4>3, <5>1
      <4>5. ASSUME NEW i \in f..l PROVE s[i] \in ToSet(t)
        <5>1. t[i - f + 1] = s[i]
          BY <4>1, <4>2
        <5> QED BY <4>1, <4>2, <5>1 DEF ToSet
      <4> QED BY <4>4, <4>5
    <3>2. CASE f > l
      <4>1. DOMAIN t = {}
        BY <3>2, <2>4, <2>5, <1>1
      <4>2. f..l = {}
        BY <3>2, <2>4, <2>5
      <4> QED BY <4>1, <4>2 DEF ToSet
    <3> QED BY <3>1, <3>2, <2>4, <2>5
  <2> QED BY <2>1, <2>2, <2>3, <2>6 DEF f, l
<1>5. ASSUME NEW b \in Nat PROVE BatchKeys(s, b) \subseteq ToSet(s)
  <2>1. \A i \in b * z + 1 .. cap(b) : i \in 1..n
    BY <1>1, <1>4
  <2> QED BY <2>1, <1>1, <1>4 DEF ToSet
<1>6. ASSUME NEW k \in ToSet(s) PROVE \E b \in 0..Batches(s) - 1 : k \in BatchKeys(s, b)
  <2>1. PICK i \in 1..n : s[i] = k
    BY <1>1 DEF ToSet
  <2> DEFINE b == (i - 1) \div z
             r == (i - 1) % z
             x == n + z - 1
             d == x \div z
             m == x % z
  <2>2. i - 1 \in Nat /\ x \in Nat
    BY <1>1, <2>1
  <2>3. b \in Nat /\ r \in 0..z - 1 /\ i - 1 = z * b + r
    BY <1>2, <2>2
  <2>4. d \in Nat /\ m \in 0..z - 1 /\ x = z * d + m
    BY <1>2, <2>2
  <2>5. Batches(s) = d
    BY <1>1, <2>1 DEF Batches
  <2> HIDE DEF b, r, d, m
  <2>6. b < d
    <3>1. ASSUME b >= d PROVE FALSE
      <4>1. PICK e \in Nat : b = d + e
        <5>1. b - d \in Nat /\ b = d + (b - d)
          BY <3>1, <2>3, <2>4
        <5> QED BY <5>1
      <4>2. z * b = z * d + z * e /\ z * e \in Nat /\ z * d \in Nat
        BY <4>1, <1>1, <2>3, <2>4
      <4> QED BY <4>2, <2>1, <2>3, <2>4, <1>1 DEF x
    <3> QED BY <3>1, <2>3, <2>4
  <2>7. (b + 1) * z = z * b + z /\ b * z = z * b /\ z * b \in Nat
    BY <1>1, <2>3
  <2>8. i >= b * z + 1 /\ i <= (b + 1) * z
    BY <1>1, <2>1, <2>3, <2>7
  <2>9. i \in b * z + 1 .. cap(b)
    BY <2>1, <2>3, <2>7, <2>8, <1>1
  <2>10. k \in BatchKeys(s, b)
    BY <2>1, <2>3, <2>9, <1>4
  <2> QED BY <2>3, <2>4, <2>5, <2>6, <2>10
<1> QED BY <1>3, <1>5, <1>6
-----------------------------------------------------------------------------
(* Lemmas on a full sync on its way.                                        *)

\* The batches seen from a place in the pipe, when a message is appended ...
LEMMA OnAppend ==
    ASSUME NEW p \in Seq(Messages), NEW m \in Messages, NEW s, NEW e
    PROVE  LET r == Append(p, m)
               n == Len(p) + 1
           IN  /\ \A i \in 1..n : (KeyOn(r, s, i, e) <=> KeyOn(p, s, i, e))
                                  /\ (IdOn(r, s, i, e) <=> IdOn(p, s, i, e))
               /\ KeyOn(r, s, n + 1, e) <=>
                     KeyOn(p, s, n, e) \/ (m.type = "batch" /\ m.sid = s /\ e \in m.keys)
               /\ IdOn(r, s, n + 1, e) <=>
                     IdOn(p, s, n, e) \/ (m.type = "batch" /\ m.sid = s /\ m.id = e)
<1> DEFINE r == Append(p, m)
           n == Len(p) + 1
<1>1. /\ n \in Nat \ {0} /\ DOMAIN p = 1..n - 1 /\ DOMAIN r = 1..n
      /\ r[n] = m /\ \A i \in 1..n - 1 : r[i] = p[i]
  OBVIOUS
<1> HIDE DEF r, n
<1>2. ASSUME NEW i \in 1..n
      PROVE (KeyOn(r, s, i, e) <=> KeyOn(p, s, i, e)) /\ (IdOn(r, s, i, e) <=> IdOn(p, s, i, e))
  <2>1. \A j \in 1..n : j < i => j \in 1..n - 1
    BY <1>1
  <2>2. \A j \in 1..n - 1 : j \in 1..n
    BY <1>1
  <2> QED BY <1>1, <2>1, <2>2 DEF KeyOn, IdOn
<1>3. \A j \in 1..n : j < n + 1 /\ (j < n => j \in 1..n - 1)
  BY <1>1
<1>4. n \in 1..n /\ n < n + 1 /\ \A j \in 1..n - 1 : j \in 1..n /\ j < n
  BY <1>1
<1>5. \A j \in 1..n : j < n \/ j = n
  BY <1>1
<1>6. KeyOn(r, s, n + 1, e) <=>
         KeyOn(p, s, n, e) \/ (m.type = "batch" /\ m.sid = s /\ e \in m.keys)
  BY <1>1, <1>3, <1>4, <1>5 DEF KeyOn
<1>7. IdOn(r, s, n + 1, e) <=>
         IdOn(p, s, n, e) \/ (m.type = "batch" /\ m.sid = s /\ m.id = e)
  BY <1>1, <1>3, <1>4, <1>5 DEF IdOn
<1> QED BY <1>2, <1>6, <1>7 DEF r, n

\* ... and when the head leaves.
LEMMA OnTail ==
    ASSUME NEW p \in Seq(Messages), p # <<>>, NEW s, NEW e, NEW i \in 1..Len(p)
    PROVE  LET m == Head(p)
           IN  /\ KeyOn(p, s, i + 1, e) =>
                     \/ KeyOn(Tail(p), s, i, e)
                     \/ m.type = "batch" /\ m.sid = s /\ e \in m.keys
               /\ IdOn(p, s, i + 1, e) =>
                     \/ IdOn(Tail(p), s, i, e)
                     \/ m.type = "batch" /\ m.sid = s /\ m.id = e
<1> DEFINE t == Tail(p)
           n == Len(p)
<1>1. /\ n \in Nat \ {0} /\ DOMAIN p = 1..n /\ DOMAIN t = 1..n - 1
      /\ \A j \in 1..n - 1 : t[j] = p[j + 1]
      /\ Head(p) = p[1]
  OBVIOUS
<1> HIDE DEF t, n
<1>2. i \in 1..n
  BY DEF n
<1>3. ASSUME NEW j \in 1..n, j < i + 1, j # 1 PROVE j - 1 \in 1..n - 1 /\ t[j - 1] = p[j] /\ j - 1 < i
  BY <1>1, <1>2, <1>3
<1>4. ASSUME KeyOn(p, s, i + 1, e)
      PROVE KeyOn(t, s, i, e) \/ (p[1].type = "batch" /\ p[1].sid = s /\ e \in p[1].keys)
  <2>1. PICK j \in 1..n : j < i + 1 /\ p[j].type = "batch" /\ p[j].sid = s /\ e \in p[j].keys
    BY <1>1, <1>4 DEF KeyOn
  <2> QED BY <2>1, <1>1, <1>3 DEF KeyOn
<1>5. ASSUME IdOn(p, s, i + 1, e)
      PROVE IdOn(t, s, i, e) \/ (p[1].type = "batch" /\ p[1].sid = s /\ p[1].id = e)
  <2>1. PICK j \in 1..n : j < i + 1 /\ p[j].type = "batch" /\ p[j].sid = s /\ p[j].id = e
    BY <1>1, <1>5 DEF IdOn
  <2> QED BY <2>1, <1>1, <1>3 DEF IdOn
<1> QED BY <1>1, <1>4, <1>5 DEF t

\* A message that is not of a sync enters the pipe.
LEMMA SyncOther ==
    ASSUME NEW y \in Syncs, NEW x \in Senders, NEW p \in Seq(Messages),
           NEW kv, NEW c, NEW u, NEW n \in Nat, SyncOK(y, x, p, kv, c, u, n),
           NEW m \in Messages, m.type \notin {"batch", "end"}
    PROVE  /\ SyncOK(y, x, Append(p, m), kv, c, u, n)
           /\ Counts(y, x, p) => Counts(y, x, Append(p, m))
<1> DEFINE r == Append(p, m)
           l == Len(p)
<1>1. /\ l \in Nat /\ DOMAIN p = 1..l /\ DOMAIN r = 1..l + 1 /\ Len(r) = l + 1
      /\ r[l + 1] = m /\ \A i \in 1..l : r[i] = p[i]
  OBVIOUS
<1>2. \A s, e : /\ \A i \in 1..l + 1 : (KeyOn(r, s, i, e) <=> KeyOn(p, s, i, e))
                                      /\ (IdOn(r, s, i, e) <=> IdOn(p, s, i, e))
                /\ KeyOn(r, s, l + 2, e) <=> KeyOn(p, s, l + 1, e)
                /\ IdOn(r, s, l + 2, e) <=> IdOn(p, s, l + 1, e)
  <2> l + 1 + 1 = l + 2
    BY <1>1
  <2> QED BY OnAppend
<1> HIDE DEF r, l
<1>3. \A i \in 1..l + 1 : i \in 1..l \/ i = l + 1
  BY <1>1
<1>4. \A i \in 1..l : i \in 1..l + 1
  BY <1>1
<1>5. Drawn(y, x, r, n)
  BY <1>1, <1>3 DEF Drawn, SyncOK
<1>6. Progress(x, r)
  BY <1>1, <1>3 DEF Progress, OfSync, SyncOK
<1>7. Open(y, x, r, kv, c)
  BY <1>1, <1>3 DEF Open, SyncOK
<1>8. \A s : \A i \in 1..l + 1 : EndAt(r, s, i) => i \in 1..l /\ EndAt(p, s, i)
  BY <1>1, <1>3 DEF EndAt
<1>9. l + 1 + 1 = l + 2
  BY <1>1
<1>10. Covers(y, x, r, kv, c, u)
  BY <1>1, <1>2, <1>4, <1>8, <1>9 DEF Covers, SyncOK, l
<1>11. Counts(y, x, p) => Counts(y, x, r)
  BY <1>1, <1>2, <1>4, <1>8, <1>9 DEF Counts, l
<1> QED BY <1>5, <1>6, <1>7, <1>10, <1>11 DEF SyncOK, r

\* A batch of the sender's copy enters the pipe, and is the next or a missing one.
LEMMA SyncBatch ==
    ASSUME NEW y \in Syncs, NEW x \in Senders, NEW p \in Seq(Messages),
           NEW kv, NEW c, NEW u, NEW n \in Nat, SyncOK(y, x, p, kv, c, u, n),
           x.phase \in {"batches", "resend"}, NEW b \in Nat, b < Batches(x.snap),
           NEW m \in BatchMessages, m.sid = x.sid, m.id = b, m.keys = BatchKeys(x.snap, b),
           NEW z \in Senders, z.sid = x.sid, z.snap = x.snap, Progress(z, p),
           z.phase \in {"batches", "resend"},
           z.next = x.next \/ (z.next = x.next + 1 /\ b = x.next)
    PROVE  /\ SyncOK(y, z, Append(p, m), kv, c, u, n)
           /\ Counts(y, x, p) => Counts(y, z, Append(p, m))
<1> DEFINE r == Append(p, m)
           l == Len(p)
<1>0. m \in Messages /\ m.type = "batch"
  BY DEF BatchMessages, Messages
<1>1. /\ l \in Nat /\ DOMAIN p = 1..l /\ DOMAIN r = 1..l + 1 /\ Len(r) = l + 1
      /\ r[l + 1] = m /\ \A i \in 1..l : r[i] = p[i]
  BY <1>0
<1>2. \A s, e : /\ \A i \in 1..l + 1 : (KeyOn(r, s, i, e) <=> KeyOn(p, s, i, e))
                                      /\ (IdOn(r, s, i, e) <=> IdOn(p, s, i, e))
                /\ KeyOn(r, s, l + 2, e) <=>
                     KeyOn(p, s, l + 1, e) \/ (m.sid = s /\ e \in m.keys)
                /\ IdOn(r, s, l + 2, e) <=>
                     IdOn(p, s, l + 1, e) \/ (m.sid = s /\ m.id = e)
  <2> l + 1 + 1 = l + 2
    BY <1>1
  <2> QED BY OnAppend, <1>0
<1> HIDE DEF r, l
<1>3. \A i \in 1..l + 1 : i \in 1..l \/ i = l + 1
  BY <1>1
<1>4. \A i \in 1..l : i \in 1..l + 1
  BY <1>1
<1>5. x.sid \in 1..n /\ x.sid \in Nat /\ x.next \in Nat /\ x.snap \in Seq(Keys) /\ z.next \in Nat
  BY DEF Drawn, SyncOK, Senders
<1>6. Drawn(y, z, r, n)
  BY <1>0, <1>1, <1>3, <1>5 DEF Drawn, SyncOK
<1>7. Progress(z, r)
  BY <1>1, <1>3 DEF Progress
<1>8. m.keys \subseteq ToSet(x.snap)
  BY <1>5, BatchSplit
<1>9. Open(y, z, r, kv, c)
  BY <1>0, <1>1, <1>3, <1>8 DEF Open, SyncOK
<1>10. \A s : \A i \in 1..l + 1 : EndAt(r, s, i) => i \in 1..l /\ EndAt(p, s, i)
  BY <1>0, <1>1, <1>3 DEF EndAt
<1>11. l + 1 + 1 = l + 2
  BY <1>1
<1>12. ASSUME NEW k, NEW t \in Nat, NEW d \in x.next..t - 1, k \in BatchKeys(x.snap, d)
       PROVE  k \in m.keys \/ \E f \in z.next..t - 1 : k \in BatchKeys(x.snap, f)
  <2>1. CASE d \in z.next..t - 1
    BY <2>1, <1>12
  <2>2. CASE d \notin z.next..t - 1
    <3>1. d = b
      BY <2>2, <1>5, <1>12
    <3> QED BY <3>1, <1>12
  <2> QED BY <2>1, <2>2
<1>13. Covers(y, z, r, kv, c, u)
  <2> SUFFICES ASSUME y.state = "syncing", NEW k \in c, k \notin kv \cup u
               PROVE  /\ z.sid = y.sid => \/ KeyOn(r, y.sid, l + 2, k)
                                          \/ \E f \in z.next..y.count - 1 : k \in BatchKeys(z.snap, f)
                      /\ \A i \in 1..l + 1 : EndAt(r, y.sid, i) => KeyOn(r, y.sid, i, k)
    BY <1>1, <1>11 DEF Covers
  <2>1. /\ x.sid = y.sid => \/ KeyOn(p, y.sid, l + 1, k)
                            \/ \E f \in x.next..y.count - 1 : k \in BatchKeys(x.snap, f)
        /\ \A i \in 1..l : EndAt(p, y.sid, i) => KeyOn(p, y.sid, i, k)
    BY <1>1 DEF Covers, SyncOK, l
  <2>2. y.count \in Nat
    BY DEF Syncs
  <2>3. ASSUME z.sid = y.sid
        PROVE \/ KeyOn(r, y.sid, l + 2, k)
              \/ \E f \in z.next..y.count - 1 : k \in BatchKeys(z.snap, f)
    BY <1>2, <1>12, <2>1, <2>2, <2>3
  <2> QED BY <1>2, <1>4, <1>10, <2>1, <2>3
<1>14. ASSUME Counts(y, x, p) PROVE Counts(y, z, r)
  <2> SUFFICES ASSUME y.state = "syncing", NEW d \in 0..y.count - 1, d \notin y.got
               PROVE  /\ z.sid = y.sid => IdOn(r, y.sid, l + 2, d) \/ d >= z.next
                      /\ \A i \in 1..l + 1 : EndAt(r, y.sid, i) => IdOn(r, y.sid, i, d)
    BY <1>1, <1>11 DEF Counts
  <2>1. /\ x.sid = y.sid => IdOn(p, y.sid, l + 1, d) \/ d >= x.next
        /\ \A i \in 1..l : EndAt(p, y.sid, i) => IdOn(p, y.sid, i, d)
    BY <1>1, <1>14 DEF Counts, l
  <2>2. y.count \in Nat /\ d \in Nat
    BY DEF Syncs
  <2>3. ASSUME z.sid = y.sid PROVE IdOn(r, y.sid, l + 2, d) \/ d >= z.next
    BY <1>2, <1>5, <2>1, <2>2, <2>3
  <2> QED BY <1>2, <1>4, <1>10, <2>1, <2>3
<1> QED BY <1>6, <1>7, <1>9, <1>13, <1>14 DEF SyncOK, r

\* The end enters the pipe when the sender has sent every batch.
LEMMA SyncEnd ==
    ASSUME NEW y \in Syncs, NEW x \in Senders, NEW p \in Seq(Messages),
           NEW kv, NEW c, NEW u, NEW n \in Nat, SyncOK(y, x, p, kv, c, u, n),
           x.phase \in {"batches", "resend"}, x.next >= Batches(x.snap),
           NEW m \in EndMessages, m.sid = x.sid,
           NEW z \in Senders, z.sid = x.sid, z.snap = x.snap, z.next = x.next,
           z.phase = "poll", Progress(z, p)
    PROVE  /\ SyncOK(y, z, Append(p, m), kv, c, u, n)
           /\ Counts(y, x, p) => Counts(y, z, Append(p, m))
<1> DEFINE r == Append(p, m)
           l == Len(p)
<1>0. m \in Messages /\ m.type = "end"
  BY DEF EndMessages, Messages
<1>1. /\ l \in Nat /\ DOMAIN p = 1..l /\ DOMAIN r = 1..l + 1 /\ Len(r) = l + 1
      /\ r[l + 1] = m /\ \A i \in 1..l : r[i] = p[i]
  BY <1>0
<1>2. \A s, e : /\ \A i \in 1..l + 1 : (KeyOn(r, s, i, e) <=> KeyOn(p, s, i, e))
                                      /\ (IdOn(r, s, i, e) <=> IdOn(p, s, i, e))
                /\ KeyOn(r, s, l + 2, e) <=> KeyOn(p, s, l + 1, e)
                /\ IdOn(r, s, l + 2, e) <=> IdOn(p, s, l + 1, e)
  <2> l + 1 + 1 = l + 2
    BY <1>1
  <2> QED BY OnAppend, <1>0
<1> HIDE DEF r, l
<1>3. \A i \in 1..l + 1 : i \in 1..l \/ i = l + 1
  BY <1>1
<1>4. l + 1 \in 1..l + 1 /\ \A i \in 1..l : i \in 1..l + 1
  BY <1>1
<1>5. x.sid \in 1..n /\ x.sid \in Nat /\ x.next \in Nat /\ x.snap \in Seq(Keys)
  BY DEF Drawn, SyncOK, Senders
<1>6. Drawn(y, z, r, n)
  BY <1>0, <1>1, <1>3, <1>5 DEF Drawn, SyncOK
<1>7. Progress(z, r)
  BY <1>1, <1>3 DEF Progress
<1>9. Open(y, z, r, kv, c)
  BY <1>0, <1>1, <1>3 DEF Open, SyncOK
<1>10. \A s : \A i \in 1..l + 1 : EndAt(r, s, i) =>
          \/ i \in 1..l /\ EndAt(p, s, i)
          \/ i = l + 1 /\ s = x.sid
  BY <1>0, <1>1, <1>3 DEF EndAt
<1>11. l + 1 + 1 = l + 2
  BY <1>1
<1>12. x.sid = y.sid /\ y.state = "syncing" => y.count = Batches(x.snap)
  BY DEF Open, SyncOK
<1>15. Batches(x.snap) \in Nat
  BY <1>5, BatchSplit
<1>13. Covers(y, z, r, kv, c, u)
  <2> SUFFICES ASSUME y.state = "syncing", NEW k \in c, k \notin kv \cup u
               PROVE  /\ z.sid = y.sid => \/ KeyOn(r, y.sid, l + 2, k)
                                          \/ \E f \in z.next..y.count - 1 : k \in BatchKeys(z.snap, f)
                      /\ \A i \in 1..l + 1 : EndAt(r, y.sid, i) => KeyOn(r, y.sid, i, k)
    BY <1>1, <1>11 DEF Covers
  <2>1. /\ x.sid = y.sid => \/ KeyOn(p, y.sid, l + 1, k)
                            \/ \E f \in x.next..y.count - 1 : k \in BatchKeys(x.snap, f)
        /\ \A i \in 1..l : EndAt(p, y.sid, i) => KeyOn(p, y.sid, i, k)
    BY <1>1 DEF Covers, SyncOK, l
  <2>2. x.sid = y.sid => KeyOn(p, y.sid, l + 1, k)
    BY <2>1, <1>12, <1>15, <1>5
  <2> QED BY <1>2, <1>4, <1>10, <2>1, <2>2
<1>14. ASSUME Counts(y, x, p) PROVE Counts(y, z, r)
  <2> SUFFICES ASSUME y.state = "syncing", NEW d \in 0..y.count - 1, d \notin y.got
               PROVE  /\ z.sid = y.sid => IdOn(r, y.sid, l + 2, d) \/ d >= z.next
                      /\ \A i \in 1..l + 1 : EndAt(r, y.sid, i) => IdOn(r, y.sid, i, d)
    BY <1>1, <1>11 DEF Counts
  <2>1. /\ x.sid = y.sid => IdOn(p, y.sid, l + 1, d) \/ d >= x.next
        /\ \A i \in 1..l : EndAt(p, y.sid, i) => IdOn(p, y.sid, i, d)
    BY <1>1, <1>14 DEF Counts, l
  <2>2. x.sid = y.sid => IdOn(p, y.sid, l + 1, d)
    BY <2>1, <1>12, <1>15, <1>5
  <2> QED BY <1>2, <1>4, <1>10, <2>1, <2>2
<1> QED BY <1>6, <1>7, <1>9, <1>13, <1>14 DEF SyncOK, r

\* The sender goes on, or stops, without sending.
LEMMA SyncSender ==
    ASSUME NEW y \in Syncs, NEW x \in Senders, NEW p \in Seq(Messages),
           NEW kv, NEW c, NEW u, NEW n \in Nat, SyncOK(y, x, p, kv, c, u, n),
           NEW z \in Senders, Progress(z, p),
           \/ z.sid = x.sid /\ z.snap = x.snap /\ z.next = x.next
              /\ (z.phase \in {"idle", "delay"} <=> x.phase \in {"idle", "delay"})
           \/ z.sid = 0 /\ z.phase \in {"idle", "delay"}
    PROVE  /\ SyncOK(y, z, p, kv, c, u, n)
           /\ Counts(y, x, p) => Counts(y, z, p)
<1>1. Drawn(y, z, p, n)
  BY DEF Drawn, SyncOK
<1>2. y.state = "syncing" => y.sid # 0
  BY DEF Drawn, SyncOK, Syncs
<1>3. Open(y, z, p, kv, c)
  BY <1>2 DEF Open, SyncOK
<1>4. Covers(y, z, p, kv, c, u)
  BY <1>2 DEF Covers, SyncOK
<1>5. Counts(y, x, p) => Counts(y, z, p)
  BY <1>2 DEF Counts
<1> QED BY <1>1, <1>3, <1>4, <1>5 DEF SyncOK

\* A sync id is drawn.
LEMMA SyncFreeze ==
    ASSUME NEW y \in Syncs, NEW x \in Senders, NEW p \in Seq(Messages),
           NEW kv, NEW c, NEW u, NEW n \in Nat, SyncOK(y, x, p, kv, c, u, n),
           x.phase = "delay",
           NEW z \in Senders, z.phase = "start", z.sid = n + 1, z.next = x.next,
           z.resend = x.resend
    PROVE  /\ SyncOK(y, z, p, kv, c, u, n + 1)
           /\ Counts(y, x, p) => Counts(y, z, p)
<1>1. x.sid \in Nat /\ y.sid \in Nat /\ x.next = 0 /\ x.resend = <<>> /\ y.sid <= n
  BY DEF Drawn, Progress, SyncOK, Syncs, Senders
<1>2. \A i \in DOMAIN p : p[i].type \in {"batch", "end"} => p[i].sid \in 1..n
  BY DEF Drawn, SyncOK
<1>3. Drawn(y, z, p, n + 1)
  <2>1. \A i \in DOMAIN p : p[i].type \in {"batch", "end"} => p[i].sid \in 1..n + 1
    BY <1>2
  <2> QED BY <1>1, <2>1 DEF Drawn, SyncOK
<1>4. Progress(z, p)
  BY <1>1, <1>2 DEF Progress, OfSync
<1>5. z.sid # y.sid
  BY <1>1
<1>6. Open(y, z, p, kv, c)
  BY <1>5 DEF Open, SyncOK
<1>7. Covers(y, z, p, kv, c, u)
  BY <1>5 DEF Covers, SyncOK
<1>8. Counts(y, x, p) => Counts(y, z, p)
  BY <1>5 DEF Counts
<1> QED BY <1>3, <1>4, <1>6, <1>7, <1>8 DEF SyncOK

\* The controller accepts a start.
LEMMA SyncStart ==
    ASSUME NEW y \in Syncs, NEW x \in Senders, NEW p \in Seq(Messages),
           NEW kv, NEW c, NEW u, NEW n \in Nat, SyncOK(y, x, p, kv, c, u, n),
           x.phase = "start",
           NEW g \in Syncs, g.sid = x.sid, g.state = "syncing",
           g.count = Batches(x.snap), g.got = {}
    PROVE  /\ SyncOK(g, x, p, {}, ToSet(x.snap), {}, n)
           /\ Counts(g, x, p)
<1>1. x.sid \in 1..n /\ x.next = 0 /\ x.snap \in Seq(Keys)
  BY DEF Drawn, Progress, SyncOK, Senders
<1>2. \A i \in DOMAIN p : ~OfSync(p[i], x.sid)
  BY DEF Progress, SyncOK
<1>3. \A i \in DOMAIN p : p[i].type \in {"batch", "end"} => p[i].sid # g.sid
  BY <1>2 DEF OfSync
<1>4. Drawn(g, x, p, n)
  BY <1>1 DEF Drawn, SyncOK
<1>5. Open(g, x, p, {}, ToSet(x.snap))
  BY <1>3 DEF Open
<1>6. \A k \in ToSet(x.snap) : \E b \in 0..g.count - 1 : k \in BatchKeys(x.snap, b)
  BY <1>1, BatchSplit
<1>7. \A i \in DOMAIN p : ~EndAt(p, g.sid, i)
  BY <1>3 DEF EndAt
<1>8. Covers(g, x, p, {}, ToSet(x.snap), {})
  BY <1>1, <1>6, <1>7 DEF Covers
<1>9. Counts(g, x, p)
  BY <1>1, <1>7 DEF Counts
<1> QED BY <1>4, <1>5, <1>8, <1>9 DEF SyncOK

\* The node has no open sync any more.
LEMMA SyncNone ==
    ASSUME NEW y \in Syncs, NEW x \in Senders, NEW p \in Seq(Messages),
           NEW kv, NEW c, NEW u, NEW n \in Nat, SyncOK(y, x, p, kv, c, u, n),
           NEW g \in Syncs, g.sid \in {0, y.sid}, g.state # "syncing", NEW v, NEW d, NEW e
    PROVE  SyncOK(g, x, p, v, d, e, n) /\ Counts(g, x, p)
BY DEF SyncOK, Drawn, Open, Covers, Counts

\* More keys count as lost.
LEMMA SyncWiden ==
    ASSUME NEW y \in Syncs, NEW x \in Senders, NEW p \in Seq(Messages),
           NEW kv, NEW c, NEW u, NEW n \in Nat, SyncOK(y, x, p, kv, c, u, n),
           NEW e, u \subseteq e
    PROVE  SyncOK(y, x, p, kv, c, e, n)
BY DEF SyncOK, Covers

\* A worker without a sync and with an empty pipe.
LEMMA SyncBlank ==
    ASSUME NEW y \in Syncs, NEW x \in Senders, NEW p \in Seq(Messages),
           NEW kv, NEW c, NEW u, NEW n \in Nat, SyncOK(y, x, p, kv, c, u, n),
           NEW v, v \subseteq kv, NEW e
    PROVE  SyncOK(y, Idle, <<>>, v, c, e, n) /\ Counts(y, Idle, <<>>)
<1>1. DOMAIN <<>> = {}
  OBVIOUS
<1>2. Idle.sid = 0 /\ Idle.phase = "idle" /\ Idle.next = 0 /\ Idle.resend = <<>>
  BY DEF Idle
<1>3. y.state = "syncing" => y.sid # 0
  BY DEF Drawn, SyncOK, Syncs
<1>4. Drawn(y, Idle, <<>>, n)
  BY <1>1, <1>2 DEF Drawn, SyncOK
<1>5. Progress(Idle, <<>>)
  BY <1>1, <1>2 DEF Progress
<1>6. Open(y, Idle, <<>>, v, c)
  BY <1>1, <1>2, <1>3 DEF Open, SyncOK
<1>7. Covers(y, Idle, <<>>, v, c, e) /\ Counts(y, Idle, <<>>)
  BY <1>1, <1>2, <1>3 DEF Covers, Counts
<1> QED BY <1>4, <1>5, <1>6, <1>7 DEF SyncOK

\* The worker leaves without a sync; what is pushed is cut off somewhere.
LEMMA SyncPrefix ==
    ASSUME NEW y \in Syncs, NEW x \in Senders, NEW p \in Seq(Messages),
           NEW kv, NEW c, NEW u, NEW n \in Nat, SyncOK(y, x, p, kv, c, u, n),
           x.phase = "idle", NEW l \in 0..Len(p)
    PROVE  /\ SyncOK(y, x, SubSeq(p, 1, l), kv, c, u, n)
           /\ Counts(y, x, p) => Counts(y, x, SubSeq(p, 1, l))
<1> DEFINE r == SubSeq(p, 1, l)
<1>1. /\ DOMAIN p = 1..Len(p) /\ Len(p) \in Nat /\ l \in Nat
      /\ DOMAIN r = 1..l /\ Len(r) = l /\ \A i \in 1..l : r[i] = p[i] /\ i \in 1..Len(p)
  OBVIOUS
<1> HIDE DEF r
<1>2. y.state = "syncing" => y.sid # x.sid
  BY DEF Drawn, SyncOK, Syncs
<1>3. \A s, e : \A i \in 1..l : /\ KeyOn(p, s, i, e) => KeyOn(r, s, i, e)
                                /\ IdOn(p, s, i, e) => IdOn(r, s, i, e)
                                /\ EndAt(r, s, i) <=> EndAt(p, s, i)
  <2> SUFFICES ASSUME NEW s, NEW e, NEW i \in 1..l
               PROVE  /\ KeyOn(p, s, i, e) => KeyOn(r, s, i, e)
                      /\ IdOn(p, s, i, e) => IdOn(r, s, i, e)
                      /\ EndAt(r, s, i) <=> EndAt(p, s, i)
    OBVIOUS
  <2>1. \A j \in 1..Len(p) : j < i => j \in 1..l
    BY <1>1
  <2>2. KeyOn(p, s, i, e) => KeyOn(r, s, i, e)
    BY <1>1, <2>1 DEF KeyOn
  <2>3. IdOn(p, s, i, e) => IdOn(r, s, i, e)
    BY <1>1, <2>1 DEF IdOn
  <2>4. EndAt(r, s, i) <=> EndAt(p, s, i)
    BY <1>1 DEF EndAt
  <2> QED BY <2>2, <2>3, <2>4
<1>4. Drawn(y, x, r, n)
  BY <1>1 DEF Drawn, SyncOK
<1>5. Progress(x, r)
  BY <1>1 DEF Progress, SyncOK
<1>6. Open(y, x, r, kv, c)
  BY <1>1 DEF Open, SyncOK
<1>7. Covers(y, x, r, kv, c, u)
  BY <1>1, <1>2, <1>3 DEF Covers, SyncOK
<1>8. Counts(y, x, p) => Counts(y, x, r)
  BY <1>1, <1>2, <1>3 DEF Counts
<1> QED BY <1>4, <1>5, <1>6, <1>7, <1>8 DEF SyncOK, r

\* The head leaves the pipe: what it brings to the registry, or is lost of it,
\* is in kv and got, or in u.
LEMMA SyncTail ==
    ASSUME NEW y \in Syncs, NEW x \in Senders, NEW p \in Seq(Messages), p # <<>>,
           NEW kv, NEW c, NEW u, NEW n \in Nat, SyncOK(y, x, p, kv, c, u, n),
           NEW g \in Syncs, g.sid = y.sid, g.state = y.state, g.count = y.count,
           y.got \subseteq g.got,
           g.got \subseteq y.got \cup (IF OfSync(Head(p), y.sid) /\ Head(p).type = "batch"
                                       THEN {Head(p).id} ELSE {}),
           NEW v, NEW e,
           kv \subseteq v,
           v \subseteq kv \cup (IF OfSync(Head(p), y.sid) /\ Head(p).type = "batch"
                                THEN Head(p).keys ELSE {}),
           u \subseteq v \cup e,
           (y.state = "syncing" /\ Head(p).type = "batch" /\ Head(p).sid = y.sid)
               => Head(p).keys \subseteq v \cup e
    PROVE  /\ SyncOK(g, x, Tail(p), v, c, e, n)
           /\ (Counts(y, x, p) /\ (y.state = "syncing" /\ Head(p).type = "batch"
                                   /\ Head(p).sid = y.sid => Head(p).id \in g.got))
              => Counts(g, x, Tail(p))
<1> DEFINE t == Tail(p)
           l == Len(p)
           m == Head(p)
<1>1. /\ l \in Nat \ {0} /\ DOMAIN p = 1..l /\ DOMAIN t = 1..l - 1 /\ Len(t) = l - 1
      /\ \A j \in 1..l - 1 : t[j] = p[j + 1] /\ j + 1 \in 1..l
      /\ m = p[1] /\ 1 \in 1..l
  OBVIOUS
<1>2. \A s, k : \A i \in 1..l : /\ KeyOn(p, s, i + 1, k) =>
                                      \/ KeyOn(t, s, i, k)
                                      \/ m.type = "batch" /\ m.sid = s /\ k \in m.keys
                                /\ IdOn(p, s, i + 1, k) =>
                                      \/ IdOn(t, s, i, k)
                                      \/ m.type = "batch" /\ m.sid = s /\ m.id = k
  BY OnTail
<1> HIDE DEF t, m, l
<1>3. \A s : \A i \in 1..l - 1 : EndAt(t, s, i) <=> EndAt(p, s, i + 1)
  BY <1>1 DEF EndAt
<1>4. Drawn(g, x, t, n)
  BY <1>1 DEF Drawn, SyncOK
<1>5. Progress(x, t)
  <2>1. x.phase = "start" => \A i \in DOMAIN t : ~OfSync(t[i], x.sid)
    BY <1>1 DEF Progress, SyncOK
  <2> QED BY <2>1 DEF Progress, SyncOK
<1>6. ASSUME y.state = "syncing", m.type = "batch", m.sid = y.sid
      PROVE  m.keys \subseteq c /\ m.id < y.count /\ m.id \in Nat
  <2>1. p[1].keys \subseteq c /\ p[1].id < y.count
    BY <1>1, <1>6 DEF Open, SyncOK
  <2>2. p[1] \in Messages
    BY <1>1
  <2>3. m \in BatchMessages
    BY <1>1, <1>6, <2>2 DEF Messages, OpsMessages, BatchMessages, EndMessages
  <2> QED BY <1>1, <2>1, <2>3 DEF BatchMessages
<1>7. Open(g, x, t, v, c)
  <2> SUFFICES ASSUME y.state = "syncing"
               PROVE  /\ v \subseteq c /\ g.got \subseteq 0..g.count - 1
                      /\ \A i \in DOMAIN t : t[i].type = "batch" /\ t[i].sid = g.sid =>
                             t[i].keys \subseteq c /\ t[i].id < g.count
                      /\ x.sid = g.sid => c = ToSet(x.snap) /\ g.count = Batches(x.snap)
    BY DEF Open
  <2>1. v \subseteq c
    BY <1>6 DEF Open, SyncOK, m, OfSync
  <2>2. g.got \subseteq 0..g.count - 1
    <3>1. y.got \subseteq 0..y.count - 1 /\ y.count \in Nat
      BY DEF Open, SyncOK, Syncs
    <3> QED BY <3>1, <1>6 DEF m, OfSync
  <2>3. \A i \in DOMAIN t : t[i].type = "batch" /\ t[i].sid = g.sid =>
            t[i].keys \subseteq c /\ t[i].id < g.count
    BY <1>1 DEF Open, SyncOK
  <2>4. x.sid = g.sid => c = ToSet(x.snap) /\ g.count = Batches(x.snap)
    BY DEF Open, SyncOK
  <2> QED BY <2>1, <2>2, <2>3, <2>4
<1>8. l - 1 + 1 = l /\ l \in 1..l /\ \A i \in 1..l - 1 : i + 1 \in 1..l /\ i \in 1..l
  BY <1>1
<1>9. Covers(g, x, t, v, c, e)
  <2> SUFFICES ASSUME y.state = "syncing", NEW k \in c, k \notin v \cup e
               PROVE  /\ x.sid = y.sid => \/ KeyOn(t, y.sid, l, k)
                                          \/ \E b \in x.next..y.count - 1 : k \in BatchKeys(x.snap, b)
                      /\ \A i \in 1..l - 1 : EndAt(t, y.sid, i) => KeyOn(t, y.sid, i, k)
    BY <1>1, <1>8 DEF Covers
  <2>1. k \notin kv \cup u /\ ~(m.type = "batch" /\ m.sid = y.sid /\ k \in m.keys)
    BY DEF m
  <2>2. /\ x.sid = y.sid => \/ KeyOn(p, y.sid, l + 1, k)
                            \/ \E b \in x.next..y.count - 1 : k \in BatchKeys(x.snap, b)
        /\ \A i \in 1..l : EndAt(p, y.sid, i) => KeyOn(p, y.sid, i, k)
    BY <1>1, <2>1 DEF Covers, SyncOK, l
  <2>3. \A i \in 1..l : KeyOn(p, y.sid, i + 1, k) => KeyOn(t, y.sid, i, k)
    BY <1>2, <2>1
  <2> QED BY <1>3, <1>8, <2>2, <2>3
<1>10. ASSUME Counts(y, x, p),
              y.state = "syncing" /\ m.type = "batch" /\ m.sid = y.sid => m.id \in g.got
       PROVE  Counts(g, x, t)
  <2> SUFFICES ASSUME y.state = "syncing", NEW b \in 0..y.count - 1, b \notin g.got
               PROVE  /\ x.sid = y.sid => IdOn(t, y.sid, l, b) \/ b >= x.next
                      /\ \A i \in 1..l - 1 : EndAt(t, y.sid, i) => IdOn(t, y.sid, i, b)
    BY <1>1, <1>8 DEF Counts
  <2>1. b \notin y.got /\ ~(m.type = "batch" /\ m.sid = y.sid /\ m.id = b)
    BY <1>10
  <2>2. /\ x.sid = y.sid => IdOn(p, y.sid, l + 1, b) \/ b >= x.next
        /\ \A i \in 1..l : EndAt(p, y.sid, i) => IdOn(p, y.sid, i, b)
    BY <1>1, <1>10, <2>1 DEF Counts, l
  <2>3. \A i \in 1..l : IdOn(p, y.sid, i + 1, b) => IdOn(t, y.sid, i, b)
    BY <1>2, <2>1
  <2> QED BY <1>3, <1>8, <2>2, <2>3
<1> QED BY <1>4, <1>5, <1>7, <1>9, <1>10 DEF SyncOK, t, m
-----------------------------------------------------------------------------
(* Lemmas on sequence numbers.                                              *)

\* Whether there are operations between two places of a longer pipe.
LEMMA NoOpsAppend ==
    ASSUME NEW p \in Seq(Messages), NEW m \in Messages
    PROVE  LET r == Append(p, m)
               n == Len(p) + 1
           IN  /\ \A a \in Nat : \A i \in 1..n : NoOps(r, a, i) <=> NoOps(p, a, i)
               /\ \A a \in 0..n - 1 : NoOps(r, a, n + 1) <=> NoOps(p, a, n) /\ m.type # "ops"
<1> DEFINE r == Append(p, m)
           n == Len(p) + 1
<1>1. /\ n \in Nat \ {0} /\ DOMAIN p = 1..n - 1 /\ DOMAIN r = 1..n
      /\ r[n] = m /\ \A i \in 1..n - 1 : r[i] = p[i]
  OBVIOUS
<1> HIDE DEF r, n
<1>2. ASSUME NEW a \in Nat, NEW i \in 1..n PROVE NoOps(r, a, i) <=> NoOps(p, a, i)
  <2>1. \A j \in 1..n : j < i => j \in 1..n - 1
    BY <1>1
  <2>2. \A j \in 1..n - 1 : j \in 1..n
    BY <1>1
  <2> QED BY <1>1, <2>1, <2>2 DEF NoOps
<1>3. ASSUME NEW a \in 0..n - 1 PROVE NoOps(r, a, n + 1) <=> NoOps(p, a, n) /\ m.type # "ops"
  <2>1. \A j \in 1..n : j < n + 1 /\ (j \in 1..n - 1 \/ j = n) /\ (j < n => j \in 1..n - 1)
    BY <1>1
  <2>2. a < n /\ n \in 1..n /\ \A j \in 1..n - 1 : j \in 1..n /\ j < n
    BY <1>1
  <2> QED BY <1>1, <2>1, <2>2 DEF NoOps
<1> QED BY <1>2, <1>3 DEF r, n

\* A message of operations, numbered from the next number on, enters the pipe.
LEMMA SeqSend ==
    ASSUME NEW p \in Seq(Messages), NEW n \in Nat, Runs(p), Numbered(p, n),
           NEW m \in OpsMessages, Len(m.ops) > 0,
           \A j \in DOMAIN m.ops : m.ops[j].seq = n + j - 1
    PROVE  LET r == Append(p, m)
           IN  /\ Runs(r) /\ Numbered(r, n + Len(m.ops))
               /\ ~NoOps(r, 0, Len(r) + 1)
               /\ \A s \in Int :
                     Follows(p, s) /\ (NoOps(p, 0, Len(p) + 1) => n = s + 1) => Follows(r, s)
<1> DEFINE r == Append(p, m)
           l == Len(p)
<1>0. m \in Messages /\ m.type = "ops" /\ m.ops \in Seq(Operations) /\ First(m) = n
  BY DEF OpsMessages, Messages, First
<1>1. /\ l \in Nat /\ DOMAIN p = 1..l /\ DOMAIN r = 1..l + 1 /\ Len(r) = l + 1
      /\ r[l + 1] = m /\ \A i \in 1..l : r[i] = p[i]
  BY <1>0
<1>2. /\ \A a \in Nat : \A i \in 1..l + 1 : NoOps(r, a, i) <=> NoOps(p, a, i)
      /\ \A a \in 0..l : ~NoOps(r, a, l + 2)
  <2> l + 1 + 1 = l + 2 /\ l + 1 - 1 = l
    BY <1>1
  <2> QED BY <1>0, NoOpsAppend
<1> HIDE DEF r, l
<1>3. \A i \in 1..l + 1 : i \in 1..l \/ i = l + 1
  BY <1>1
<1>4. Run(m)
  BY <1>0 DEF Run, First
<1>5. After(m) = n + Len(m.ops)
  BY <1>0 DEF After, First
<1>6. \A i \in DOMAIN r : Run(r[i])
  BY <1>1, <1>3, <1>4 DEF Runs
<1>7. ASSUME NEW i \in 1..l + 1, NEW j \in 1..l + 1, i < j, r[i].type = "ops", r[j].type = "ops",
             NoOps(r, i, j)
      PROVE  First(r[j]) = After(r[i])
  <2>1. i \in 1..l /\ i \in Nat /\ r[i] = p[i]
    BY <1>1, <1>7
  <2>2. NoOps(p, i, j)
    BY <1>2, <1>7, <2>1
  <2>3. CASE j \in 1..l
    BY <1>1, <1>7, <2>1, <2>2, <2>3 DEF Runs
  <2>4. CASE j = l + 1
    <3>1. NoOps(p, i, Len(p) + 1)
      BY <2>2, <2>4 DEF l
    <3>2. After(p[i]) = n
      BY <1>1, <1>7, <2>1, <3>1 DEF Numbered
    <3> QED BY <3>2, <2>1, <2>4, <1>0, <1>1
  <2> QED BY <1>3, <1>7, <2>3, <2>4
<1>8. Numbered(r, n + Len(m.ops))
  <2> SUFFICES ASSUME NEW i \in 1..l + 1, r[i].type = "ops", NoOps(r, i, l + 2)
               PROVE  After(r[i]) = n + Len(m.ops)
    <3> l + 1 + 1 = l + 2
      BY <1>1
    <3> QED BY <1>1 DEF Numbered
  <2>1. i = l + 1
    BY <1>2, <1>3, <1>1
  <2> QED BY <2>1, <1>1, <1>5
<1>9. ASSUME NEW s \in Int, Follows(p, s), NoOps(p, 0, Len(p) + 1) => n = s + 1
      PROVE  Follows(r, s)
  <2> SUFFICES ASSUME NEW i \in 1..l + 1, r[i].type = "ops", NoOps(r, 0, i)
               PROVE  First(r[i]) = s + 1
    BY <1>1 DEF Follows
  <2>1. NoOps(p, 0, i)
    BY <1>2
  <2>2. CASE i \in 1..l
    BY <2>1, <2>2, <1>1, <1>9 DEF Follows
  <2>3. CASE i = l + 1
    BY <2>1, <2>3, <1>0, <1>1, <1>9 DEF l
  <2> QED BY <1>3, <2>2, <2>3
<1>10. ~NoOps(r, 0, Len(r) + 1)
  <2> l + 1 + 1 = l + 2 /\ 0 \in 0..l
    BY <1>1
  <2> QED BY <1>1, <1>2
<1> QED BY <1>1, <1>6, <1>7, <1>8, <1>9, <1>10 DEF Runs, r

\* A message without operations enters the pipe.
LEMMA SeqOther ==
    ASSUME NEW p \in Seq(Messages), Runs(p), NEW m \in Messages, m.type # "ops"
    PROVE  LET r == Append(p, m)
           IN  /\ Runs(r)
               /\ \A n : Numbered(p, n) => Numbered(r, n)
               /\ NoOps(r, 0, Len(r) + 1) <=> NoOps(p, 0, Len(p) + 1)
               /\ \A s : Follows(p, s) => Follows(r, s)
<1> DEFINE r == Append(p, m)
           l == Len(p)
<1>1. /\ l \in Nat /\ DOMAIN p = 1..l /\ DOMAIN r = 1..l + 1 /\ Len(r) = l + 1
      /\ r[l + 1] = m /\ \A i \in 1..l : r[i] = p[i]
  OBVIOUS
<1>2. /\ \A a \in Nat : \A i \in 1..l + 1 : NoOps(r, a, i) <=> NoOps(p, a, i)
      /\ \A a \in 0..l : NoOps(r, a, l + 2) <=> NoOps(p, a, l + 1)
  <2> l + 1 + 1 = l + 2 /\ l + 1 - 1 = l
    BY <1>1
  <2> QED BY NoOpsAppend
<1> HIDE DEF r, l
<1>3. \A i \in 1..l + 1 : r[i].type = "ops" => i \in 1..l /\ i \in Nat /\ i \in 0..l
  BY <1>1
<1>4. l + 1 + 1 = l + 2 /\ 0 \in 0..l
  BY <1>1
<1>5. \A i \in DOMAIN r : Run(r[i])
  BY <1>1, <1>3 DEF Runs, Run
<1>6. ASSUME NEW i \in 1..l + 1, NEW j \in 1..l + 1, i < j, r[i].type = "ops", r[j].type = "ops",
             NoOps(r, i, j)
      PROVE  First(r[j]) = After(r[i])
  BY <1>1, <1>2, <1>3, <1>6 DEF Runs
<1>7. ASSUME NEW n, Numbered(p, n) PROVE Numbered(r, n)
  BY <1>1, <1>2, <1>3, <1>4, <1>7 DEF Numbered, l
<1>8. ASSUME NEW s, Follows(p, s) PROVE Follows(r, s)
  BY <1>1, <1>2, <1>3, <1>8 DEF Follows
<1>9. NoOps(r, 0, Len(r) + 1) <=> NoOps(p, 0, Len(p) + 1)
  BY <1>1, <1>2, <1>4 DEF l
<1> QED BY <1>1, <1>5, <1>6, <1>7, <1>8, <1>9 DEF Runs, r

\* The head leaves the pipe.
LEMMA SeqTail ==
    ASSUME NEW p \in Seq(Messages), Runs(p), p # <<>>
    PROVE  LET t == Tail(p)
               m == Head(p)
           IN  /\ Runs(t) /\ \A n : Numbered(p, n) => Numbered(t, n)
               /\ m.type # "ops" =>
                     /\ NoOps(t, 0, Len(t) + 1) <=> NoOps(p, 0, Len(p) + 1)
                     /\ \A s : Follows(p, s) => Follows(t, s)
               /\ m.type = "ops" =>
                     /\ Run(m)
                     /\ Follows(t, After(m) - 1)
                     /\ \A n : Numbered(p, n) /\ NoOps(t, 0, Len(t) + 1) => After(m) = n
                     /\ \A s : Follows(p, s) => First(m) = s + 1
<1> DEFINE t == Tail(p)
           l == Len(p)
           m == Head(p)
<1>1. /\ l \in Nat \ {0} /\ DOMAIN p = 1..l /\ DOMAIN t = 1..l - 1 /\ Len(t) = l - 1
      /\ \A j \in 1..l - 1 : t[j] = p[j + 1] /\ j + 1 \in 1..l
      /\ m = p[1] /\ 1 \in 1..l
  OBVIOUS
<1>0. m \in Messages
  BY <1>1
<1> HIDE DEF t, m, l
<1>2. \A j \in 2..l : j - 1 \in 1..l - 1 /\ t[j - 1] = p[j]
  BY <1>1
<1>3. ASSUME NEW a \in Nat, NEW b \in 1..l, NoOps(t, a, b) PROVE NoOps(p, a + 1, b + 1)
  <2> SUFFICES ASSUME NEW j \in 1..l, a + 1 < j, j < b + 1 PROVE p[j].type # "ops"
    BY <1>1 DEF NoOps
  <2>1. j \in 2..l /\ a < j - 1 /\ j - 1 < b
    BY <1>1
  <2> QED BY <1>1, <1>2, <1>3, <2>1 DEF NoOps
<1>4. ASSUME NEW a \in Nat, NEW b \in 1..l, NoOps(p, a + 1, b + 1) PROVE NoOps(t, a, b)
  <2> SUFFICES ASSUME NEW j \in 1..l - 1, a < j, j < b PROVE t[j].type # "ops"
    BY <1>1 DEF NoOps
  <2>1. a + 1 < j + 1 /\ j + 1 < b + 1
    BY <1>1
  <2> QED BY <1>1, <1>4, <2>1 DEF NoOps
<1>5. ASSUME NEW b \in 1..l PROVE NoOps(p, 0, b + 1) <=> NoOps(p, 1, b + 1) /\ m.type # "ops"
  <2>1. \A j \in 1..l : 0 < j /\ (1 < j \/ j = 1) /\ 1 < b + 1
    BY <1>1
  <2> QED BY <1>1, <2>1 DEF NoOps
<1>6. \A i \in DOMAIN t : Run(t[i])
  BY <1>1 DEF Runs
<1>7. ASSUME NEW i \in 1..l - 1, NEW j \in 1..l - 1, i < j, t[i].type = "ops", t[j].type = "ops",
             NoOps(t, i, j)
      PROVE  First(t[j]) = After(t[i])
  <2>1. NoOps(p, i + 1, j + 1)
    BY <1>1, <1>3, <1>7
  <2> QED BY <1>1, <1>7, <2>1 DEF Runs
<1>8. ASSUME NEW n, Numbered(p, n), NEW i \in 1..l - 1, t[i].type = "ops", NoOps(t, i, l)
      PROVE  After(t[i]) = n
  <2>1. NoOps(p, i + 1, l + 1)
    BY <1>1, <1>3, <1>8
  <2> QED BY <1>1, <1>8, <2>1 DEF Numbered, l
<1>9. \A n : Numbered(p, n) => Numbered(t, n)
  <2> l - 1 + 1 = l
    BY <1>1
  <2> QED BY <1>1, <1>8 DEF Numbered
<1>10. ASSUME m.type # "ops"
       PROVE  /\ NoOps(t, 0, Len(t) + 1) <=> NoOps(p, 0, Len(p) + 1)
              /\ \A s : Follows(p, s) => Follows(t, s)
  <2>1. \A b \in 1..l : NoOps(t, 0, b) <=> NoOps(p, 0, b + 1)
    <3> 0 + 1 = 1 /\ 0 \in Nat
      OBVIOUS
    <3> QED BY <1>3, <1>4, <1>5, <1>10
  <2>2. NoOps(t, 0, Len(t) + 1) <=> NoOps(p, 0, Len(p) + 1)
    <3> l - 1 + 1 = l /\ l \in 1..l
      BY <1>1
    <3> QED BY <1>1, <2>1 DEF l
  <2>3. ASSUME NEW s, Follows(p, s), NEW i \in 1..l - 1, t[i].type = "ops", NoOps(t, 0, i)
        PROVE  First(t[i]) = s + 1
    <3>1. i \in 1..l /\ NoOps(p, 0, i + 1)
      BY <2>1, <2>3, <1>1
    <3> QED BY <1>1, <2>3, <3>1 DEF Follows
  <2> QED BY <1>1, <2>2, <2>3 DEF Follows
<1>11. ASSUME m.type = "ops"
       PROVE  /\ Run(m) /\ Follows(t, After(m) - 1)
              /\ \A n : Numbered(p, n) /\ NoOps(t, 0, Len(t) + 1) => After(m) = n
              /\ \A s : Follows(p, s) => First(m) = s + 1
  <2>1. Run(m)
    BY <1>1 DEF Runs
  <2>2. \A b \in 1..l : NoOps(t, 0, b) => NoOps(p, 1, b + 1)
    <3> 0 + 1 = 1 /\ 0 \in Nat
      OBVIOUS
    <3> QED BY <1>3
  <2>3. ASSUME NEW i \in 1..l - 1, t[i].type = "ops", NoOps(t, 0, i)
        PROVE  First(t[i]) = After(m)
    <3>1. i \in 1..l /\ NoOps(p, 1, i + 1) /\ 1 < i + 1
      BY <2>2, <2>3, <1>1
    <3> QED BY <1>1, <1>11, <2>3, <3>1 DEF Runs
  <2>4. After(m) \in Int
    <3>1. m.ops \in Seq(Operations) /\ Len(m.ops) > 0
      BY <1>0, <1>11, <2>1 DEF Messages, OpsMessages, BatchMessages, EndMessages, Run
    <3>2. m.ops[1] \in Operations
      BY <3>1
    <3>3. m.ops[1].seq \in Int
      BY <3>2 DEF Operations
    <3> QED BY <3>1, <3>3 DEF After
  <2>5. Follows(t, After(m) - 1)
    <3> DEFINE z == After(m)
    <3>1. z - 1 + 1 = z
      BY <2>4
    <3> QED BY <3>1, <2>3, <1>1 DEF Follows
  <2>6. ASSUME NEW n, Numbered(p, n), NoOps(t, 0, Len(t) + 1) PROVE After(m) = n
    <3>1. l - 1 + 1 = l /\ l \in 1..l
      BY <1>1
    <3>2. NoOps(p, 1, l + 1)
      BY <1>1, <2>2, <2>6, <3>1
    <3> QED BY <3>2, <2>6, <1>1, <1>11 DEF Numbered, l
  <2>7. ASSUME NEW s, Follows(p, s) PROVE First(m) = s + 1
    <3>1. NoOps(p, 0, 1)
      BY <1>1 DEF NoOps
    <3> QED BY <3>1, <2>7, <1>1, <1>11 DEF Follows
  <2> QED BY <2>1, <2>5, <2>6, <2>7
<1> QED BY <1>1, <1>6, <1>7, <1>9, <1>10, <1>11 DEF Runs, t, m

\* The pipe is cut off somewhere.
LEMMA SeqPrefix ==
    ASSUME NEW p \in Seq(Messages), Runs(p), NEW l \in 0..Len(p)
    PROVE  LET r == SubSeq(p, 1, l)
           IN  Runs(r) /\ \A s : Follows(p, s) => Follows(r, s)
<1> DEFINE r == SubSeq(p, 1, l)
<1>1. /\ DOMAIN p = 1..Len(p) /\ Len(p) \in Nat /\ l \in Nat
      /\ DOMAIN r = 1..l /\ \A i \in 1..l : r[i] = p[i] /\ i \in 1..Len(p)
  OBVIOUS
<1> HIDE DEF r
<1>2. ASSUME NEW a \in Nat, NEW i \in 1..l, NoOps(r, a, i) PROVE NoOps(p, a, i)
  <2>1. \A j \in 1..Len(p) : j < i => j \in 1..l
    BY <1>1
  <2> QED BY <1>1, <1>2, <2>1 DEF NoOps
<1>3. \A i \in DOMAIN r : Run(r[i])
  BY <1>1 DEF Runs
<1>4. ASSUME NEW i \in 1..l, NEW j \in 1..l, i < j, r[i].type = "ops", r[j].type = "ops",
             NoOps(r, i, j)
      PROVE  First(r[j]) = After(r[i])
  <2>1. NoOps(p, i, j)
    BY <1>2, <1>4
  <2> QED BY <1>1, <1>4, <2>1 DEF Runs
<1>5. \A s : Follows(p, s) => Follows(r, s)
  BY <1>1, <1>2 DEF Follows
<1> QED BY <1>1, <1>3, <1>4, <1>5 DEF Runs, r
-----------------------------------------------------------------------------
(* Types.                                                                   *)

LEMMA OpTypes ==
    ASSUME NEW adm \in BOOLEAN, NEW k \in Keys, NEW q \in Seq(Operations)
    PROVE  Append(q, Op(adm, k, -1)) \in Seq(Operations)
<1>1. Op(adm, k, -1) \in Operations
  BY DEF Op, Operations
<1> QED BY <1>1

LEMMA LocalTypes ==
    ASSUME Types, NEW w \in Workers
    PROVE  /\ hot[w] \in SUBSET Keys /\ storing[w] \in SUBSET Keys
           /\ opq[w] \in Seq(Operations) /\ seqno[w] \in Nat /\ push[w] \in Seq(Messages)
           /\ snd[w] \in Senders /\ nsync[w] \in Nat
           /\ node[w] \in Nodes /\ node[w].sync \in Syncs /\ node[w].kv \in SUBSET Keys
           /\ node[w].seq \in Int
           /\ dirty[w] \in SUBSET Keys /\ unsent[w] \in SUBSET Keys /\ copy[w] \in SUBSET Keys
<1>1. node[w] \in Nodes
  BY DEF Types, RegistryType
<1>2. node[w].sync \in Syncs /\ node[w].kv \in SUBSET Keys /\ node[w].seq \in Int
  BY <1>1 DEF Nodes
<1> QED BY <1>1, <1>2 DEF Types, WorkerType, SenderType, HistoryType

LEMMA ConstantTypes ==
    /\ NoNode \in Nodes /\ FreshNode \in Nodes /\ Idle \in Senders
    /\ NoSync \in Syncs /\ NoNode.sync = NoSync /\ FreshNode.sync = NoSync
    /\ NoSync.sid = 0 /\ NoSync.state = "none"
    /\ NoNode.kv = {} /\ FreshNode.kv = {} /\ ~NoNode.reg /\ FreshNode.reg
    /\ FreshNode.seq = -1
<1>1. NoSync \in Syncs
  BY DEF NoSync, Syncs
<1>2. NoNode \in Nodes /\ FreshNode \in Nodes
  BY <1>1 DEF NoNode, FreshNode, Nodes
<1>3. Idle \in Senders
  BY DEF Idle, Senders, Phases
<1> QED BY <1>1, <1>2, <1>3 DEF NoNode, FreshNode, NoSync

LEMMA MessageTypes ==
    ASSUME NEW m \in Messages
    PROVE  /\ m.type = "ops" => m \in OpsMessages /\ m.ops \in Seq(Operations)
           /\ m.type = "batch" => /\ m \in BatchMessages /\ m.sid \in Nat
                                  /\ m.id \in Nat /\ m.keys \in SUBSET Keys
           /\ m.type = "end" => m \in EndMessages /\ m.sid \in Nat
           /\ m.type \in {"ops", "batch", "end", "dereg"}
BY DEF Messages, OpsMessages, BatchMessages, EndMessages

\* The messages a sender pushes.
LEMMA BatchTypes ==
    ASSUME Types, NEW w \in Workers, NEW b \in Nat
    PROVE  /\ BatchMsg(w, b) \in BatchMessages /\ BatchMsg(w, b).sid = snd[w].sid
           /\ BatchMsg(w, b).id = b
           /\ BatchMsg(w, b).keys = BatchKeys(snd[w].snap, b)
           /\ EndMsg(w) \in EndMessages /\ EndMsg(w).sid = snd[w].sid
           /\ BatchMessages \subseteq Messages /\ EndMessages \subseteq Messages
<1>1. snd[w].sid \in Nat /\ snd[w].snap \in Seq(Keys)
  BY LocalTypes DEF Senders
<1>2. BatchKeys(snd[w].snap, b) \subseteq ToSet(snd[w].snap)
  BY <1>1, BatchSplit
<1>3. ToSet(snd[w].snap) \subseteq Keys
  BY <1>1 DEF ToSet
<1>4. BatchMsg(w, b) \in BatchMessages
  BY <1>1, <1>2, <1>3 DEF BatchMsg, BatchMessages
<1>5. EndMsg(w) \in EndMessages
  BY <1>1 DEF EndMsg, EndMessages
<1> QED BY <1>4, <1>5 DEF BatchMsg, EndMsg, Messages

\* The message of operations that is sent.
LEMMA SendTypes ==
    ASSUME Types, NEW w \in Workers,
           NEW m, m = [type |-> "ops",
                       ops |-> [i \in DOMAIN opq[w] |->
                                  [opq[w][i] EXCEPT !.seq = seqno[w] + i - 1]]]
    PROVE  /\ m \in OpsMessages /\ m \in Messages /\ m.type = "ops"
           /\ Len(m.ops) = Len(opq[w]) /\ DOMAIN m.ops = DOMAIN opq[w]
           /\ \A i \in DOMAIN m.ops : m.ops[i].seq = seqno[w] + i - 1
<1> DEFINE q == opq[w]
           o == [i \in DOMAIN q |-> [q[i] EXCEPT !.seq = seqno[w] + i - 1]]
<1>1. q \in Seq(Operations) /\ seqno[w] \in Nat
  BY LocalTypes
<1> HIDE DEF q
<1>2. ASSUME NEW i \in 1..Len(q)
      PROVE [q[i] EXCEPT !.seq = seqno[w] + i - 1] \in Operations
            /\ [q[i] EXCEPT !.seq = seqno[w] + i - 1].seq = seqno[w] + i - 1
  <2>1. q[i] \in Operations /\ seqno[w] + i - 1 \in Int
    BY <1>1
  <2> QED BY <2>1 DEF Operations
<1>3. DOMAIN q = 1..Len(q) /\ Len(q) \in Nat
  BY <1>1
<1>4. o \in [1..Len(q) -> Operations]
  BY <1>2, <1>3
<1>5. \A i \in 1..Len(q) : o[i].seq = seqno[w] + i - 1
  BY <1>2, <1>3
<1> HIDE DEF o
<1>6. o \in Seq(Operations) /\ Len(o) = Len(q) /\ DOMAIN o = DOMAIN q
  BY ONLY <1>3, <1>4
<1>7. m = [type |-> "ops", ops |-> o]
  BY DEF o, q
<1>8. m.ops = o /\ m.type = "ops" /\ m \in OpsMessages
  BY <1>6, <1>7 DEF OpsMessages
<1> QED BY <1>3, <1>5, <1>6, <1>8 DEF Messages, q

\* The batches to send again.
LEMMA MissingTypes ==
    ASSUME Types, NEW w \in Workers
    PROVE  /\ SetToSeq(MissingBatches(w)) \in Seq(Nat)
           /\ \A i \in DOMAIN SetToSeq(MissingBatches(w)) :
                 /\ node[w].sync.sid = snd[w].sid /\ Syncing(w)
                 /\ SetToSeq(MissingBatches(w))[i] < node[w].sync.count
<1> DEFINE S == MissingBatches(w)
           c == node[w].sync.count
<1>1. c \in Nat
  BY LocalTypes DEF Syncs
<1>2. S \subseteq 0..c - 1 /\ (S # {} => node[w].sync.sid = snd[w].sid /\ Syncing(w))
  BY DEF MissingBatches
<1> HIDE DEF S, c
<1>3. IsFiniteSet(S)
  <2>1. c - 1 \in Int
    BY <1>1
  <2>2. IsFiniteSet(0..c - 1)
    BY <2>1, FS_Interval
  <2> QED BY <1>2, <2>2, FS_Subset
<1>4. SetToSeq(S) \in Seq(S)
  BY <1>3, Listing
<1>5. \A i \in DOMAIN SetToSeq(S) : SetToSeq(S)[i] \in S
  BY <1>4
<1>6. SetToSeq(S) \in Seq(Nat)
  <2> DEFINE s == SetToSeq(S)
  <2>1. Len(s) \in Nat /\ s \in [1..Len(s) -> S]
    BY <1>4
  <2>2. S \subseteq Nat
    BY <1>1, <1>2
  <2> HIDE DEF s
  <2>3. s \in [1..Len(s) -> Nat]
    BY <2>1, <2>2
  <2>4. s \in Seq(Nat)
    BY <2>1, <2>3
  <2> QED BY <2>4 DEF s
<1>7. \A e \in S : e < c
  BY <1>1, <1>2
<1> QED BY <1>2, <1>5, <1>6, <1>7 DEF S, c

LEMMA StoreTypes ==
    ASSUME Types, NEW w \in Workers, NEW k \in Keys,
           StoreBegin(w, k) \/ StorePut(w, k) \/ Evict(w, k)
    PROVE  Types'
<1> USE DEF Types
<1>1. opq' \in [Workers -> Seq(Operations)]
  <2>1. \A adm \in BOOLEAN : Append(opq[w], Op(adm, k, -1)) \in Seq(Operations)
    BY OpTypes, LocalTypes
  <2> QED BY <2>1 DEF StoreBegin, StorePut, Evict, AddKvOp, SenderType, sender
<1>2. WorkerType'
  <2>1. hot[w] \cup {k} \in SUBSET Keys /\ hot[w] \ {k} \in SUBSET Keys
    BY LocalTypes
  <2>2. storing[w] \cup {k} \in SUBSET Keys /\ storing[w] \ {k} \in SUBSET Keys
    BY LocalTypes
  <2>3. UNCHANGED <<up, frozen>>
    BY DEF StoreBegin, StorePut, Evict
  <2>4. hot' \in [Workers -> SUBSET Keys]
    BY <2>1 DEF StoreBegin, StorePut, Evict, WorkerType
  <2>5. storing' \in [Workers -> SUBSET Keys]
    BY <2>2 DEF StoreBegin, StorePut, Evict, WorkerType
  <2> QED BY <2>3, <2>4, <2>5 DEF WorkerType
<1>3. SenderType'
  BY <1>1 DEF StoreBegin, StorePut, Evict, SenderType, sender
<1>4. RegistryType' /\ HistoryType'
  BY DEF StoreBegin, StorePut, Evict, RegistryType, HistoryType, registry, history
<1> QED BY <1>2, <1>3, <1>4

LEMMA DrainTypes ==
    ASSUME Types, NEW w \in Workers, DrainAndSend(w)
    PROVE  Types'
<1> USE DEF Types
<1> DEFINE m == [type |-> "ops",
                 ops |-> [i \in DOMAIN opq[w] |->
                             [opq[w][i] EXCEPT !.seq = seqno[w] + i - 1]]]
<1>1. m \in Messages
  BY SendTypes
<1>2. push' = [push EXCEPT ![w] = Append(@, m)]
  BY DEF DrainAndSend, PutMsg
<1> HIDE DEF m
<1>3. push' \in [Workers -> Seq(Messages)]
  <2>1. Append(push[w], m) \in Seq(Messages)
    BY <1>1, LocalTypes
  <2> QED BY <1>2, <2>1 DEF SenderType
<1>4. /\ seqno' = [seqno EXCEPT ![w] = @ + Len(opq[w])]
      /\ opq' = [opq EXCEPT ![w] = <<>>] /\ snd' = snd /\ nsync' = nsync
  BY DEF DrainAndSend
<1>5. Len(opq[w]) \in Nat
  BY LocalTypes
<1>6. SenderType'
  BY <1>3, <1>4, <1>5 DEF SenderType
<1>7. UNCHANGED worker /\ UNCHANGED registry /\ UNCHANGED history
  BY DEF DrainAndSend
<1>8. WorkerType' /\ RegistryType' /\ HistoryType'
  BY <1>7 DEF WorkerType, RegistryType, HistoryType, worker, registry, history
<1> QED BY <1>6, <1>8

LEMMA NodeUpdate ==
    ASSUME NEW n \in Nodes, NEW e \in SUBSET Keys, NEW f \in Int
    PROVE  [n EXCEPT !.kv = e, !.seq = f] \in Nodes
BY DEF Nodes

\* The node of a worker after it was registered.
LEMMA RegisterTypes ==
    ASSUME Types, NEW w \in Workers, RegisterNode(w)
    PROVE  /\ node' \in [Workers -> Nodes]
           /\ \A v \in Workers \ {w} : node'[v] = node[v]
           /\ node'[w].kv = {} /\ node'[w].seq = -1 /\ node'[w].reg
           /\ node'[w].sync = (IF node[w].reg THEN node[w].sync ELSE NoSync)
<1>1. node[w] \in Nodes /\ node \in [Workers -> Nodes]
  BY LocalTypes DEF Types, RegistryType
<1>2. [node[w] EXCEPT !.kv = {}, !.seq = -1] \in Nodes
  <2> DEFINE e == {}
             f == -1
  <2>1. e \in SUBSET Keys /\ f \in Int
    OBVIOUS
  <2> HIDE DEF e, f
  <2>2. [node[w] EXCEPT !.kv = e, !.seq = f] \in Nodes
    BY <1>1, <2>1, NodeUpdate
  <2> QED BY <2>2 DEF e, f
<1>3. /\ [node[w] EXCEPT !.kv = {}, !.seq = -1].kv = {}
      /\ [node[w] EXCEPT !.kv = {}, !.seq = -1].seq = -1
      /\ [node[w] EXCEPT !.kv = {}, !.seq = -1].reg = node[w].reg
      /\ [node[w] EXCEPT !.kv = {}, !.seq = -1].sync = node[w].sync
  BY <1>1 DEF Nodes
<1>4. node'[w] = IF node[w].reg THEN [node[w] EXCEPT !.kv = {}, !.seq = -1] ELSE FreshNode
  BY <1>1 DEF RegisterNode
<1>5. node' \in [Workers -> Nodes]
  BY <1>1, <1>2, ConstantTypes DEF RegisterNode
<1>6. \A v \in Workers \ {w} : node'[v] = node[v]
  BY <1>1 DEF RegisterNode
<1> QED BY <1>3, <1>4, <1>5, <1>6, ConstantTypes

LEMMA RegisterStepTypes ==
    ASSUME Types, NEW w \in Workers, Register(w) \/ Heartbeat(w) \/ HeartbeatLost(w)
    PROVE  Types'
<1> USE DEF Types
<1>1. node' \in [Workers -> Nodes]
  BY RegisterTypes DEF Register, Heartbeat, HeartbeatLost, RegistryType
<1>2. snd' \in [Workers -> Senders]
  <2>1. [snd[w] EXCEPT !.phase = "delay"] \in Senders
    BY LocalTypes DEF Senders, Phases
  <2>2. snd' = snd \/ snd' = [snd EXCEPT ![w].phase = "delay"]
    BY DEF Register, Heartbeat, HeartbeatLost, ExecuteFullSync, sender
  <2> QED BY <2>1, <2>2 DEF SenderType
<1>3. WorkerType'
  BY DEF Register, Heartbeat, HeartbeatLost, WorkerType, worker
<1>4. SenderType'
  BY <1>2 DEF Register, Heartbeat, HeartbeatLost, SenderType, sender
<1>5. RegistryType'
  BY <1>1 DEF Register, Heartbeat, HeartbeatLost, RegistryType
<1>6. HistoryType'
  BY DEF Register, Heartbeat, HeartbeatLost, HistoryType
<1> QED BY <1>3, <1>4, <1>5, <1>6

LEMMA LeaveTypes ==
    ASSUME Types, NEW w \in Workers,
           HealthCheck(w) \/ Close(w) \/ RestartWorker(w) \/ RestartController \/ ExecClear
    PROVE  Types'
<1> USE DEF Types
<1>1. node' \in [Workers -> Nodes]
  BY ConstantTypes DEF HealthCheck, DeregisterNode, Close, RestartWorker, RestartController,
                       ExecClear, RegistryType, registry
<1>2. push' \in [Workers -> Seq(Messages)]
  <2>1. ASSUME Close(w) PROVE push' \in [Workers -> Seq(Messages)]
    <3>1. Append(push[w], [type |-> "dereg"]) \in Seq(Messages)
      BY LocalTypes DEF Messages
    <3> DEFINE r == Append(push[w], [type |-> "dereg"])
    <3>2. PICK n \in 0..Len(push[w]) + 1 : push' = [push EXCEPT ![w] = SubSeq(r, 1, n)]
      BY <2>1 DEF Close
    <3>3. Len(r) = Len(push[w]) + 1 /\ Len(push[w]) \in Nat
      BY LocalTypes
    <3> HIDE DEF r
    <3>4. SubSeq(r, 1, n) \in Seq(Messages)
      BY <3>1, <3>3 DEF r
    <3> QED BY <3>2, <3>4 DEF SenderType
  <2>2. ASSUME RestartWorker(w) PROVE push' \in [Workers -> Seq(Messages)]
    <3>1. push' = [push EXCEPT ![w] = <<>>] /\ <<>> \in Seq(Messages)
      BY <2>2 DEF RestartWorker
    <3> QED BY <3>1 DEF SenderType
  <2>3. ASSUME UNCHANGED sender PROVE push' \in [Workers -> Seq(Messages)]
    BY <2>3 DEF sender, SenderType
  <2> QED BY <2>1, <2>2, <2>3 DEF HealthCheck, RestartController, ExecClear
<1>3. /\ snd' \in [Workers -> Senders] /\ opq' \in [Workers -> Seq(Operations)]
      /\ seqno' \in [Workers -> Nat] /\ nsync' \in [Workers -> Nat]
  <2>0. <<>> \in Seq(Operations)
    OBVIOUS
  <2>1. ASSUME Close(w)
        PROVE  /\ snd' = snd /\ opq' \in [Workers -> Seq(Operations)]
               /\ seqno' = seqno /\ nsync' = nsync
    <3>1. opq' = [opq EXCEPT ![w] = <<>>] /\ snd' = snd /\ seqno' = seqno /\ nsync' = nsync
      BY <2>1 DEF Close
    <3> QED BY <2>0, <3>1 DEF SenderType
  <2>2. ASSUME RestartWorker(w)
        PROVE  /\ snd' \in [Workers -> Senders] /\ opq' \in [Workers -> Seq(Operations)]
               /\ seqno' \in [Workers -> Nat] /\ nsync' = nsync
    <3>1. /\ opq' = [opq EXCEPT ![w] = <<>>] /\ snd' = [snd EXCEPT ![w] = Idle]
          /\ seqno' = [seqno EXCEPT ![w] = 0] /\ nsync' = nsync
      BY <2>2 DEF RestartWorker
    <3> QED BY <2>0, <3>1, ConstantTypes DEF SenderType
  <2>3. ASSUME UNCHANGED sender
        PROVE  snd' = snd /\ opq' = opq /\ seqno' = seqno /\ nsync' = nsync
    BY <2>3 DEF sender
  <2> QED BY <2>1, <2>2, <2>3 DEF HealthCheck, RestartController, ExecClear, SenderType
<1>4. WorkerType'
  BY DEF HealthCheck, Close, RestartWorker, RestartController, ExecClear, WorkerType, worker
<1>5. RegistryType'
  BY <1>1 DEF HealthCheck, Close, RestartWorker, RestartController, ExecClear, RegistryType, registry
<1>6. HistoryType'
  BY DEF HealthCheck, Close, RestartWorker, RestartController, ExecClear, HistoryType, history
<1> QED BY <1>2, <1>3, <1>4, <1>5, <1>6 DEF SenderType

LEMMA ClearTypes ==
    ASSUME Types, NEW w \in Workers, IsFiniteSet(hot[w]), OpsInv(w), HandleClear(w)
    PROVE  Types'
<1> USE DEF Types
<1> DEFINE s == SetToSeq(hot[w])
           r == opq[w] \o [i \in DOMAIN s |-> Op(FALSE, s[i], -1)]
<1>1. r \in Seq(Operations)
  <2>1. Replays(opq[w], push[w], hot[w])
    BY DEF OpsInv, HandleClear
  <2> QED BY <2>1, LocalTypes, ReplaysClear
<1>2. opq' = [opq EXCEPT ![w] = r]
  BY DEF HandleClear
<1> HIDE DEF r
<1>3. SenderType'
  BY <1>1, <1>2 DEF HandleClear, SenderType
<1>4. WorkerType' /\ RegistryType' /\ HistoryType'
  BY DEF HandleClear, WorkerType, RegistryType, HistoryType, registry, history
<1> QED BY <1>3, <1>4
-----------------------------------------------------------------------------
(* The steps of a sender: what they make of snd.                            *)

\* A sync begins.
LEMMA FreezeSender ==
    ASSUME Types, NEW w \in Workers, IsFiniteSet(hot[w]), Freeze(w)
    PROVE  /\ snd' \in [Workers -> Senders] /\ \A v \in Workers \ {w} : snd'[v] = snd[v]
           /\ snd'[w].phase = "start" /\ snd'[w].sid = nsync[w] + 1
           /\ snd'[w].next = snd[w].next /\ snd'[w].resend = snd[w].resend
<1> DEFINE s == SetToSeq(hot[w])
           x == snd[w]
           i == nsync[w] + 1
<1>1. s \in Seq(Keys)
  <2>1. s \in Seq(hot[w]) /\ hot[w] \in SUBSET Keys
    BY Listing, LocalTypes
  <2> HIDE DEF s
  <2>2. Len(s) \in Nat /\ s \in [1..Len(s) -> Keys]
    BY <2>1
  <2> QED BY <2>2
<1>2. x \in Senders /\ i \in Nat /\ snd \in [Workers -> Senders]
  BY LocalTypes DEF Types, SenderType
<1>3. snd' = [snd EXCEPT ![w].phase = "start", ![w].sid = i, ![w].snap = s]
  BY DEF Freeze
<1> HIDE DEF s, i
<1>4. snd' \in [Workers -> Senders]
  BY <1>1, <1>2, <1>3 DEF Senders, Phases
<1>5. \A v \in Workers \ {w} : snd'[v] = snd[v]
  BY <1>2, <1>3
<1>6. snd'[w].phase = "start" /\ snd'[w].sid = i /\ snd'[w].next = x.next /\ snd'[w].resend = x.resend
  BY <1>2, <1>3 DEF Senders
<1> QED BY <1>4, <1>5, <1>6 DEF i

\* The sender goes on with its sync, or ends it, and pushes nothing.
Goes(x, z, p) ==
    /\ z \in Senders /\ Progress(z, p)
    /\ \/ /\ z.sid = x.sid /\ z.snap = x.snap /\ z.next = x.next
          /\ z.phase \in {"idle", "delay"} <=> x.phase \in {"idle", "delay"}
       \/ z.sid = 0 /\ z.phase \in {"idle", "delay"}
SenderGoes(w) ==
    /\ snd' \in [Workers -> Senders] /\ \A v \in Workers \ {w} : snd'[v] = snd[v]
    /\ Goes(snd[w], snd'[w], push[w])
    /\ frozen' \in [Workers -> BOOLEAN]

LEMMA EndSyncSender ==
    ASSUME Types, NEW w \in Workers, EndSync(w)
    PROVE  SenderGoes(w)
<1>1. snd \in [Workers -> Senders] /\ frozen \in [Workers -> BOOLEAN]
  BY DEF Types, SenderType, WorkerType
<1>2. snd' = [snd EXCEPT ![w] = Idle] /\ frozen' = [frozen EXCEPT ![w] = FALSE]
  BY DEF EndSync
<1>3. snd'[w] = Idle
  BY <1>1, <1>2
<1>4. /\ Idle.sid = 0 /\ Idle.phase = "idle" /\ Idle.next = 0 /\ Idle.resend = <<>>
      /\ DOMAIN <<>> = {}
  BY DEF Idle
<1>5. Progress(Idle, push[w])
  BY <1>4 DEF Progress
<1>6. Goes(snd[w], snd'[w], push[w])
  BY <1>3, <1>4, <1>5, ConstantTypes DEF Goes
<1> QED BY <1>1, <1>2, <1>6, ConstantTypes DEF SenderGoes

LEMMA StartSender ==
    ASSUME Types, NEW w \in Workers, SyncInv(w), SendSyncStart(w)
    PROVE  SenderGoes(w)
<1> DEFINE x == snd[w]
           again == IF x.tries + 1 < mode.retry
                    THEN /\ snd' = [snd EXCEPT ![w].tries = @ + 1]
                         /\ UNCHANGED frozen
                    ELSE EndSync(w)
           ahead == snd' = [snd EXCEPT ![w].phase = "batches"] /\ UNCHANGED frozen
<1>1. /\ snd \in [Workers -> Senders] /\ frozen \in [Workers -> BOOLEAN] /\ x \in Senders
  BY LocalTypes DEF Types, SenderType, WorkerType
<1>2. x.phase = "start" /\ (again \/ ahead)
  BY DEF SendSyncStart
<1>3. Progress(x, push[w]) /\ x.snap \in Seq(Keys) /\ x.next = 0 /\ x.resend = <<>>
  BY <1>1, <1>2 DEF SyncInv, SyncOK, Progress, Senders
<1>4. Batches(x.snap) \in Nat
  BY <1>3, BatchSplit
<1>5. CASE ahead
  <2>1. /\ snd'[w].phase = "batches" /\ snd'[w].sid = x.sid /\ snd'[w].snap = x.snap
        /\ snd'[w].next = x.next /\ snd'[w].resend = x.resend
    BY <1>1, <1>5 DEF Senders
  <2>2. snd' \in [Workers -> Senders]
    BY <1>1, <1>5 DEF Senders, Phases
  <2>3. Progress(snd'[w], push[w])
    BY <1>3, <1>4, <2>1 DEF Progress
  <2>4. \A v \in Workers \ {w} : snd'[v] = snd[v]
    BY <1>1, <1>5
  <2>5. Goes(x, snd'[w], push[w])
    BY <1>2, <2>1, <2>2, <2>3 DEF Goes
  <2> QED BY <1>1, <1>5, <2>2, <2>4, <2>5 DEF SenderGoes
<1>6. ASSUME snd' = [snd EXCEPT ![w].tries = @ + 1], UNCHANGED frozen PROVE SenderGoes(w)
  <2>1. /\ snd'[w].phase = x.phase /\ snd'[w].sid = x.sid /\ snd'[w].snap = x.snap
        /\ snd'[w].next = x.next /\ snd'[w].resend = x.resend
    BY <1>1, <1>6 DEF Senders
  <2>2. snd' \in [Workers -> Senders]
    <3>1. x.tries + 1 \in Nat
      BY <1>1 DEF Senders
    <3> DEFINE t == x.tries + 1
    <3>2. snd' = [snd EXCEPT ![w].tries = t] /\ t \in Nat
      BY <1>6, <3>1
    <3> HIDE DEF t
    <3> QED BY <1>1, <3>2 DEF Senders
  <2>3. Progress(snd'[w], push[w])
    BY <1>3, <2>1 DEF Progress
  <2>4. \A v \in Workers \ {w} : snd'[v] = snd[v]
    BY <1>1, <1>6
  <2>5. Goes(x, snd'[w], push[w])
    BY <2>1, <2>2, <2>3 DEF Goes
  <2> QED BY <1>1, <1>6, <2>2, <2>4, <2>5 DEF SenderGoes
<1> QED BY <1>2, <1>5, <1>6, EndSyncSender

LEMMA PollSender ==
    ASSUME Types, NEW w \in Workers, SyncInv(w), PollForCompletion(w)
    PROVE  SenderGoes(w)
<1> DEFINE x == snd[w]
           next == snd' = [snd EXCEPT ![w].polls = @ + 1] /\ UNCHANGED frozen
           resend == /\ snd' = [snd EXCEPT ![w].phase = "resend",
                                           ![w].resend = SetToSeq(MissingBatches(w)),
                                           ![w].resends = @ + 1,
                                           ![w].polls = @ + 1]
                     /\ UNCHANGED frozen
<1>1. /\ snd \in [Workers -> Senders] /\ frozen \in [Workers -> BOOLEAN] /\ x \in Senders
  BY LocalTypes DEF Types, SenderType, WorkerType
<1>2. x.phase = "poll" /\ (EndSync(w) \/ next \/ resend)
  BY DEF PollForCompletion
<1>3. Progress(x, push[w]) /\ x.snap \in Seq(Keys) /\ x.next = Batches(x.snap) /\ x.resend = <<>>
  BY <1>1, <1>2 DEF SyncInv, SyncOK, Progress, Senders
<1>4. CASE next
  <2>1. /\ snd'[w].phase = x.phase /\ snd'[w].sid = x.sid /\ snd'[w].snap = x.snap
        /\ snd'[w].next = x.next /\ snd'[w].resend = x.resend
    BY <1>1, <1>4 DEF Senders
  <2>2. snd' \in [Workers -> Senders]
    <3>1. x.polls + 1 \in Nat
      BY <1>1 DEF Senders
    <3> DEFINE t == x.polls + 1
    <3>2. snd' = [snd EXCEPT ![w].polls = t] /\ t \in Nat
      BY <1>4, <3>1
    <3> HIDE DEF t
    <3> QED BY <1>1, <3>2 DEF Senders
  <2>3. Progress(snd'[w], push[w])
    BY <1>3, <2>1 DEF Progress
  <2>4. \A v \in Workers \ {w} : snd'[v] = snd[v]
    BY <1>1, <1>4
  <2>5. Goes(x, snd'[w], push[w])
    BY <2>1, <2>2, <2>3 DEF Goes
  <2> QED BY <1>1, <1>4, <2>2, <2>4, <2>5 DEF SenderGoes
<1>5. CASE resend
  <2> DEFINE s == SetToSeq(MissingBatches(w))
  <2>0. s \in Seq(Nat) /\ \A i \in DOMAIN s : s[i] < Batches(x.snap)
    <3>1. /\ s \in Seq(Nat)
          /\ \A i \in DOMAIN s : /\ node[w].sync.sid = x.sid /\ Syncing(w)
                                 /\ s[i] < node[w].sync.count
      BY MissingTypes
    <3> HIDE DEF s
    <3> QED BY <3>1 DEF SyncInv, SyncOK, Open, Syncing
  <2>6. snd' = [snd EXCEPT ![w].phase = "resend", ![w].resend = s,
                           ![w].resends = @ + 1, ![w].polls = @ + 1]
    BY <1>5
  <2> HIDE DEF s
  <2>1. /\ snd'[w].phase = "resend" /\ snd'[w].sid = x.sid /\ snd'[w].snap = x.snap
        /\ snd'[w].next = x.next /\ snd'[w].resend = s
    BY <1>1, <2>6 DEF Senders
  <2>2. snd' \in [Workers -> Senders]
    <3>1. x.polls + 1 \in Nat /\ x.resends + 1 \in Nat
      BY <1>1 DEF Senders
    <3> DEFINE t == x.polls + 1
               r == x.resends + 1
    <3>2. /\ snd' = [snd EXCEPT ![w].phase = "resend", ![w].resend = s,
                                ![w].resends = r, ![w].polls = t]
          /\ t \in Nat /\ r \in Nat
      BY <2>6, <3>1
    <3> HIDE DEF t, r
    <3> QED BY <1>1, <2>0, <3>2 DEF Senders, Phases
  <2>3. Progress(snd'[w], push[w])
    BY <1>3, <2>0, <2>1 DEF Progress
  <2>4. \A v \in Workers \ {w} : snd'[v] = snd[v]
    BY <1>1, <2>6
  <2>5. Goes(x, snd'[w], push[w])
    BY <1>2, <2>1, <2>2, <2>3 DEF Goes
  <2> QED BY <1>1, <1>5, <2>2, <2>4, <2>5 DEF SenderGoes
<1> QED BY <1>2, <1>4, <1>5, EndSyncSender

\* The sender pushes a batch, or the end.
SendsBatch(x, z, p, m) ==
    /\ x.phase \in {"batches", "resend"} /\ z.phase = x.phase
    /\ m.id \in Nat /\ m.id < Batches(x.snap)
    /\ m \in BatchMessages /\ m.sid = x.sid /\ m.keys = BatchKeys(x.snap, m.id)
    /\ z.next = x.next \/ (z.next = x.next + 1 /\ m.id = x.next)
SendsEnd(x, z, p, m) ==
    /\ x.phase \in {"batches", "resend"} /\ z.phase = "poll"
    /\ x.next >= Batches(x.snap) /\ z.next = x.next
    /\ m \in EndMessages /\ m.sid = x.sid
SenderSends(w) ==
    /\ snd' \in [Workers -> Senders] /\ \A v \in Workers \ {w} : snd'[v] = snd[v]
    /\ snd'[w].sid = snd[w].sid /\ snd'[w].snap = snd[w].snap /\ Progress(snd'[w], push[w])
    /\ \E m \in Messages : /\ PutMsg(w, m)
                           /\ \/ SendsBatch(snd[w], snd'[w], push[w], m)
                              \/ SendsEnd(snd[w], snd'[w], push[w], m)

LEMMA BatchesSender ==
    ASSUME Types, NEW w \in Workers, SyncInv(w), SendKeyBatches(w)
    PROVE  SenderSends(w)
<1> DEFINE x == snd[w]
<1>1. snd \in [Workers -> Senders] /\ x \in Senders /\ x.next \in Nat /\ x.snap \in Seq(Keys)
  BY LocalTypes DEF Types, SenderType, Senders
<1>2. x.phase = "batches" /\ x.next <= Batches(x.snap) /\ x.resend = <<>> /\ Progress(x, push[w])
  BY DEF SendKeyBatches, SyncInv, SyncOK, Progress
<1>3. Batches(x.snap) \in Nat
  BY <1>1, BatchSplit
<1>4. CASE x.next < Batches(x.snap)
  <2>1. PutMsg(w, BatchMsg(w, x.next)) /\ snd' = [snd EXCEPT ![w].next = @ + 1]
    BY <1>4 DEF SendKeyBatches
  <2>2. /\ snd'[w].phase = x.phase /\ snd'[w].sid = x.sid /\ snd'[w].snap = x.snap
        /\ snd'[w].next = x.next + 1 /\ snd'[w].resend = x.resend
    BY <1>1, <2>1 DEF Senders
  <2>3. snd' \in [Workers -> Senders]
    <3>1. x.next + 1 \in Nat
      BY <1>1
    <3> DEFINE t == x.next + 1
    <3>2. snd' = [snd EXCEPT ![w].next = t] /\ t \in Nat
      BY <2>1, <3>1
    <3> HIDE DEF t
    <3> QED BY <1>1, <3>2 DEF Senders
  <2>4. Progress(snd'[w], push[w])
    BY <1>1, <1>2, <1>3, <1>4, <2>2 DEF Progress
  <2>5. \A v \in Workers \ {w} : snd'[v] = snd[v]
    BY <1>1, <2>1
  <2> DEFINE m == BatchMsg(w, x.next)
  <2>6. /\ m \in BatchMessages /\ m \in Messages /\ m.sid = x.sid /\ m.id = x.next
        /\ m.keys = BatchKeys(x.snap, x.next)
    BY <1>1, BatchTypes
  <2> HIDE DEF m
  <2>7. SendsBatch(x, snd'[w], push[w], m)
    BY <1>1, <1>2, <1>4, <2>2, <2>6 DEF SendsBatch
  <2> QED BY <2>1, <2>2, <2>3, <2>4, <2>5, <2>6, <2>7 DEF SenderSends, m
<1>5. CASE ~(x.next < Batches(x.snap))
  <2>1. PutMsg(w, EndMsg(w)) /\ snd' = [snd EXCEPT ![w].phase = "poll"]
    BY <1>5 DEF SendKeyBatches
  <2>2. /\ snd'[w].phase = "poll" /\ snd'[w].sid = x.sid /\ snd'[w].snap = x.snap
        /\ snd'[w].next = x.next /\ snd'[w].resend = x.resend
    BY <1>1, <2>1 DEF Senders
  <2>3. snd' \in [Workers -> Senders]
    BY <1>1, <2>1 DEF Senders, Phases
  <2>4. Progress(snd'[w], push[w])
    BY <1>1, <1>2, <1>3, <1>5, <2>2 DEF Progress
  <2>5. \A v \in Workers \ {w} : snd'[v] = snd[v]
    BY <1>1, <2>1
  <2> DEFINE m == EndMsg(w)
  <2>6. m \in EndMessages /\ m \in Messages /\ m.sid = x.sid
    BY <1>1, BatchTypes
  <2> HIDE DEF m
  <2>7. SendsEnd(x, snd'[w], push[w], m)
    BY <1>1, <1>2, <1>3, <1>5, <2>2, <2>6 DEF SendsEnd
  <2> QED BY <2>1, <2>2, <2>3, <2>4, <2>5, <2>6, <2>7 DEF SenderSends, m
<1> QED BY <1>4, <1>5

LEMMA ResendSender ==
    ASSUME Types, NEW w \in Workers, SyncInv(w), ResendMissing(w)
    PROVE  SenderSends(w)
<1> DEFINE x == snd[w]
<1>1. /\ snd \in [Workers -> Senders] /\ x \in Senders /\ x.next \in Nat /\ x.snap \in Seq(Keys)
      /\ x.resend \in Seq(Nat)
  BY LocalTypes DEF Types, SenderType, Senders
<1>2. /\ x.phase = "resend" /\ x.next = Batches(x.snap) /\ Progress(x, push[w])
      /\ \A i \in DOMAIN x.resend : x.resend[i] < Batches(x.snap)
  BY DEF ResendMissing, SyncInv, SyncOK, Progress
<1>3. Batches(x.snap) \in Nat
  BY <1>1, BatchSplit
<1>4. CASE x.resend # <<>>
  <2> DEFINE b == Head(x.resend)
             m == BatchMsg(w, b)
             t == Tail(x.resend)
  <2>1. PutMsg(w, m) /\ snd' = [snd EXCEPT ![w].resend = t]
    BY <1>4, <1>1 DEF ResendMissing
  <2>0. /\ b \in Nat /\ b < Batches(x.snap) /\ t \in Seq(Nat)
        /\ \A i \in DOMAIN t : t[i] < Batches(x.snap)
    <3> DEFINE s == x.resend
    <3>1. Len(s) \in Nat \ {0} /\ DOMAIN s = 1..Len(s) /\ b = s[1] /\ t \in Seq(Nat)
          /\ DOMAIN t = 1..Len(s) - 1
      BY <1>1, <1>4
    <3>2. \A i \in 1..Len(s) - 1 : t[i] = s[i + 1]
      BY <1>1, <1>4
    <3>3. b < Batches(x.snap) /\ b \in Nat
      BY <1>1, <1>2, <3>1
    <3>4. \A i \in DOMAIN t : i + 1 \in DOMAIN s /\ t[i] = s[i + 1]
      BY <3>1, <3>2
    <3> HIDE DEF t, b
    <3> QED BY <1>2, <3>1, <3>3, <3>4
  <2>6. /\ m \in BatchMessages /\ m \in Messages /\ m.sid = x.sid /\ m.id = b
        /\ m.keys = BatchKeys(x.snap, b)
    BY <2>0, BatchTypes
  <2> HIDE DEF m, b, t
  <2>2. /\ snd'[w].phase = x.phase /\ snd'[w].sid = x.sid /\ snd'[w].snap = x.snap
        /\ snd'[w].next = x.next /\ snd'[w].resend = t
    BY <1>1, <2>1 DEF Senders
  <2>3. snd' \in [Workers -> Senders]
    BY <1>1, <2>0, <2>1 DEF Senders
  <2>4. Progress(snd'[w], push[w])
    BY <1>1, <1>2, <2>0, <2>2 DEF Progress
  <2>5. \A v \in Workers \ {w} : snd'[v] = snd[v]
    BY <1>1, <2>1
  <2>7. SendsBatch(x, snd'[w], push[w], m)
    BY <1>1, <1>2, <2>0, <2>2, <2>6 DEF SendsBatch
  <2> QED BY <2>1, <2>2, <2>3, <2>4, <2>5, <2>6, <2>7 DEF SenderSends, m
<1>5. CASE x.resend = <<>>
  <2>1. PutMsg(w, EndMsg(w)) /\ snd' = [snd EXCEPT ![w].phase = "poll"]
    BY <1>5 DEF ResendMissing
  <2>2. /\ snd'[w].phase = "poll" /\ snd'[w].sid = x.sid /\ snd'[w].snap = x.snap
        /\ snd'[w].next = x.next /\ snd'[w].resend = x.resend
    BY <1>1, <2>1 DEF Senders
  <2>3. snd' \in [Workers -> Senders]
    BY <1>1, <2>1 DEF Senders, Phases
  <2>4. Progress(snd'[w], push[w])
    BY <1>1, <1>2, <1>5, <2>2 DEF Progress
  <2>5. \A v \in Workers \ {w} : snd'[v] = snd[v]
    BY <1>1, <2>1
  <2> DEFINE m == EndMsg(w)
  <2>6. m \in EndMessages /\ m \in Messages /\ m.sid = x.sid
    BY <1>1, BatchTypes
  <2> HIDE DEF m
  <2>7. SendsEnd(x, snd'[w], push[w], m)
    BY <1>1, <1>2, <1>3, <2>2, <2>6 DEF SendsEnd
  <2> QED BY <2>1, <2>2, <2>3, <2>4, <2>5, <2>6, <2>7 DEF SenderSends, m
<1> QED BY <1>4, <1>5

-----------------------------------------------------------------------------
(* The controller's handlers: what they make of a node.                     *)

\* The controller accepts a sync.
LEMMA StartNode ==
    ASSUME Types, NEW w \in Workers, HandleFullSyncStart(w), StartSyncAccepted(w)
    PROVE  /\ node' \in [Workers -> Nodes] /\ \A v \in Workers \ {w} : node'[v] = node[v]
           /\ node'[w].kv = {} /\ node'[w].reg = node[w].reg
           /\ node'[w].seq = (IF node[w].kv # {} THEN -1 ELSE node[w].seq)
           /\ node'[w].sync \in Syncs
           /\ node'[w].sync.sid = snd[w].sid /\ node'[w].sync.state = "syncing"
           /\ node'[w].sync.count = Batches(snd[w].snap) /\ node'[w].sync.got = {}
<1>1. node \in [Workers -> Nodes] /\ node[w] \in Nodes /\ node[w].seq \in Int
  BY LocalTypes DEF Types, RegistryType
<1> DEFINE g == [sid |-> snd[w].sid, state |-> "syncing",
                 count |-> Batches(snd[w].snap), got |-> {}]
           e == IF node[w].kv # {} THEN -1 ELSE node[w].seq
<1>2. /\ snd[w].sid \in Nat /\ Batches(snd[w].snap) \in Nat
  BY LocalTypes, BatchSplit DEF Senders
<1>3. g \in Syncs /\ g.sid = snd[w].sid /\ g.state = "syncing"
      /\ g.count = Batches(snd[w].snap) /\ g.got = {}
  BY <1>2 DEF Syncs
<1>4. e \in Int
  BY <1>1
<1>5. node' = [node EXCEPT ![w].sync = g, ![w].kv = {}, ![w].seq = e]
  BY DEF HandleFullSyncStart
<1> HIDE DEF g, e
<1>6. /\ node'[w].kv = {} /\ node'[w].reg = node[w].reg /\ node'[w].seq = e
      /\ node'[w].sync = g
  BY <1>1, <1>5 DEF Nodes
<1>7. node' \in [Workers -> Nodes]
  BY <1>1, <1>3, <1>4, <1>5 DEF Nodes
<1>8. \A v \in Workers \ {w} : node'[v] = node[v]
  BY <1>1, <1>5
<1> QED BY <1>3, <1>6, <1>7, <1>8 DEF e

\* The registry takes operations ...
LEMMA OpsNode ==
    ASSUME Types, NEW w \in Workers, NEW m \in OpsMessages, Run(m),
           ~Syncing(w), Registered(w), HandleOps(w, m)
    PROVE  /\ node' \in [Workers -> Nodes] /\ \A v \in Workers \ {w} : node'[v] = node[v]
           /\ node'[w].kv = ApplyOps(node[w].kv, m.ops) /\ node'[w].reg = node[w].reg
           /\ node'[w].seq = After(m) - 1 /\ node'[w].sync = node[w].sync
           /\ gap' = [gap EXCEPT ![w] = @ \/ SeqBroken(node[w].seq, m.ops)]
           /\ dirty' = [dirty EXCEPT ![w] = Without(m.ops, @)]
           /\ unsent' = [unsent EXCEPT ![w] = Without(m.ops, @)]
           /\ UNCHANGED <<copy, dropped>>
<1>1. node \in [Workers -> Nodes] /\ node[w] \in Nodes
  BY LocalTypes DEF Types, RegistryType
<1> DEFINE e == ApplyOps(node[w].kv, m.ops)
           f == m.ops[Len(m.ops)].seq
<1>2. m.ops \in Seq(Operations) /\ m.type = "ops" /\ Len(m.ops) > 0
      /\ \A j \in DOMAIN m.ops : m.ops[j].seq = First(m) + j - 1
  BY DEF OpsMessages, Run
<1>3. f = First(m) + Len(m.ops) - 1 /\ m.ops[1] \in Operations /\ First(m) = m.ops[1].seq
  BY <1>2 DEF First
<1>4. f = After(m) - 1 /\ f \in Int
  BY <1>2, <1>3 DEF After, Operations
<1>5. e \in SUBSET Keys
  BY DEF ApplyOps
<1>6. /\ node' = [node EXCEPT ![w].kv = e, ![w].seq = f]
      /\ gap' = [gap EXCEPT ![w] = @ \/ SeqBroken(node[w].seq, m.ops)]
      /\ dirty' = [dirty EXCEPT ![w] = Without(m.ops, @)]
      /\ unsent' = [unsent EXCEPT ![w] = Without(m.ops, @)]
      /\ UNCHANGED <<copy, dropped>>
  BY DEF HandleOps
<1> HIDE DEF e, f
<1>7. /\ node'[w].kv = e /\ node'[w].reg = node[w].reg /\ node'[w].seq = f
      /\ node'[w].sync = node[w].sync
  BY <1>1, <1>6 DEF Nodes
<1>8. node' \in [Workers -> Nodes]
  BY <1>1, <1>4, <1>5, <1>6 DEF Nodes
<1>9. \A v \in Workers \ {w} : node'[v] = node[v]
  BY <1>1, <1>6
<1> QED BY <1>4, <1>6, <1>7, <1>8, <1>9 DEF e

\* ... a batch of the open sync ...
LEMMA BatchNode ==
    ASSUME Types, NEW w \in Workers, NEW m \in BatchMessages,
           Registered(w), node[w].sync.sid = m.sid, Syncing(w), HandleFullSyncBatch(w, m)
    PROVE  /\ node' \in [Workers -> Nodes] /\ \A v \in Workers \ {w} : node'[v] = node[v]
           /\ node'[w].kv = node[w].kv \cup m.keys /\ node'[w].reg = node[w].reg
           /\ node'[w].seq = node[w].seq /\ node'[w].sync \in Syncs
           /\ node'[w].sync.sid = node[w].sync.sid /\ node'[w].sync.state = "syncing"
           /\ node'[w].sync.count = node[w].sync.count
           /\ node'[w].sync.got = node[w].sync.got \cup {m.id}
<1>1. node \in [Workers -> Nodes] /\ node[w] \in Nodes /\ node[w].sync \in Syncs
      /\ node[w].kv \in SUBSET Keys /\ m.keys \in SUBSET Keys /\ m.id \in Nat
  BY LocalTypes DEF Types, RegistryType, BatchMessages
<1> DEFINE e == node[w].kv \cup m.keys
           f == node[w].sync.got \cup {m.id}
<1>2. e \in SUBSET Keys /\ f \in SUBSET Nat
  BY <1>1 DEF Syncs
<1>3. node' = [node EXCEPT ![w].kv = e, ![w].sync.got = f]
  BY DEF HandleFullSyncBatch
<1> HIDE DEF e, f
<1>4. /\ node'[w].kv = e /\ node'[w].reg = node[w].reg /\ node'[w].seq = node[w].seq
      /\ node'[w].sync.sid = node[w].sync.sid /\ node'[w].sync.state = node[w].sync.state
      /\ node'[w].sync.count = node[w].sync.count /\ node'[w].sync.got = f
  BY <1>1, <1>3 DEF Nodes, Syncs
<1>5. node' \in [Workers -> Nodes]
  BY <1>1, <1>2, <1>3 DEF Nodes, Syncs
<1>6. \A v \in Workers \ {w} : node'[v] = node[v]
  BY <1>1, <1>3
<1>7. node'[w].sync \in Syncs
  BY <1>5 DEF Nodes
<1> QED BY <1>4, <1>5, <1>6, <1>7 DEF e, f, Syncing

\* ... and the end of a sync.
LEMMA EndNode ==
    ASSUME Types, NEW w \in Workers, NEW m \in EndMessages,
           Registered(w), node[w].sync.sid = m.sid, HandleFullSyncEnd(w, m)
    PROVE  /\ node' \in [Workers -> Nodes] /\ \A v \in Workers \ {w} : node'[v] = node[v]
           /\ node'[w].kv = node[w].kv /\ node'[w].reg = node[w].reg
           /\ node'[w].seq = node[w].seq /\ node'[w].sync \in Syncs
           /\ node'[w].sync.sid = node[w].sync.sid /\ node'[w].sync.state = "completed"
           /\ node'[w].sync.count = node[w].sync.count
           /\ node'[w].sync.got = node[w].sync.got
<1>1. node \in [Workers -> Nodes] /\ node[w] \in Nodes /\ node[w].sync \in Syncs
  BY LocalTypes DEF Types, RegistryType
<1>3. node' = [node EXCEPT ![w].sync.state = "completed"]
  BY DEF HandleFullSyncEnd
<1>4. /\ node'[w].kv = node[w].kv /\ node'[w].reg = node[w].reg /\ node'[w].seq = node[w].seq
      /\ node'[w].sync.sid = node[w].sync.sid /\ node'[w].sync.state = "completed"
      /\ node'[w].sync.count = node[w].sync.count /\ node'[w].sync.got = node[w].sync.got
  BY <1>1, <1>3 DEF Nodes, Syncs
<1>5. node' \in [Workers -> Nodes]
  BY <1>1, <1>3 DEF Nodes, Syncs
<1>6. \A v \in Workers \ {w} : node'[v] = node[v]
  BY <1>1, <1>3
<1>7. node'[w].sync \in Syncs
  BY <1>5 DEF Nodes
<1> QED BY <1>4, <1>5, <1>6, <1>7

\* A node that leaves.
LEMMA LeaveNode ==
    ASSUME Types, NEW w \in Workers, DeregisterNode(w)
    PROVE  /\ node' \in [Workers -> Nodes] /\ \A v \in Workers \ {w} : node'[v] = node[v]
           /\ node'[w] = NoNode
BY LocalTypes, ConstantTypes DEF Types, RegistryType, DeregisterNode

-----------------------------------------------------------------------------
(* The types after the steps of a sender and of the controller.             *)

LEMMA FreezeTypes ==
    ASSUME Types, NEW w \in Workers, IsFiniteSet(hot[w]), Freeze(w)
    PROVE  Types'
<1>1. snd' \in [Workers -> Senders]
  BY FreezeSender
<1>2. nsync' \in [Workers -> Nat] /\ frozen' \in [Workers -> BOOLEAN]
  BY DEF Types, SenderType, WorkerType, Freeze
<1>3. UNCHANGED <<up, hot, storing, opq, seqno, push, node, gap, history>>
  BY DEF Freeze, registry
<1> QED BY <1>1, <1>2, <1>3
        DEF Types, WorkerType, SenderType, RegistryType, HistoryType, history

LEMMA StartTypes ==
    ASSUME Types, NEW w \in Workers, SyncInv(w), SendSyncStart(w)
    PROVE  Types'
<1>1. snd' \in [Workers -> Senders] /\ frozen' \in [Workers -> BOOLEAN]
  BY StartSender DEF SenderGoes
<1>2. UNCHANGED <<up, hot, storing, opq, seqno, push, nsync, gap, dropped>>
  BY DEF SendSyncStart
<1>3. HandleFullSyncStart(w) \/ UNCHANGED <<node, dirty, unsent, copy>>
  BY DEF SendSyncStart
<1>4. HandleFullSyncStart(w) /\ ~StartSyncAccepted(w) => UNCHANGED <<node, dirty, unsent, copy>>
  BY DEF HandleFullSyncStart
<1>5. CASE HandleFullSyncStart(w) /\ StartSyncAccepted(w)
  <2>1. node' \in [Workers -> Nodes]
    BY <1>5, StartNode
  <2> DEFINE d == {k \in Keys : (k \in hot[w]) # (k \in ToSet(snd[w].snap))}
             c == ToSet(snd[w].snap)
  <2>2. /\ dirty' = [dirty EXCEPT ![w] = d] /\ unsent' = [unsent EXCEPT ![w] = {}]
        /\ copy' = [copy EXCEPT ![w] = c]
    BY <1>5 DEF HandleFullSyncStart
  <2>3. d \in SUBSET Keys /\ c \in SUBSET Keys
    <3>1. snd[w].snap \in Seq(Keys)
      BY LocalTypes DEF Senders
    <3> QED BY <3>1 DEF ToSet
  <2> HIDE DEF d, c
  <2>4. HistoryType'
    BY <1>2, <2>2, <2>3 DEF Types, HistoryType
  <2> QED BY <1>1, <1>2, <2>1, <2>4 DEF Types, WorkerType, SenderType, RegistryType
<1>6. CASE UNCHANGED <<node, dirty, unsent, copy>>
  BY <1>1, <1>2, <1>6 DEF Types, WorkerType, SenderType, RegistryType, HistoryType
<1> QED BY <1>3, <1>4, <1>5, <1>6

LEMMA PollTypes ==
    ASSUME Types, NEW w \in Workers, SyncInv(w), PollForCompletion(w)
    PROVE  Types'
<1>1. snd' \in [Workers -> Senders] /\ frozen' \in [Workers -> BOOLEAN]
  BY PollSender DEF SenderGoes
<1>2. UNCHANGED <<up, hot, storing, opq, seqno, push, nsync, node, gap, history>>
  BY DEF PollForCompletion
<1> QED BY <1>1, <1>2
        DEF Types, WorkerType, SenderType, RegistryType, HistoryType, history

LEMMA SendTypesKept ==
    ASSUME Types, NEW w \in Workers, SyncInv(w), SendKeyBatches(w) \/ ResendMissing(w)
    PROVE  Types' /\ SenderSends(w)
<1>1. SenderSends(w)
  BY BatchesSender, ResendSender
<1>2. snd' \in [Workers -> Senders]
  BY <1>1 DEF SenderSends
<1>3. push' \in [Workers -> Seq(Messages)]
  <2>1. PICK m \in Messages : PutMsg(w, m)
    BY <1>1 DEF SenderSends
  <2>2. push \in [Workers -> Seq(Messages)] /\ Append(push[w], m) \in Seq(Messages)
    BY LocalTypes DEF Types, SenderType
  <2> QED BY <2>1, <2>2 DEF PutMsg
<1>4. UNCHANGED <<up, hot, storing, frozen, opq, seqno, nsync, node, gap, history>>
  BY DEF SendKeyBatches, ResendMissing, worker, registry
<1> QED BY <1>1, <1>2, <1>3, <1>4
        DEF Types, WorkerType, SenderType, RegistryType, HistoryType, history

\* The head of a pipe, and the rest.
LEMMA HeadTypes ==
    ASSUME Types, NEW w \in Workers, push[w] # <<>>, push' = [push EXCEPT ![w] = Tail(@)]
    PROVE  /\ Head(push[w]) \in Messages /\ Tail(push[w]) \in Seq(Messages)
           /\ push'[w] = Tail(push[w]) /\ push' \in [Workers -> Seq(Messages)]
           /\ \A v \in Workers \ {w} : push'[v] = push[v]
<1>1. push \in [Workers -> Seq(Messages)] /\ push[w] \in Seq(Messages)
  BY LocalTypes DEF Types, SenderType
<1>2. Head(push[w]) \in Messages /\ Tail(push[w]) \in Seq(Messages)
  BY <1>1
<1> QED BY <1>1, <1>2

LEMMA HandleTypes ==
    ASSUME Types, NEW w \in Workers, SeqInv(w), HandleWorkerMessage(w)
    PROVE  Types'
<1> DEFINE m == Head(push[w])
<1>1. /\ push[w] # <<>> /\ push' = [push EXCEPT ![w] = Tail(@)]
      /\ UNCHANGED <<up, hot, storing, frozen, opq, seqno, snd, nsync>>
      /\ \/ m.type = "ops" /\ HandleOps(w, m)
         \/ m.type = "batch" /\ HandleFullSyncBatch(w, m)
         \/ m.type = "end" /\ HandleFullSyncEnd(w, m)
         \/ m.type = "dereg" /\ DeregisterNode(w) /\ UNCHANGED <<gap, history>>
  BY DEF HandleWorkerMessage, worker
<1>2. m \in Messages /\ push' \in [Workers -> Seq(Messages)] /\ push[w] \in Seq(Messages)
  BY <1>1, HeadTypes, LocalTypes
<1>3. Run(m)
  <2>1. 1 \in DOMAIN push[w] /\ m = push[w][1]
    BY <1>1, <1>2
  <2> QED BY <2>1 DEF SeqInv, Runs
<1> HIDE DEF m
<1>4. WorkerType' /\ SenderType'
  BY <1>1, <1>2 DEF Types, WorkerType, SenderType
<1>5. CASE m.type = "ops" /\ HandleOps(w, m)
  <2>1. m \in OpsMessages
    BY <1>2, <1>5, MessageTypes
  <2>2. CASE Syncing(w) \/ ~Registered(w)
    <3>1. /\ dirty' = [dirty EXCEPT ![w] = DirtyAfter(w, m.ops, @)]
          /\ dropped' = [dropped EXCEPT ![w] = TRUE]
          /\ UNCHANGED <<node, gap, unsent, copy>>
      BY <1>5, <2>2 DEF HandleOps
    <3>2. DirtyAfter(w, m.ops, dirty[w]) \in SUBSET Keys
      BY DEF DirtyAfter
    <3>3. dirty' \in [Workers -> SUBSET Keys] /\ dropped' \in [Workers -> BOOLEAN]
      BY <3>1, <3>2 DEF Types, HistoryType
    <3> QED BY <1>4, <3>1, <3>3 DEF Types, RegistryType, HistoryType
  <2>3. CASE ~Syncing(w) /\ Registered(w)
    <3>1. /\ node' \in [Workers -> Nodes]
          /\ gap' = [gap EXCEPT ![w] = @ \/ SeqBroken(node[w].seq, m.ops)]
          /\ dirty' = [dirty EXCEPT ![w] = Without(m.ops, @)]
          /\ unsent' = [unsent EXCEPT ![w] = Without(m.ops, @)]
          /\ UNCHANGED <<copy, dropped>>
      BY <1>3, <1>5, <2>1, <2>3, OpsNode
    <3> DEFINE d == Without(m.ops, dirty[w])
               u == Without(m.ops, unsent[w])
               g == gap[w] \/ SeqBroken(node[w].seq, m.ops)
    <3>2. d \in SUBSET Keys /\ u \in SUBSET Keys /\ g \in BOOLEAN
      BY LocalTypes DEF Without
    <3> HIDE DEF d, u, g
    <3>3. /\ gap' = [gap EXCEPT ![w] = g] /\ dirty' = [dirty EXCEPT ![w] = d]
          /\ unsent' = [unsent EXCEPT ![w] = u]
      BY <3>1 DEF d, u, g
    <3>4. gap' \in [Workers -> BOOLEAN]
      BY <3>2, <3>3 DEF Types, RegistryType
    <3>5. dirty' \in [Workers -> SUBSET Keys] /\ unsent' \in [Workers -> SUBSET Keys]
      BY <3>2, <3>3 DEF Types, HistoryType
    <3> QED BY <1>4, <3>1, <3>4, <3>5 DEF Types, RegistryType, HistoryType
  <2> QED BY <2>2, <2>3
<1>6. CASE m.type = "batch" /\ HandleFullSyncBatch(w, m)
  <2>1. m \in BatchMessages /\ m.keys \in SUBSET Keys
    BY <1>2, <1>6, MessageTypes
  <2>2. unsent' = [unsent EXCEPT ![w] = @ \ m.keys] \/ unsent' = [unsent EXCEPT ![w] = @ \cup m.keys]
    BY <1>6 DEF HandleFullSyncBatch
  <2>3. unsent' \in [Workers -> SUBSET Keys]
    BY <2>1, <2>2 DEF Types, HistoryType
  <2>4. node' \in [Workers -> Nodes]
    <3>1. CASE Registered(w) /\ node[w].sync.sid = m.sid /\ Syncing(w)
      BY <1>6, <2>1, <3>1, BatchNode
    <3>2. CASE ~(Registered(w) /\ node[w].sync.sid = m.sid /\ Syncing(w))
      BY <1>6, <3>2 DEF HandleFullSyncBatch, Types, RegistryType
    <3> QED BY <3>1, <3>2
  <2>5. UNCHANGED <<gap, dirty, copy, dropped>>
    BY <1>6 DEF HandleFullSyncBatch
  <2> QED BY <1>4, <2>3, <2>4, <2>5 DEF Types, RegistryType, HistoryType
<1>7. CASE m.type = "end" /\ HandleFullSyncEnd(w, m)
  <2>1. m \in EndMessages
    BY <1>2, <1>7, MessageTypes
  <2>2. node' \in [Workers -> Nodes]
    <3>1. CASE Registered(w) /\ node[w].sync.sid = m.sid
      BY <1>7, <2>1, <3>1, EndNode
    <3>2. CASE ~(Registered(w) /\ node[w].sync.sid = m.sid)
      BY <1>7, <3>2 DEF HandleFullSyncEnd, Types, RegistryType
    <3> QED BY <3>1, <3>2
  <2>3. UNCHANGED <<gap, history>>
    BY <1>7 DEF HandleFullSyncEnd
  <2> QED BY <1>4, <2>2, <2>3 DEF Types, RegistryType, HistoryType, history
<1>8. CASE m.type = "dereg" /\ DeregisterNode(w) /\ UNCHANGED <<gap, history>>
  <2>1. node' \in [Workers -> Nodes]
    BY <1>8, LeaveNode
  <2> QED BY <1>4, <1>8, <2>1 DEF Types, RegistryType, HistoryType, history
<1> QED BY <1>1, <1>5, <1>6, <1>7, <1>8

LEMMA LoseTypes ==
    ASSUME Types, NEW w \in Workers, LosePushed(w)
    PROVE  Types'
<1> DEFINE m == Head(push[w])
           d == IF m.type = "ops" THEN DirtyAfter(w, m.ops, dirty[w]) ELSE dirty[w]
           u == IF m.type = "batch" THEN unsent[w] \cup m.keys ELSE unsent[w]
           l == dropped[w] \/ m.type = "ops"
<1>1. /\ push[w] # <<>> /\ push' = [push EXCEPT ![w] = Tail(@)]
      /\ UNCHANGED <<up, hot, storing, frozen, opq, seqno, snd, nsync, node, gap, copy>>
  BY DEF LosePushed, worker, registry
<1>2. /\ dirty' = [dirty EXCEPT ![w] = d] /\ unsent' = [unsent EXCEPT ![w] = u]
      /\ dropped' = [dropped EXCEPT ![w] = l]
  BY DEF LosePushed
<1>3. m \in Messages /\ push' \in [Workers -> Seq(Messages)]
  BY <1>1, HeadTypes
<1>4. d \in SUBSET Keys /\ u \in SUBSET Keys /\ l \in BOOLEAN
  <2>1. m.type = "batch" => m.keys \in SUBSET Keys
    BY <1>3, MessageTypes
  <2> HIDE DEF m
  <2> QED BY <2>1, LocalTypes DEF DirtyAfter
<1> HIDE DEF m, d, u, l
<1>5. /\ dirty' \in [Workers -> SUBSET Keys] /\ unsent' \in [Workers -> SUBSET Keys]
      /\ dropped' \in [Workers -> BOOLEAN]
  BY <1>2, <1>4 DEF Types, HistoryType
<1> QED BY <1>1, <1>3, <1>5 DEF Types, WorkerType, SenderType, RegistryType, HistoryType

-----------------------------------------------------------------------------
(* The other workers, and the parts of the invariant a step leaves alone.   *)

Same(v) ==
    /\ mode' = mode /\ up'[v] = up[v] /\ hot'[v] = hot[v] /\ storing'[v] = storing[v]
    /\ opq'[v] = opq[v] /\ seqno'[v] = seqno[v] /\ push'[v] = push[v]
    /\ snd'[v] = snd[v] /\ nsync'[v] = nsync[v]
    /\ node'[v] = node[v] /\ gap'[v] = gap[v]
    /\ dirty'[v] = dirty[v] /\ unsent'[v] = unsent[v]
    /\ copy'[v] = copy[v] /\ dropped'[v] = dropped[v]

LEMMA Frame ==
    ASSUME NEW v \in Workers, WorkerInv(v), Same(v)
    PROVE  WorkerInv(v)'
<1> USE DEF Same, WorkerInv
<1>1. Finite(v)'
  BY DEF Finite
<1>2. Blank(v)'
  BY DEF Blank
<1>3. OpsInv(v)'
  BY DEF OpsInv
<1>4. SyncInv(v)'
  BY DEF SyncInv
<1>5. CountInv(v)'
  BY DEF CountInv
<1>6. AgreeInv(v)'
  BY DEF AgreeInv
<1>7. KeysInv(v)'
  BY DEF KeysInv, Registered, Syncing
<1>8. SeqInv(v)'
  BY DEF SeqInv, Registered
<1> QED BY <1>1, <1>2, <1>3, <1>4, <1>5, <1>6, <1>7, <1>8

WorkerStep(w) ==
    \/ \E k \in Keys : StoreBegin(w, k) \/ StorePut(w, k) \/ Evict(w, k)
    \/ DrainAndSend(w) \/ Register(w) \/ Heartbeat(w) \/ HeartbeatLost(w)
    \/ HealthCheck(w) \/ Close(w) \/ SenderStep(w)
    \/ HandleWorkerMessage(w) \/ LosePushed(w) \/ RestartWorker(w) \/ HandleClear(w)

LEMMA Others ==
    ASSUME Types, NEW w \in Workers, WorkerStep(w), NEW v \in Workers \ {w}
    PROVE  Same(v)
<1>1. /\ hot \in [Workers -> SUBSET Keys] /\ storing \in [Workers -> SUBSET Keys]
      /\ frozen \in [Workers -> BOOLEAN] /\ up \in [Workers -> {"new", "up", "closed"}]
  BY DEF Types, WorkerType
<1>2. /\ opq \in [Workers -> Seq(Operations)] /\ seqno \in [Workers -> Nat]
      /\ push \in [Workers -> Seq(Messages)]
      /\ snd \in [Workers -> Senders] /\ nsync \in [Workers -> Nat]
  BY DEF Types, SenderType
<1>3. node \in [Workers -> Nodes] /\ gap \in [Workers -> BOOLEAN]
  BY DEF Types, RegistryType
<1>4. /\ dirty \in [Workers -> SUBSET Keys] /\ unsent \in [Workers -> SUBSET Keys]
      /\ copy \in [Workers -> SUBSET Keys] /\ dropped \in [Workers -> BOOLEAN]
  BY DEF Types, HistoryType
<1> USE DEF worker, sender, registry, history
<1>5. ASSUME NEW k \in Keys, StoreBegin(w, k) \/ StorePut(w, k) \/ Evict(w, k) PROVE Same(v)
  BY <1>1, <1>2, <1>5 DEF StoreBegin, StorePut, Evict, AddKvOp, Same
<1>6. CASE DrainAndSend(w)
  BY <1>2, <1>6 DEF DrainAndSend, PutMsg, Same
<1>7. CASE Register(w)
  BY <1>1, <1>3, <1>4, <1>7 DEF Register, RegisterNode, Same
<1>8. CASE Heartbeat(w)
  <2>1. snd'[v] = snd[v]
    BY <1>2, <1>8 DEF Heartbeat, ExecuteFullSync
  <2>2. node'[v] = node[v] /\ dirty'[v] = dirty[v] /\ dropped'[v] = dropped[v]
    BY <1>3, <1>4, <1>8 DEF Heartbeat, RegisterNode
  <2> QED BY <1>8, <2>1, <2>2 DEF Heartbeat, Same
<1>9. CASE HeartbeatLost(w)
  BY <1>3, <1>4, <1>9 DEF HeartbeatLost, RegisterNode, Same
<1>10. CASE HealthCheck(w)
  BY <1>3, <1>10 DEF HealthCheck, DeregisterNode, Same
<1>11. CASE Close(w)
  BY <1>1, <1>2, <1>11 DEF Close, Same
<1>12. CASE Freeze(w)
  BY <1>1, <1>2, <1>12 DEF Freeze, Same
<1>13. CASE SendSyncStart(w)
  <2>1. snd'[v] = snd[v]
    BY <1>2, <1>13 DEF SendSyncStart, EndSync
  <2>2. HandleFullSyncStart(w) \/ UNCHANGED <<node, dirty, unsent, copy>>
    BY <1>13 DEF SendSyncStart
  <2>3. node'[v] = node[v] /\ dirty'[v] = dirty[v] /\ unsent'[v] = unsent[v] /\ copy'[v] = copy[v]
    BY <1>3, <1>4, <2>2 DEF HandleFullSyncStart
  <2> QED BY <1>13, <2>1, <2>3 DEF SendSyncStart, Same
<1>14. CASE SendKeyBatches(w)
  BY <1>2, <1>14 DEF SendKeyBatches, PutMsg, Same
<1>15. CASE ResendMissing(w)
  BY <1>2, <1>15 DEF ResendMissing, PutMsg, Same
<1>16. CASE PollForCompletion(w)
  <2>1. snd'[v] = snd[v]
    BY <1>2, <1>16 DEF PollForCompletion, EndSync
  <2> QED BY <1>16, <2>1 DEF PollForCompletion, Same
<1>17. CASE HandleWorkerMessage(w)
  <2>1. push'[v] = push[v]
    BY <1>2, <1>17 DEF HandleWorkerMessage
  <2> DEFINE m == Head(push[w])
  <2>2. HandleOps(w, m) \/ HandleFullSyncBatch(w, m) \/ HandleFullSyncEnd(w, m)
        \/ (DeregisterNode(w) /\ UNCHANGED <<gap, history>>)
    BY <1>17 DEF HandleWorkerMessage
  <2> HIDE DEF m
  <2>3. /\ node'[v] = node[v] /\ gap'[v] = gap[v] /\ dirty'[v] = dirty[v]
        /\ unsent'[v] = unsent[v] /\ copy'[v] = copy[v] /\ dropped'[v] = dropped[v]
    BY <1>3, <1>4, <2>2
       DEF HandleOps, HandleFullSyncBatch, HandleFullSyncEnd, DeregisterNode
  <2> QED BY <1>17, <2>1, <2>3 DEF HandleWorkerMessage, Same
<1>18. CASE LosePushed(w)
  BY <1>2, <1>4, <1>18 DEF LosePushed, Same
<1>19. CASE RestartWorker(w)
  BY <1>1, <1>2, <1>3, <1>4, <1>19 DEF RestartWorker, Same
<1>20. CASE HandleClear(w)
  BY <1>1, <1>2, <1>20 DEF HandleClear, Same
<1> QED BY <1>5, <1>6, <1>7, <1>8, <1>9, <1>10, <1>11, <1>12, <1>13, <1>14, <1>15, <1>16,
           <1>17, <1>18, <1>19, <1>20 DEF WorkerStep, SenderStep

\* What is pending, and whether a sync may complete, when a message without
\* operations or an end enters the pipe, or the head leaves it.
LEMMA LastSaysOther ==
    ASSUME NEW p \in Seq(Messages), NEW m \in Messages, m.type # "ops", NEW k
    PROVE  /\ OnPush(Append(p, m), k) <=> OnPush(p, k)
           /\ \A v : LastSays(p, k, v) => LastSays(Append(p, m), k, v)
<1> DEFINE r == Append(p, m)
           n == Len(p)
<1>1. /\ n \in Nat /\ DOMAIN p = 1..n /\ DOMAIN r = 1..n + 1
      /\ r[n + 1] = m /\ \A i \in 1..n : r[i] = p[i]
  OBVIOUS
<1> HIDE DEF r, n
<1>2. \A i \in DOMAIN r : HasOps(r[i], k) => i \in DOMAIN p /\ HasOps(p[i], k)
  BY <1>1 DEF HasOps
<1>3. \A i \in DOMAIN p : i \in DOMAIN r /\ (HasOps(p[i], k) => HasOps(r[i], k))
  BY <1>1
<1>4. \A i \in DOMAIN p : r[i] = p[i]
  BY <1>1
<1>5. OnPush(r, k) <=> OnPush(p, k)
  BY <1>2, <1>3 DEF OnPush
<1>6. ASSUME NEW v, LastSays(p, k, v) PROVE LastSays(r, k, v)
  <2>1. PICK i \in DOMAIN p : /\ HasOps(p[i], k) /\ Says(p[i].ops, k, v)
                              /\ \A j \in DOMAIN p : HasOps(p[j], k) => j <= i
    BY <1>6 DEF LastSays
  <2>2. i \in DOMAIN r /\ HasOps(r[i], k) /\ Says(r[i].ops, k, v)
    BY <1>3, <1>4, <2>1
  <2>3. \A j \in DOMAIN r : HasOps(r[j], k) => j <= i
    BY <1>2, <2>1
  <2> QED BY <2>2, <2>3 DEF LastSays
<1> QED BY <1>5, <1>6 DEF r

LEMMA ReplaysOther ==
    ASSUME NEW q, NEW p \in Seq(Messages), NEW h,
           NEW m \in Messages, m.type # "ops"
    PROVE  /\ Replays(q, p, h) => Replays(q, Append(p, m), h)
           /\ \A k : Pending(q, Append(p, m), k) <=> Pending(q, p, k)
BY LastSaysOther DEF Replays, Pending

LEMMA LiveMoves ==
    ASSUME NEW y, NEW x, NEW p \in Seq(Messages)
    PROVE  /\ \A m \in Messages : m.type # "end" => (Live(y, x, Append(p, m)) => Live(y, x, p))
           /\ p # <<>> => (Live(y, x, Tail(p)) => Live(y, x, p))
           /\ \A m \in Messages : m.sid = x.sid => (Live(y, x, Append(p, m)) => Live(y, x, p))
<1> DEFINE n == Len(p)
<1>1. n \in Nat /\ DOMAIN p = 1..n
  OBVIOUS
<1>2. ASSUME NEW m \in Messages, Live(y, x, Append(p, m)), m.type # "end" \/ m.sid = x.sid
      PROVE  Live(y, x, p)
  <2> DEFINE r == Append(p, m)
  <2>1. DOMAIN r = 1..n + 1 /\ r[n + 1] = m /\ \A i \in 1..n : r[i] = p[i]
    OBVIOUS
  <2> HIDE DEF r
  <2>2. y.state = "syncing" /\ (x.sid = y.sid \/ \E i \in DOMAIN r : EndAt(r, y.sid, i))
    BY <1>2 DEF Live, r
  <2>3. CASE x.sid = y.sid
    BY <2>2, <2>3 DEF Live
  <2>4. CASE x.sid # y.sid
    <3>1. PICK i \in DOMAIN r : r[i].type = "end" /\ r[i].sid = y.sid
      BY <2>2, <2>4 DEF EndAt
    <3>2. i # n + 1
      BY <1>2, <2>1, <2>4, <3>1
    <3>3. i \in 1..n
      BY <1>1, <2>1, <3>1, <3>2
    <3>4. EndAt(p, y.sid, i)
      BY <2>1, <3>1, <3>3 DEF EndAt
    <3> QED BY <1>1, <2>2, <3>3, <3>4 DEF Live
  <2> QED BY <2>3, <2>4
<1>3. ASSUME p # <<>>, Live(y, x, Tail(p)) PROVE Live(y, x, p)
  <2> DEFINE t == Tail(p)
  <2>1. n > 0 /\ DOMAIN t = 1..n - 1 /\ \A i \in 1..n - 1 : t[i] = p[i + 1]
    BY <1>3
  <2> HIDE DEF t
  <2>2. y.state = "syncing" /\ (x.sid = y.sid \/ \E i \in DOMAIN t : EndAt(t, y.sid, i))
    BY <1>3 DEF Live, t
  <2>3. CASE \E i \in DOMAIN t : EndAt(t, y.sid, i)
    <3>1. PICK i \in 1..n - 1 : EndAt(t, y.sid, i)
      BY <2>1, <2>3
    <3>2. i + 1 \in 1..n /\ EndAt(p, y.sid, i + 1)
      BY <1>1, <2>1, <3>1 DEF EndAt
    <3> QED BY <1>1, <2>2, <3>2 DEF Live
  <2> QED BY <2>2, <2>3 DEF Live
<1> QED BY <1>2, <1>3

-----------------------------------------------------------------------------
(* The steps of a worker's cache.                                           *)

\* A store begins.
LEMMA BeginStep ==
    ASSUME Types, NEW w \in Workers, WorkerInv(w), NEW k \in Keys, StoreBegin(w, k)
    PROVE  WorkerInv(w)'
<1> USE DEF StoreBegin, WorkerInv, sender, registry, history
<1>1. up[w] = "up"
  OBVIOUS
<1>2. Finite(w)' /\ Blank(w)'
  BY <1>1 DEF Finite, Blank
<1>3. OpsInv(w)' /\ SyncInv(w)'
  BY DEF OpsInv, SyncInv
<1>4. CountInv(w)' /\ AgreeInv(w)'
  BY DEF CountInv, AgreeInv
<1>5. KeysInv(w)' /\ SeqInv(w)'
  BY DEF KeysInv, SeqInv, Registered, Syncing
<1> QED BY <1>2, <1>3, <1>4, <1>5

\* A key enters or leaves the hot cache, with an operation queued for it.
LEMMA AddStep ==
    ASSUME Types, NEW w \in Workers, WorkerInv(w), NEW k \in Keys, NEW adm \in BOOLEAN,
           NEW g \in SUBSET Keys, IsFiniteSet(g),
           \A j \in Keys \ {k} : j \in g <=> j \in hot[w], (k \in g) <=> adm,
           up[w] # "new", hot'[w] = g, opq'[w] = Append(opq[w], Op(adm, k, -1)),
           UNCHANGED <<mode, up, seqno, push, snd, nsync, node, gap, dirty, unsent, copy,
                       dropped>>
    PROVE  WorkerInv(w)'
<1> USE DEF WorkerInv
<1> DEFINE r == Append(opq[w], Op(adm, k, -1))
<1>1. opq[w] \in Seq(Operations) /\ push[w] \in Seq(Messages) /\ hot[w] \in SUBSET Keys
  BY LocalTypes
<1>2. up[w] = "up" => /\ Replays(r, push[w], g) /\ Pending(r, push[w], k)
                      /\ \A j \in Keys \ {k} : Pending(r, push[w], j) <=> Pending(opq[w], push[w], j)
  <2>1. ASSUME up[w] = "up"
        PROVE  /\ Replays(r, push[w], g) /\ Pending(r, push[w], k)
               /\ \A j \in Keys \ {k} : Pending(r, push[w], j) <=> Pending(opq[w], push[w], j)
    <3>1. Replays(opq[w], push[w], hot[w])
      BY <2>1 DEF OpsInv
    <3> QED BY <1>1, <3>1, ReplaysAdd
  <2> QED BY <2>1
<1>3. opq'[w] = r
  OBVIOUS
<1> HIDE DEF r
<1>4. Finite(w)' /\ Blank(w)'
  BY DEF Finite, Blank
<1>5. OpsInv(w)' /\ SyncInv(w)' /\ CountInv(w)'
  BY <1>2, <1>3 DEF OpsInv, SyncInv, CountInv
<1>6. \A j \in Keys : up[w] = "up" /\ ~Pending(r, push[w], j) =>
          ~Pending(opq[w], push[w], j) /\ (j \in g <=> j \in hot[w])
  BY <1>2
<1>7. AgreeInv(w)'
  BY <1>3, <1>6 DEF AgreeInv, Agrees
<1>8. KeysInv(w)'
  BY <1>3, <1>6 DEF KeysInv, Registered, Syncing
<1>9. SeqInv(w)'
  BY DEF SeqInv, Registered
<1> QED BY <1>4, <1>5, <1>7, <1>8, <1>9

LEMMA PutStep ==
    ASSUME Types, NEW w \in Workers, WorkerInv(w), NEW k \in Keys, StorePut(w, k)
    PROVE  WorkerInv(w)'
<1>1. up[w] # "new" /\ k \in storing[w]
  BY DEF StorePut, WorkerInv, Blank
<1>2. /\ UNCHANGED <<mode, up, seqno, push, snd, nsync, node, gap, dirty, unsent, copy, dropped>>
  BY DEF StorePut, registry, history
<1>3. hot \in [Workers -> SUBSET Keys] /\ opq \in [Workers -> Seq(Operations)]
      /\ hot[w] \in SUBSET Keys
  BY LocalTypes DEF Types, WorkerType, SenderType
<1>4. CASE k \notin hot[w]
  <2>1. hot'[w] = hot[w] \cup {k} /\ opq'[w] = Append(opq[w], Op(TRUE, k, -1))
    BY <1>3, <1>4 DEF StorePut, AddKvOp
  <2>2. IsFiniteSet(hot[w] \cup {k})
    BY FS_AddElement DEF WorkerInv, Finite
  <2> DEFINE g == hot[w] \cup {k}
  <2>3. /\ g \in SUBSET Keys /\ IsFiniteSet(g) /\ hot'[w] = g
        /\ \A j \in Keys \ {k} : j \in g <=> j \in hot[w]
        /\ (k \in g) <=> TRUE
    BY <1>3, <2>1, <2>2
  <2> HIDE DEF g
  <2> QED BY <1>1, <1>2, <2>1, <2>3, AddStep
<1>5. CASE k \in hot[w]
  <2>1. UNCHANGED <<hot, opq>>
    BY <1>5 DEF StorePut
  <2> USE DEF WorkerInv
  <2>2. Finite(w)' /\ Blank(w)'
    BY <1>1, <1>2, <2>1 DEF Finite, Blank
  <2>3. OpsInv(w)' /\ SyncInv(w)'
    BY <1>2, <2>1 DEF OpsInv, SyncInv
  <2>4. CountInv(w)' /\ AgreeInv(w)'
    BY <1>2, <2>1 DEF CountInv, AgreeInv
  <2>5. KeysInv(w)' /\ SeqInv(w)'
    BY <1>2, <2>1 DEF KeysInv, SeqInv, Registered, Syncing
  <2> QED BY <2>2, <2>3, <2>4, <2>5
<1> QED BY <1>4, <1>5

LEMMA EvictStep ==
    ASSUME Types, NEW w \in Workers, WorkerInv(w), NEW k \in Keys, Evict(w, k)
    PROVE  WorkerInv(w)'
<1>1. up[w] # "new"
  BY DEF Evict, WorkerInv, Blank
<1>2. /\ UNCHANGED <<mode, up, seqno, push, snd, nsync, node, gap, dirty, unsent, copy, dropped>>
  BY DEF Evict, registry, history
<1>3. hot \in [Workers -> SUBSET Keys] /\ opq \in [Workers -> Seq(Operations)]
      /\ hot[w] \in SUBSET Keys
  BY LocalTypes DEF Types, WorkerType, SenderType
<1> DEFINE g == hot[w] \ {k}
<1>4. hot'[w] = g /\ opq'[w] = Append(opq[w], Op(FALSE, k, -1))
  BY <1>3 DEF Evict, AddKvOp
<1>5. IsFiniteSet(g)
  BY FS_RemoveElement DEF WorkerInv, Finite
<1>6. /\ g \in SUBSET Keys /\ \A j \in Keys \ {k} : j \in g <=> j \in hot[w]
      /\ (k \in g) <=> FALSE
  BY <1>3
<1> HIDE DEF g
<1> QED BY <1>1, <1>2, <1>4, <1>5, <1>6, AddStep

LEMMA ClearStep ==
    ASSUME Types, NEW w \in Workers, WorkerInv(w), HandleClear(w)
    PROVE  WorkerInv(w)'
<1> USE DEF WorkerInv
<1> DEFINE s == SetToSeq(hot[w])
           r == opq[w] \o [i \in DOMAIN s |-> Op(FALSE, s[i], -1)]
<1>1. /\ opq[w] \in Seq(Operations) /\ push[w] \in Seq(Messages) /\ hot[w] \in SUBSET Keys
      /\ opq \in [Workers -> Seq(Operations)] /\ hot \in [Workers -> SUBSET Keys]
  BY LocalTypes DEF Types, SenderType, WorkerType
<1>2. /\ up[w] = "up" /\ hot' = [hot EXCEPT ![w] = {}] /\ opq' = [opq EXCEPT ![w] = r]
      /\ UNCHANGED <<mode, up, seqno, push, snd, nsync, node, gap, dirty, unsent, copy, dropped>>
  BY DEF HandleClear, registry, history
<1>3. /\ Replays(r, push[w], {})
      /\ \A k \in Keys : Pending(r, push[w], k) <=> k \in hot[w] \/ Pending(opq[w], push[w], k)
  BY <1>1, <1>2, ReplaysClear DEF OpsInv, Finite
<1> HIDE DEF r
<1>4. opq'[w] = r /\ hot'[w] = {}
  BY <1>1, <1>2
<1>5. Finite(w)' /\ Blank(w)'
  BY <1>2, <1>4, FS_EmptySet DEF Finite, Blank
<1>6. OpsInv(w)' /\ SyncInv(w)' /\ CountInv(w)'
  BY <1>2, <1>3, <1>4 DEF OpsInv, SyncInv, CountInv
<1>7. \A k \in Keys : ~Pending(r, push[w], k) =>
          ~Pending(opq[w], push[w], k) /\ (k \in {} <=> k \in hot[w])
  BY <1>3
<1>8. AgreeInv(w)'
  BY <1>2, <1>4, <1>7 DEF AgreeInv, Agrees
<1>9. KeysInv(w)'
  BY <1>2, <1>4, <1>7 DEF KeysInv, Registered, Syncing
<1>10. SeqInv(w)'
  BY <1>2 DEF SeqInv, Registered
<1> QED BY <1>5, <1>6, <1>8, <1>9, <1>10

\* The queue leaves as one message.
LEMMA DrainStep ==
    ASSUME Types, NEW w \in Workers, WorkerInv(w), DrainAndSend(w)
    PROVE  WorkerInv(w)'
<1> USE DEF WorkerInv
<1> DEFINE m == [type |-> "ops",
                 ops |-> [i \in DOMAIN opq[w] |->
                            [opq[w][i] EXCEPT !.seq = seqno[w] + i - 1]]]
           p == push[w]
           r == Append(p, m)
           n == seqno[w] + Len(opq[w])
<1>1. /\ opq[w] \in Seq(Operations) /\ p \in Seq(Messages) /\ hot[w] \in SUBSET Keys
      /\ opq \in [Workers -> Seq(Operations)] /\ seqno \in [Workers -> Nat]
      /\ push \in [Workers -> Seq(Messages)] /\ seqno[w] \in Nat
      /\ node[w].sync \in Syncs /\ snd[w] \in Senders /\ nsync[w] \in Nat
  BY LocalTypes DEF Types, SenderType
<1>2. /\ up[w] = "up" /\ opq[w] # <<>>
      /\ push' = [push EXCEPT ![w] = r] /\ seqno' = [seqno EXCEPT ![w] = n]
      /\ opq' = [opq EXCEPT ![w] = <<>>]
      /\ UNCHANGED <<mode, up, hot, snd, nsync, node, gap, dirty, unsent, copy, dropped>>
  BY DEF DrainAndSend, PutMsg, worker, registry, history
<1>3. /\ m \in OpsMessages /\ m \in Messages /\ m.type = "ops" /\ Len(m.ops) = Len(opq[w])
      /\ \A i \in DOMAIN m.ops : m.ops[i].seq = seqno[w] + i - 1
  BY SendTypes
<1>4. Len(m.ops) > 0 /\ m.type \notin {"batch", "end"}
  BY <1>1, <1>2, <1>3
<1>5. m.ops = [i \in DOMAIN opq[w] |-> [opq[w][i] EXCEPT !.seq = seqno[w] + i - 1]]
  OBVIOUS
<1> HIDE DEF m
<1>6. /\ Replays(<<>>, r, hot[w])
      /\ \A k \in Keys : Pending(<<>>, r, k) <=> Pending(opq[w], p, k)
  <2>1. Replays(opq[w], p, hot[w]) /\ seqno[w] \in Int
    BY <1>1, <1>2 DEF OpsInv
  <2> DEFINE q == opq[w]
             l == seqno[w]
             h == hot[w]
  <2>2. /\ m.ops = [i \in DOMAIN q |-> [q[i] EXCEPT !.seq = l + i - 1]]
        /\ q \in Seq(Operations) /\ p \in Seq(Messages) /\ h \in SUBSET Keys /\ l \in Int
        /\ Replays(q, p, h) /\ m \in OpsMessages
    BY <1>1, <1>3, <1>5, <2>1
  <2> HIDE DEF q, l, h, p
  <2>3. /\ Replays(<<>>, Append(p, m), h)
        /\ \A k \in Keys : Pending(<<>>, Append(p, m), k) <=> Pending(q, p, k)
    BY <2>2, ReplaysSend
  <2> QED BY <2>3 DEF q, h, p
<1>7. /\ SyncOK(node[w].sync, snd[w], r, node[w].kv, copy[w], unsent[w], nsync[w])
      /\ Counts(node[w].sync, snd[w], p) => Counts(node[w].sync, snd[w], r)
  BY <1>1, <1>3, <1>4, SyncOther DEF SyncInv
<1>8. /\ Runs(r) /\ Numbered(r, n) /\ ~NoOps(r, 0, Len(r) + 1)
      /\ \A s \in Int :
            Follows(p, s) /\ (NoOps(p, 0, Len(p) + 1) => seqno[w] = s + 1) => Follows(r, s)
  BY <1>1, <1>2, <1>3, <1>4, SeqSend DEF SeqInv
<1>9. Live(node[w].sync, snd[w], r) => Live(node[w].sync, snd[w], p)
  BY <1>1, <1>3, <1>4, LiveMoves
<1>10. push'[w] = r /\ seqno'[w] = n /\ opq'[w] = <<>>
  BY <1>1, <1>2
<1> HIDE DEF r, n
<1>11. Finite(w)' /\ Blank(w)'
  BY <1>2 DEF Finite, Blank
<1>12. OpsInv(w)' /\ SyncInv(w)' /\ CountInv(w)'
  BY <1>2, <1>6, <1>7, <1>10 DEF OpsInv, SyncInv, CountInv
<1>13. AgreeInv(w)'
  BY <1>2, <1>6, <1>9, <1>10 DEF AgreeInv, Agrees
<1>14. KeysInv(w)'
  BY <1>2, <1>6, <1>10 DEF KeysInv, Registered, Syncing
<1>15. SeqInv(w)'
  <2>1. node[w].seq \in Int
    BY LocalTypes
  <2> QED BY <1>2, <1>8, <1>10, <2>1 DEF SeqInv, Registered
<1> QED BY <1>11, <1>12, <1>13, <1>14, <1>15

-----------------------------------------------------------------------------
(* The steps of registration, of leaving and of restarting.                 *)

LEMMA EmptyPipe ==
    /\ DOMAIN <<>> = {} /\ Len(<<>>) = 0 /\ <<>> \in Seq(Messages)
    /\ \A h, k : ~Pending(<<>>, <<>>, k) /\ Replays(<<>>, <<>>, h)
    /\ Runs(<<>>) /\ \A n : Numbered(<<>>, n) /\ Follows(<<>>, n)
<1>1. DOMAIN <<>> = {} /\ Len(<<>>) = 0 /\ <<>> \in Seq(Messages)
  OBVIOUS
<1>2. \A h, k : ~OnOps(<<>>, k) /\ ~OnPush(<<>>, k)
  BY <1>1 DEF OnOps, OnPush
<1> QED BY <1>1, <1>2 DEF Pending, Replays, Runs, Numbered, Follows

\* Without a sync, or once the sender and the pipe have none, none is live.
LEMMA NotLive ==
    ASSUME NEW y \in Syncs, NEW x \in Senders, NEW p \in Seq(Messages),
           NEW kv, NEW c, NEW u, NEW n, SyncOK(y, x, p, kv, c, u, n)
    PROVE  /\ y.state # "syncing" => ~Live(y, x, p)
           /\ ~Live(y, Idle, <<>>)
           /\ \A z : z.sid \in {0, x.sid} => (Live(y, z, p) => Live(y, x, p))
<1>1. y.state = "syncing" => y.sid > 0
  BY DEF SyncOK, Drawn
<1>2. y.sid \in Nat
  BY DEF Syncs
<1> QED BY <1>1, <1>2, EmptyPipe DEF Live, Idle

LEMMA RegisterStep ==
    ASSUME Types, NEW w \in Workers, WorkerInv(w), Register(w)
    PROVE  WorkerInv(w)'
<1> USE DEF WorkerInv
<1> DEFINE y == node[w].sync
           g == IF node[w].reg THEN y ELSE NoSync
<1>1. /\ up[w] = "new" /\ up'[w] = "up" /\ RegisterNode(w)
      /\ hot[w] = {} /\ snd[w] = Idle /\ opq[w] = <<>> /\ push[w] = <<>>
      /\ dirty'[w] = {} /\ unsent'[w] = {}
      /\ UNCHANGED <<mode, hot, opq, push, snd, seqno, nsync, gap, copy, dropped>>
  BY DEF Register, Blank, sender, Types, WorkerType, HistoryType
<1>2. /\ node'[w].kv = {} /\ node'[w].seq = -1 /\ node'[w].reg /\ node'[w].sync = g
  BY <1>1, RegisterTypes
<1>3. /\ y \in Syncs /\ snd[w] \in Senders /\ push[w] \in Seq(Messages) /\ nsync[w] \in Nat
      /\ NoSync \in Syncs /\ NoSync.sid = 0 /\ NoSync.state = "none"
  BY LocalTypes, ConstantTypes
<1>4. g \in Syncs /\ SyncOK(g, snd[w], push[w], node[w].kv, copy[w], unsent[w], nsync[w])
  <2>1. CASE node[w].reg
    BY <1>3, <2>1 DEF SyncInv
  <2>2. CASE ~node[w].reg
    BY <1>3, <2>2, SyncNone DEF SyncInv
  <2> QED BY <2>1, <2>2
<1>5. g.state = "completed" => node[w].reg
  BY <1>3
<1>6. /\ g.state = "completed" => g = y
      /\ g.state = "none" => g.sid = 0
  BY <1>3, <1>5 DEF Blank
<1> HIDE DEF g
<1>7. SyncOK(g, Idle, <<>>, {}, copy[w], {}, nsync[w]) /\ Counts(g, Idle, <<>>)
  BY <1>3, <1>4, SyncBlank
<1>8. Finite(w)' /\ Blank(w)'
  BY <1>1, <1>2, <1>6 DEF Finite, Blank
<1>9. OpsInv(w)'
  BY <1>1, EmptyPipe DEF OpsInv
<1>10. SyncInv(w)'
  BY <1>1, <1>2, <1>7 DEF SyncInv
<1>11. CountInv(w)'
  BY <1>1, <1>2, <1>6, <1>7 DEF CountInv
<1>12. AgreeInv(w)'
  <2>1. ~Live(g, Idle, <<>>)
    BY <1>3, <1>4, NotLive
  <2> QED BY <1>1, <1>2, <2>1 DEF AgreeInv, Agrees
<1>13. KeysInv(w)'
  BY <1>1, <1>2 DEF KeysInv
<1>14. SeqInv(w)'
  BY <1>1, <1>2, EmptyPipe DEF SeqInv
<1> QED BY <1>8, <1>9, <1>10, <1>11, <1>12, <1>13, <1>14

\* The sender goes on; nothing else that the invariant is about changes.
LEMMA GoesStep ==
    ASSUME Types, NEW w \in Workers, WorkerInv(w), up[w] # "new",
           Goes(snd[w], snd'[w], push[w]),
           UNCHANGED <<mode, up, hot, storing, opq, seqno, push, nsync, node, gap, dirty,
                       unsent, copy, dropped>>
    PROVE  WorkerInv(w)'
<1> USE DEF WorkerInv
<1> DEFINE z == snd'[w]
           y == node[w].sync
<1>1. /\ y \in Syncs /\ snd[w] \in Senders /\ push[w] \in Seq(Messages) /\ nsync[w] \in Nat
  BY LocalTypes
<1>2. z \in Senders /\ Progress(z, push[w]) /\ z.sid \in {0, snd[w].sid}
  BY DEF Goes
<1>3. /\ SyncOK(y, z, push[w], node[w].kv, copy[w], unsent[w], nsync[w])
      /\ Counts(y, snd[w], push[w]) => Counts(y, z, push[w])
  BY <1>1, <1>2, SyncSender DEF SyncInv, Goes
<1>4. Live(y, z, push[w]) => Live(y, snd[w], push[w])
  BY <1>1, <1>2, NotLive DEF SyncInv
<1>5. Finite(w)' /\ Blank(w)' /\ OpsInv(w)'
  BY DEF Finite, Blank, OpsInv
<1>6. SyncInv(w)' /\ CountInv(w)'
  BY <1>3 DEF SyncInv, CountInv
<1>7. AgreeInv(w)'
  BY <1>4 DEF AgreeInv, Agrees
<1>8. KeysInv(w)' /\ SeqInv(w)'
  BY DEF KeysInv, SeqInv, Registered, Syncing
<1> QED BY <1>5, <1>6, <1>7, <1>8

\* A node without keys and without a sync takes the place of the old one, and
\* the history knows that it may lack anything.
LEMMA AnewStep ==
    ASSUME Types, NEW w \in Workers, WorkerInv(w),
           Goes(snd[w], snd'[w], push[w]), up[w] = "new" => snd'[w] = snd[w],
           node'[w] \in {NoNode, FreshNode},
           UNCHANGED <<mode, up, hot, storing, opq, seqno, push, nsync, unsent, copy>>,
           dirty'[w] = Keys \/ node'[w] = NoNode,
           \/ dropped'[w]
           \/ gap'[w] = FALSE
           \/ gap'[w] = gap[w] /\ dropped'[w] = dropped[w]
    PROVE  WorkerInv(w)'
<1> USE DEF WorkerInv
<1> DEFINE z == snd'[w]
           y == node[w].sync
<1>1. /\ y \in Syncs /\ snd[w] \in Senders /\ push[w] \in Seq(Messages) /\ nsync[w] \in Nat
      /\ NoSync \in Syncs /\ NoSync.sid = 0 /\ NoSync.state = "none"
      /\ NoSync.state # "syncing"
  BY LocalTypes, ConstantTypes
<1>2. z \in Senders /\ Progress(z, push[w])
  BY DEF Goes
<1>3. /\ node'[w].sync = NoSync /\ node'[w].kv = {} /\ node'[w].seq \in {-1, -2}
      /\ node'[w].reg => node'[w].seq = -1 /\ dirty'[w] = Keys
  BY ConstantTypes DEF NoNode, FreshNode
<1>4. SyncOK(NoSync, snd[w], push[w], {}, copy[w], unsent[w], nsync[w])
  BY <1>1, SyncNone DEF SyncInv
<1>5. SyncOK(NoSync, z, push[w], {}, copy[w], unsent[w], nsync[w])
  BY <1>1, <1>2, <1>4, SyncSender DEF Goes
<1>6. Counts(NoSync, z, push[w]) /\ ~Live(NoSync, z, push[w])
  BY <1>1 DEF Counts, Live
<1>7. Finite(w)' /\ Blank(w)' /\ OpsInv(w)'
  BY <1>1, <1>3 DEF Finite, Blank, OpsInv
<1>8. SyncInv(w)' /\ CountInv(w)'
  BY <1>1, <1>3, <1>5, <1>6 DEF SyncInv, CountInv
<1>9. AgreeInv(w)'
  BY <1>3, <1>6 DEF AgreeInv, Agrees
<1>10. KeysInv(w)'
  BY <1>3 DEF KeysInv, Registered
<1>11. SeqInv(w)'
  BY <1>3 DEF SeqInv, Registered
<1> QED BY <1>7, <1>8, <1>9, <1>10, <1>11

\* A command in the answer to a heartbeat.
LEMMA CommandGoes ==
    ASSUME Types, NEW w \in Workers, WorkerInv(w), ExecuteFullSync(w) \/ UNCHANGED snd
    PROVE  Goes(snd[w], snd'[w], push[w])
<1> DEFINE x == snd[w]
<1>1. snd \in [Workers -> Senders] /\ x \in Senders /\ Progress(x, push[w])
  BY LocalTypes DEF Types, SenderType, WorkerInv, SyncInv, SyncOK
<1>2. CASE UNCHANGED snd
  BY <1>1, <1>2 DEF Goes
<1>3. CASE snd[w].phase = "idle" /\ snd' = [snd EXCEPT ![w].phase = "delay"]
  <2>1. /\ snd'[w].phase = "delay" /\ snd'[w].sid = x.sid /\ snd'[w].snap = x.snap
        /\ snd'[w].next = x.next /\ snd'[w].resend = x.resend /\ snd'[w] \in Senders
    BY <1>1, <1>3 DEF Senders, Phases
  <2>2. Progress(snd'[w], push[w])
    BY <1>1, <1>3, <2>1 DEF Progress
  <2> QED BY <1>3, <2>1, <2>2 DEF Goes
<1> QED BY <1>2, <1>3 DEF ExecuteFullSync

LEMMA HeartbeatStep ==
    ASSUME Types, NEW w \in Workers, WorkerInv(w), Heartbeat(w) \/ HeartbeatLost(w)
    PROVE  WorkerInv(w)'
<1>1. up[w] = "up" /\ Goes(snd[w], snd'[w], push[w])
  BY CommandGoes DEF Heartbeat, HeartbeatLost, sender
<1>2. UNCHANGED <<mode, up, hot, storing, opq, seqno, push, nsync, unsent, copy, gap>>
  BY DEF Heartbeat, HeartbeatLost, worker, sender
<1>3. CASE ~Registered(w)
  <2>1. /\ RegisterNode(w) /\ dirty' = [dirty EXCEPT ![w] = Keys]
        /\ dropped' = [dropped EXCEPT ![w] = TRUE]
    BY <1>3 DEF Heartbeat, HeartbeatLost
  <2>2. dirty'[w] = Keys /\ dropped'[w]
    BY <2>1 DEF Types, HistoryType
  <2>3. node'[w] = FreshNode
    BY <1>3, <2>1 DEF RegisterNode, Registered, Types, RegistryType
  <2> QED BY <1>1, <1>2, <2>2, <2>3, AnewStep
<1>4. CASE Registered(w)
  BY <1>1, <1>2, <1>4, GoesStep DEF Heartbeat, HeartbeatLost
<1> QED BY <1>3, <1>4

LEMMA StayGoes ==
    ASSUME Types, NEW w \in Workers, WorkerInv(w)
    PROVE  Goes(snd[w], snd[w], push[w])
BY LocalTypes DEF Goes, WorkerInv, SyncInv, SyncOK

LEMMA HealthStep ==
    ASSUME Types, NEW w \in Workers, WorkerInv(w), HealthCheck(w)
    PROVE  WorkerInv(w)'
<1>1. node'[w] = NoNode
  BY LeaveNode DEF HealthCheck
<1>2. UNCHANGED <<mode, up, hot, storing, opq, seqno, push, nsync, unsent, copy, snd, gap, dropped>>
  BY DEF HealthCheck, worker, sender, history
<1>3. Goes(snd[w], snd'[w], push[w])
  BY <1>2, StayGoes
<1> QED BY <1>1, <1>2, <1>3, AnewStep

LEMMA ControllerStep ==
    ASSUME Types, NEW w \in Workers, WorkerInv(w), RestartController
    PROVE  WorkerInv(w)'
<1>1. node'[w] = NoNode /\ gap'[w] = FALSE
  BY DEF RestartController
<1>2. UNCHANGED <<mode, up, hot, storing, opq, seqno, push, nsync, unsent, copy, snd, dropped>>
  BY DEF RestartController, worker, sender
<1>3. Goes(snd[w], snd'[w], push[w])
  BY <1>2, StayGoes
<1> QED BY <1>1, <1>2, <1>3, AnewStep

LEMMA CloseStep ==
    ASSUME Types, NEW w \in Workers, WorkerInv(w), Close(w)
    PROVE  WorkerInv(w)'
<1> USE DEF WorkerInv
<1> DEFINE m == [type |-> "dereg"]
           p == push[w]
           q == Append(p, m)
           x == snd[w]
           y == node[w].sync
<1>1. /\ y \in Syncs /\ x \in Senders /\ p \in Seq(Messages) /\ nsync[w] \in Nat
      /\ push \in [Workers -> Seq(Messages)] /\ up \in [Workers -> {"new", "up", "closed"}]
      /\ node[w].seq \in Int
  BY LocalTypes DEF Types, SenderType, WorkerType
<1>2. m \in Messages /\ m.type \notin {"batch", "end"} /\ m.type # "ops"
  BY DEF Messages
<1>3. /\ x.phase = "idle" /\ up[w] = "up" /\ up' = [up EXCEPT ![w] = "closed"]
      /\ UNCHANGED <<mode, hot, seqno, snd, nsync, node, gap, dirty, unsent, copy, dropped>>
  BY DEF Close, registry, history
<1>4. PICK n \in 0..Len(push[w]) + 1 : push' = [push EXCEPT ![w] = SubSeq(q, 1, n)]
  BY DEF Close
<1> DEFINE r == SubSeq(q, 1, n)
<1>5. up'[w] = "closed" /\ push'[w] = r
  BY <1>1, <1>3, <1>4
<1>6. q \in Seq(Messages) /\ Len(q) = Len(p) + 1
  BY <1>1, <1>2
<1>7. n \in 0..Len(q)
  BY <1>4, <1>6
<1> HIDE DEF m
<1>8. /\ SyncOK(y, x, q, node[w].kv, copy[w], unsent[w], nsync[w])
      /\ Counts(y, x, p) => Counts(y, x, q)
  BY <1>1, <1>2, SyncOther DEF SyncInv
<1>9. Runs(q) /\ \A s : Follows(p, s) => Follows(q, s)
  BY <1>1, <1>2, SeqOther DEF SeqInv
<1> HIDE DEF q
<1>10. /\ SyncOK(y, x, r, node[w].kv, copy[w], unsent[w], nsync[w])
       /\ Counts(y, x, q) => Counts(y, x, r)
  BY <1>1, <1>3, <1>6, <1>7, <1>8, SyncPrefix
<1>11. Runs(r) /\ \A s : Follows(q, s) => Follows(r, s)
  BY <1>6, <1>7, <1>9, SeqPrefix
<1> HIDE DEF r
<1>12. Finite(w)' /\ Blank(w)' /\ OpsInv(w)'
  BY <1>3, <1>5 DEF Finite, Blank, OpsInv
<1>13. SyncInv(w)' /\ CountInv(w)'
  BY <1>3, <1>5, <1>8, <1>10 DEF SyncInv, CountInv
<1>14. AgreeInv(w)' /\ KeysInv(w)'
  BY <1>5 DEF AgreeInv, KeysInv
<1>15. SeqInv(w)'
  BY <1>3, <1>5, <1>9, <1>11 DEF SeqInv, Registered
<1> QED BY <1>12, <1>13, <1>14, <1>15

LEMMA RestartStep ==
    ASSUME Types, NEW w \in Workers, WorkerInv(w), RestartWorker(w)
    PROVE  WorkerInv(w)'
<1> USE DEF WorkerInv
<1>1. /\ up'[w] = "new" /\ hot'[w] = {} /\ storing'[w] = {}
      /\ opq'[w] = <<>> /\ push'[w] = <<>> /\ snd'[w] = Idle /\ gap'[w] = FALSE
      /\ UNCHANGED <<mode, nsync, node, dirty, unsent, copy>>
  BY DEF RestartWorker, Types, WorkerType, SenderType, RegistryType
<1>2. /\ node[w].sync \in Syncs /\ snd[w] \in Senders /\ push[w] \in Seq(Messages)
      /\ nsync[w] \in Nat
  BY LocalTypes
<1>3. /\ SyncOK(node[w].sync, Idle, <<>>, node[w].kv, copy[w], unsent[w], nsync[w])
      /\ Counts(node[w].sync, Idle, <<>>)
  BY <1>2, SyncBlank DEF SyncInv
<1>4. Finite(w)' /\ Blank(w)' /\ OpsInv(w)'
  BY <1>1, FS_EmptySet DEF Finite, Blank, OpsInv
<1>5. SyncInv(w)' /\ CountInv(w)'
  BY <1>1, <1>3 DEF SyncInv, CountInv
<1>6. AgreeInv(w)' /\ KeysInv(w)'
  BY <1>1 DEF AgreeInv, KeysInv
<1>7. SeqInv(w)'
  BY <1>1, EmptyPipe DEF SeqInv, Registered
<1> QED BY <1>4, <1>5, <1>6, <1>7

-----------------------------------------------------------------------------
(* The steps of a sender.                                                   *)

LEMMA FreezeStep ==
    ASSUME Types, NEW w \in Workers, WorkerInv(w), Freeze(w)
    PROVE  WorkerInv(w)'
<1> USE DEF WorkerInv
<1> DEFINE x == snd[w]
           z == snd'[w]
           y == node[w].sync
<1>1. /\ y \in Syncs /\ x \in Senders /\ push[w] \in Seq(Messages) /\ nsync[w] \in Nat
  BY LocalTypes
<1>2. /\ x.phase = "delay" /\ nsync' = [nsync EXCEPT ![w] = @ + 1]
      /\ UNCHANGED <<mode, up, hot, storing, opq, seqno, push, node, gap, dirty, unsent,
                     copy, dropped>>
  BY DEF Freeze, registry, history
<1>3. nsync'[w] = nsync[w] + 1
  BY <1>2 DEF Types, SenderType
<1>4. /\ z \in Senders /\ z.phase = "start" /\ z.sid = nsync[w] + 1
      /\ z.next = x.next /\ z.resend = x.resend
  BY FreezeSender DEF Finite
<1>5. up[w] # "new"
  BY <1>2 DEF Blank, Idle
<1>6. /\ SyncOK(y, z, push[w], node[w].kv, copy[w], unsent[w], nsync[w] + 1)
      /\ Counts(y, x, push[w]) => Counts(y, z, push[w])
  BY <1>1, <1>2, <1>4, SyncFreeze DEF SyncInv
<1>7. Live(y, z, push[w]) => Live(y, x, push[w])
  <2>1. y.sid <= nsync[w] /\ y.sid \in Nat
    BY <1>1 DEF SyncInv, SyncOK, Drawn, Syncs
  <2>2. z.sid # y.sid
    BY <1>1, <1>4, <2>1
  <2> QED BY <2>2 DEF Live
<1>8. Finite(w)' /\ Blank(w)' /\ OpsInv(w)'
  BY <1>2, <1>5 DEF Finite, Blank, OpsInv
<1>9. SyncInv(w)' /\ CountInv(w)'
  BY <1>2, <1>3, <1>6 DEF SyncInv, CountInv
<1>10. AgreeInv(w)'
  BY <1>2, <1>7 DEF AgreeInv, Agrees
<1>11. KeysInv(w)' /\ SeqInv(w)'
  BY <1>2 DEF KeysInv, SeqInv, Registered, Syncing
<1> QED BY <1>8, <1>9, <1>10, <1>11

LEMMA StartStep ==
    ASSUME Types, NEW w \in Workers, WorkerInv(w), SendSyncStart(w)
    PROVE  WorkerInv(w)'
<1> USE DEF WorkerInv
<1> DEFINE x == snd[w]
           z == snd'[w]
           g == node'[w].sync
           c == ToSet(x.snap)
<1>1. /\ node[w].sync \in Syncs /\ x \in Senders /\ push[w] \in Seq(Messages)
      /\ nsync[w] \in Nat
  BY LocalTypes
<1>2. /\ x.phase = "start"
      /\ UNCHANGED <<mode, up, hot, storing, opq, seqno, push, nsync, gap, dropped>>
  BY DEF SendSyncStart
<1>3. up[w] # "new"
  BY <1>2 DEF Blank, Idle
<1>4. Goes(x, z, push[w])
  BY StartSender DEF SenderGoes
<1>5. HandleFullSyncStart(w) \/ UNCHANGED <<node, dirty, unsent, copy>>
  BY DEF SendSyncStart
<1>6. CASE UNCHANGED <<node, dirty, unsent, copy>>
  BY <1>2, <1>3, <1>4, <1>6, GoesStep
<1>7. CASE HandleFullSyncStart(w) /\ ~StartSyncAccepted(w)
  <2>1. UNCHANGED <<node, dirty, unsent, copy>>
    BY <1>7 DEF HandleFullSyncStart
  <2> QED BY <1>6, <2>1
<1>8. CASE HandleFullSyncStart(w) /\ StartSyncAccepted(w)
  <2>1. /\ dirty'[w] = {k \in Keys : (k \in hot[w]) # (k \in c)}
        /\ unsent'[w] = {} /\ copy'[w] = c
    BY <1>8 DEF HandleFullSyncStart, Types, HistoryType
  <2>2. /\ node'[w].kv = {} /\ node'[w].reg = node[w].reg
        /\ node'[w].seq = (IF node[w].kv # {} THEN -1 ELSE node[w].seq)
        /\ g \in Syncs /\ g.sid = x.sid /\ g.state = "syncing"
        /\ g.count = Batches(x.snap) /\ g.got = {}
    BY <1>8, StartNode
  <2>3. SyncOK(g, x, push[w], {}, c, {}, nsync[w]) /\ Counts(g, x, push[w])
    BY <1>1, <1>2, <2>2, SyncStart DEF SyncInv
  <2>4. z \in Senders /\ Progress(z, push[w])
    BY <1>4 DEF Goes
  <2>5. SyncOK(g, z, push[w], {}, c, {}, nsync[w]) /\ Counts(g, z, push[w])
    BY <1>1, <1>4, <2>2, <2>3, <2>4, SyncSender DEF Goes
  <2> HIDE DEF c
  <2>6. Finite(w)' /\ Blank(w)' /\ OpsInv(w)'
    BY <1>2, <1>3, <1>8, <2>2 DEF Finite, Blank, OpsInv, StartSyncAccepted, Registered
  <2>7. SyncInv(w)' /\ CountInv(w)'
    BY <1>2, <2>1, <2>2, <2>5 DEF SyncInv, CountInv
  <2>8. AgreeInv(w)'
    <3>1. \A k \in Keys \ dirty'[w] : k \in c <=> k \in hot[w]
      BY <2>1
    <3> QED BY <1>2, <2>1, <3>1 DEF AgreeInv, Agrees
  <2>9. KeysInv(w)' /\ SeqInv(w)'
    BY <1>2, <2>2 DEF KeysInv, SeqInv, Registered, Syncing
  <2> QED BY <2>6, <2>7, <2>8, <2>9
<1> QED BY <1>5, <1>6, <1>7, <1>8

LEMMA PollStep ==
    ASSUME Types, NEW w \in Workers, WorkerInv(w), PollForCompletion(w)
    PROVE  WorkerInv(w)'
<1> USE DEF WorkerInv
<1>1. /\ snd[w].phase = "poll"
      /\ UNCHANGED <<mode, up, hot, storing, opq, seqno, push, nsync, node, gap, dirty, unsent,
                     copy, dropped>>
  BY DEF PollForCompletion, history
<1>2. up[w] # "new"
  BY <1>1 DEF Blank, Idle
<1>3. Goes(snd[w], snd'[w], push[w])
  BY PollSender DEF SenderGoes
<1> QED BY <1>1, <1>2, <1>3, GoesStep

LEMMA SendStep ==
    ASSUME Types, NEW w \in Workers, WorkerInv(w), SendKeyBatches(w) \/ ResendMissing(w)
    PROVE  WorkerInv(w)'
<1> USE DEF WorkerInv
<1> DEFINE x == snd[w]
           z == snd'[w]
           y == node[w].sync
           p == push[w]
<1>1. /\ y \in Syncs /\ x \in Senders /\ p \in Seq(Messages) /\ nsync[w] \in Nat
      /\ push \in [Workers -> Seq(Messages)]
  BY LocalTypes DEF Types, SenderType
<1>2. /\ x.phase \in {"batches", "resend"}
      /\ UNCHANGED <<mode, up, hot, storing, opq, seqno, nsync, node, gap, dirty, unsent,
                     copy, dropped>>
  BY DEF SendKeyBatches, ResendMissing, worker, registry, history
<1>3. up[w] # "new"
  BY <1>2 DEF Blank, Idle
<1>4. SenderSends(w)
  BY SendTypesKept
<1>5. PICK m \in Messages : PutMsg(w, m) /\ (SendsBatch(x, z, p, m) \/ SendsEnd(x, z, p, m))
  BY <1>4 DEF SenderSends
<1>6. /\ z \in Senders /\ z.sid = x.sid /\ z.snap = x.snap /\ Progress(z, p)
  BY <1>4 DEF SenderSends
<1> DEFINE r == Append(p, m)
<1>7. push'[w] = r
  BY <1>1, <1>5 DEF PutMsg
<1>8. m.type # "ops" /\ m.sid = x.sid
  BY <1>5 DEF SendsBatch, SendsEnd, BatchMessages, EndMessages
<1>9. /\ SyncOK(y, z, r, node[w].kv, copy[w], unsent[w], nsync[w])
      /\ Counts(y, x, p) => Counts(y, z, r)
  <2>1. SyncOK(y, x, p, node[w].kv, copy[w], unsent[w], nsync[w])
    BY DEF SyncInv
  <2>2. CASE SendsBatch(x, z, p, m)
    <3>1. /\ x.phase \in {"batches", "resend"} /\ z.phase \in {"batches", "resend"}
          /\ m.id \in Nat /\ m.id < Batches(x.snap)
          /\ m \in BatchMessages /\ m.sid = x.sid /\ m.keys = BatchKeys(x.snap, m.id)
          /\ z.next = x.next \/ (z.next = x.next + 1 /\ m.id = x.next)
      BY <2>2 DEF SendsBatch
    <3> QED BY <1>1, <1>6, <2>1, <3>1, SyncBatch
  <2>3. CASE SendsEnd(x, z, p, m)
    <3>1. /\ x.phase \in {"batches", "resend"} /\ z.phase = "poll"
          /\ x.next >= Batches(x.snap) /\ z.next = x.next
          /\ m \in EndMessages /\ m.sid = x.sid
      BY <2>3 DEF SendsEnd
    <3> QED BY <1>1, <1>6, <2>1, <3>1, SyncEnd
  <2> QED BY <1>5, <2>2, <2>3
<1>10. /\ Replays(opq[w], p, hot[w]) => Replays(opq[w], r, hot[w])
       /\ \A k : Pending(opq[w], r, k) <=> Pending(opq[w], p, k)
  BY <1>1, <1>8, ReplaysOther
<1>11. Live(y, z, r) => Live(y, x, p)
  <2>1. Live(y, x, r) => Live(y, x, p)
    BY <1>1, <1>8, LiveMoves
  <2>2. Live(y, z, r) => Live(y, x, r)
    BY <1>6 DEF Live
  <2> QED BY <2>1, <2>2
<1>12. /\ Runs(r) /\ \A n : Numbered(p, n) => Numbered(r, n)
       /\ NoOps(r, 0, Len(r) + 1) <=> NoOps(p, 0, Len(p) + 1)
       /\ \A s : Follows(p, s) => Follows(r, s)
  BY <1>1, <1>8, SeqOther DEF SeqInv
<1> HIDE DEF r
<1>13. Finite(w)' /\ Blank(w)' /\ OpsInv(w)'
  BY <1>2, <1>3, <1>7, <1>10 DEF Finite, Blank, OpsInv
<1>14. SyncInv(w)' /\ CountInv(w)'
  BY <1>2, <1>7, <1>9 DEF SyncInv, CountInv
<1>15. AgreeInv(w)'
  BY <1>2, <1>7, <1>10, <1>11 DEF AgreeInv, Agrees
<1>16. KeysInv(w)'
  BY <1>2, <1>7, <1>10 DEF KeysInv, Registered, Syncing
<1>17. SeqInv(w)'
  BY <1>2, <1>7, <1>12 DEF SeqInv, Registered
<1> QED BY <1>13, <1>14, <1>15, <1>16, <1>17

-----------------------------------------------------------------------------
(* The steps of the controller's handlers.                                  *)

\* The effect on the keys of a node of operations whose last one on k is v.
LEMMA ApplyEffect ==
    ASSUME NEW ops \in Seq(Operations), NEW k \in Keys, NEW kv
    PROVE  /\ ~OnOps(ops, k) => (k \in ApplyOps(kv, ops) <=> k \in kv)
           /\ \A v \in BOOLEAN : Says(ops, k, v) => (k \in ApplyOps(kv, ops) <=> v)
<1> DEFINE at == {i \in DOMAIN ops : ops[i].key = k}
<1>1. \A i \in DOMAIN ops : i \in Int
  OBVIOUS
<1>2. OnOps(ops, k) <=> at # {}
  BY DEF OnOps
<1>3. k \in ApplyOps(kv, ops) <=>
          IF at = {} THEN k \in kv ELSE \E i \in at : (\A j \in at : j <= i) /\ ops[i].adm
  BY DEF ApplyOps
<1>4. ASSUME NEW v \in BOOLEAN, Says(ops, k, v) PROVE k \in ApplyOps(kv, ops) <=> v
  <2>1. PICK i \in DOMAIN ops : /\ ops[i].key = k /\ ops[i].adm = v
                                /\ \A j \in DOMAIN ops : ops[j].key = k => j <= i
    BY <1>4 DEF Says
  <2>2. i \in at /\ at # {} /\ \A j \in at : j <= i
    BY <2>1
  <2>3. \A e \in at : (\A j \in at : j <= e) => e = i
    BY <1>1, <2>2
  <2> HIDE DEF at
  <2> QED BY <1>3, <2>1, <2>2, <2>3
<1> QED BY <1>2, <1>3, <1>4

\* The same on the history.
LEMMA DirtyEffect ==
    ASSUME NEW w \in Workers, NEW ops \in Seq(Operations), NEW k \in Keys, NEW d,
           k \notin DirtyAfter(w, ops, d)
    PROVE  /\ ~OnOps(ops, k) => k \notin d
           /\ \A v \in BOOLEAN : Says(ops, k, v) => Syncing(w) /\ (v <=> k \in copy[w])
<1> DEFINE at == {i \in DOMAIN ops : ops[i].key = k}
<1>1. \A i \in DOMAIN ops : i \in Int
  OBVIOUS
<1>2. OnOps(ops, k) <=> at # {}
  BY DEF OnOps
<1>3. IF at = {} THEN k \notin d
      ELSE Syncing(w) /\ \E i \in at : (\A j \in at : j <= i) /\ ops[i].adm = (k \in copy[w])
  BY DEF DirtyAfter
<1>4. ASSUME NEW v \in BOOLEAN, Says(ops, k, v) PROVE Syncing(w) /\ (v <=> k \in copy[w])
  <2>1. PICK i \in DOMAIN ops : /\ ops[i].key = k /\ ops[i].adm = v
                                /\ \A j \in DOMAIN ops : ops[j].key = k => j <= i
    BY <1>4 DEF Says
  <2>2. i \in at /\ at # {} /\ \A j \in at : j <= i
    BY <2>1
  <2>3. \A e \in at : (\A j \in at : j <= e) => e = i
    BY <1>1, <2>2
  <2> HIDE DEF at
  <2>4. Syncing(w) /\ ops[i].adm = (k \in copy[w])
    BY <1>3, <2>2, <2>3
  <2> QED BY <2>1, <2>4
<1> QED BY <1>2, <1>3, <1>4

\* What the head of a pipe leaves behind.
LEMMA TailFacts ==
    ASSUME Types, NEW w \in Workers, WorkerInv(w), push[w] # <<>>
    PROVE  LET p == push[w]
               t == Tail(p)
               m == Head(p)
               x == snd[w]
               y == node[w].sync
               kv == node[w].kv
               c == copy[w]
               u == unsent[w]
           IN  /\ up[w] # "new" /\ Run(m)
               /\ up[w] = "up" => Replays(opq[w], t, hot[w])
               /\ up[w] = "up" => \A k \in Keys : ~Pending(opq[w], t, k) =>
                     IF HasOps(m, k) THEN Says(m.ops, k, k \in hot[w])
                     ELSE ~Pending(opq[w], p, k)
               /\ \A e : u \subseteq e /\ (m.type = "batch" => m.keys \subseteq e) =>
                     SyncOK(y, x, t, kv, c, e, nsync[w])
               /\ Counts(y, x, p) /\ (m.type = "batch" => m.sid # y.sid) => Counts(y, x, t)
               /\ \A z : z.sid = y.sid /\ z.state = y.state => (Live(z, x, t) => Live(y, x, p))
<1> USE DEF WorkerInv
<1> DEFINE p == push[w]
           t == Tail(p)
           m == Head(p)
           x == snd[w]
           y == node[w].sync
           kv == node[w].kv
           c == copy[w]
           u == unsent[w]
<1>1. /\ y \in Syncs /\ x \in Senders /\ p \in Seq(Messages) /\ nsync[w] \in Nat
      /\ opq[w] \in Seq(Operations) /\ hot[w] \in SUBSET Keys
  BY LocalTypes
<1>2. up[w] # "new"
  BY DEF Blank
<1>3. 1 \in DOMAIN p /\ m = p[1]
  BY <1>1
<1>4. Run(m)
  BY <1>3 DEF SeqInv, Runs
<1>5. up[w] = "up" => Replays(opq[w], t, hot[w])
  BY <1>1, ReplaysTail DEF OpsInv
<1>6. ASSUME up[w] = "up", NEW k \in Keys, ~Pending(opq[w], t, k)
      PROVE  IF HasOps(m, k) THEN Says(m.ops, k, k \in hot[w]) ELSE ~Pending(opq[w], p, k)
  <2>1. Pending(opq[w], p, k) => HasOps(m, k) /\ Says(m.ops, k, k \in hot[w])
    BY <1>1, <1>6, ReplaysTail DEF OpsInv
  <2>2. HasOps(m, k) => Pending(opq[w], p, k)
    BY <1>3 DEF Pending, OnPush
  <2> HIDE DEF m, p, t
  <2> QED BY <2>1, <2>2
<1>7. ASSUME NEW e, u \subseteq e, m.type = "batch" => m.keys \subseteq e
      PROVE  SyncOK(y, x, t, kv, c, e, nsync[w])
  <2>1. SyncOK(y, x, p, kv, c, u, nsync[w])
    BY DEF SyncInv
  <2>2. /\ y.got \subseteq y.got \cup (IF OfSync(m, y.sid) /\ m.type = "batch" THEN {m.id} ELSE {})
        /\ kv \subseteq kv \cup (IF OfSync(m, y.sid) /\ m.type = "batch" THEN m.keys ELSE {})
    OBVIOUS
  <2>3. /\ u \subseteq kv \cup e
        /\ (y.state = "syncing" /\ m.type = "batch" /\ m.sid = y.sid) => m.keys \subseteq kv \cup e
    BY <1>7
  <2> HIDE DEF y, kv, u, c
  <2> QED BY <1>1, <2>1, <2>2, <2>3, SyncTail
<1>8. ASSUME Counts(y, x, p), m.type = "batch" => m.sid # y.sid PROVE Counts(y, x, t)
  <2>1. SyncOK(y, x, p, kv, c, u, nsync[w])
    BY DEF SyncInv
  <2>2. /\ y.got \subseteq y.got \cup (IF OfSync(m, y.sid) /\ m.type = "batch" THEN {m.id} ELSE {})
        /\ kv \subseteq kv \cup (IF OfSync(m, y.sid) /\ m.type = "batch" THEN m.keys ELSE {})
    OBVIOUS
  <2>3. /\ u \subseteq kv \cup u
        /\ (y.state = "syncing" /\ m.type = "batch" /\ m.sid = y.sid) => m.keys \subseteq kv \cup u
        /\ (y.state = "syncing" /\ m.type = "batch" /\ m.sid = y.sid) => m.id \in y.got
    BY <1>8
  <2> HIDE DEF y, kv, u, c
  <2> QED BY <1>1, <1>8, <2>1, <2>2, <2>3, SyncTail
<1>9. ASSUME NEW z, z.sid = y.sid, z.state = y.state, Live(z, x, t) PROVE Live(y, x, p)
  <2>1. Live(y, x, t)
    BY <1>9 DEF Live
  <2> QED BY <1>1, <2>1, LiveMoves
<1> QED BY <1>2, <1>4, <1>5, <1>6, <1>7, <1>8, <1>9

\* Operations that are discarded, by the registry or by the pipe.
LEMMA DiscardStep ==
    ASSUME Types, NEW w \in Workers, WorkerInv(w), push[w] # <<>>,
           push'[w] = Tail(push[w]), Head(push[w]).type = "ops",
           dirty'[w] = DirtyAfter(w, Head(push[w]).ops, dirty[w]), dropped'[w],
           UNCHANGED <<mode, up, hot, storing, opq, seqno, snd, nsync, node, gap, unsent, copy>>
    PROVE  WorkerInv(w)'
<1> USE DEF WorkerInv
<1> DEFINE p == push[w]
           t == Tail(p)
           m == Head(p)
           x == snd[w]
           y == node[w].sync
           kv == node[w].kv
           c == copy[w]
           u == unsent[w]
<1>1. /\ up[w] # "new" /\ Run(m)
      /\ up[w] = "up" => Replays(opq[w], t, hot[w])
      /\ up[w] = "up" => \A k \in Keys : ~Pending(opq[w], t, k) =>
            IF HasOps(m, k) THEN Says(m.ops, k, k \in hot[w]) ELSE ~Pending(opq[w], p, k)
      /\ SyncOK(y, x, t, kv, c, u, nsync[w])
      /\ Counts(y, x, p) => Counts(y, x, t)
      /\ Live(y, x, t) => Live(y, x, p)
  BY TailFacts
<1>2. m \in Messages /\ p \in Seq(Messages) /\ m.ops \in Seq(Operations) /\ hot[w] \in SUBSET Keys
  BY LocalTypes, MessageTypes
<1>3. Runs(t) /\ \A n : Numbered(p, n) => Numbered(t, n)
  BY <1>2, SeqTail DEF SeqInv
<1> HIDE DEF t
<1>4. push'[w] = t
  BY DEF t
<1>5. ASSUME up[w] = "up", NEW k \in Keys \ dirty'[w], ~Pending(opq[w], t, k)
      PROVE  \/ Syncing(w) /\ (k \in hot[w] <=> k \in c)
             \/ k \notin dirty[w] /\ ~Pending(opq[w], p, k)
  <2>1. /\ ~OnOps(m.ops, k) => k \notin dirty[w]
        /\ \A v \in BOOLEAN : Says(m.ops, k, v) => Syncing(w) /\ (v <=> k \in copy[w])
    <3> DEFINE o == m.ops
               d == dirty[w]
    <3>1. o \in Seq(Operations) /\ k \notin DirtyAfter(w, o, d)
      BY <1>2, <1>5
    <3> HIDE DEF o, d, WorkerInv
    <3>2. /\ ~OnOps(o, k) => k \notin d
          /\ \A v \in BOOLEAN : Says(o, k, v) => Syncing(w) /\ (v <=> k \in copy[w])
      BY <3>1, DirtyEffect
    <3> QED BY <3>2 DEF o, d
  <2>2. CASE OnOps(m.ops, k)
    <3>1. Says(m.ops, k, k \in hot[w])
      BY <1>1, <1>5, <2>2 DEF HasOps
    <3> DEFINE v == k \in hot[w]
    <3>2. v \in BOOLEAN /\ Says(m.ops, k, v)
      BY <3>1
    <3> HIDE DEF v, m
    <3>3. Syncing(w) /\ (v <=> k \in copy[w])
      BY <2>1, <3>2
    <3> QED BY <3>3 DEF v
  <2>3. CASE ~OnOps(m.ops, k)
    <3>1. k \notin dirty[w]
      BY <2>1, <2>3
    <3> QED BY <1>1, <1>5, <2>3, <3>1 DEF HasOps
  <2> QED BY <2>2, <2>3
<1>6. Finite(w)' /\ Blank(w)' /\ OpsInv(w)'
  BY <1>1, <1>4 DEF Finite, Blank, OpsInv
<1>7. SyncInv(w)' /\ CountInv(w)'
  BY <1>1, <1>4 DEF SyncInv, CountInv
<1>8. AgreeInv(w)'
  BY <1>1, <1>4, <1>5 DEF AgreeInv, Agrees
<1>9. KeysInv(w)'
  BY <1>4, <1>5 DEF KeysInv, Registered, Syncing
<1>10. SeqInv(w)'
  BY <1>3, <1>4 DEF SeqInv, Registered
<1> QED BY <1>6, <1>7, <1>8, <1>9, <1>10

\* Operations the registry takes.
LEMMA ApplyStep ==
    ASSUME Types, NEW w \in Workers, WorkerInv(w), push[w] # <<>>,
           push'[w] = Tail(push[w]), Head(push[w]).type = "ops",
           ~Syncing(w), Registered(w), HandleOps(w, Head(push[w])),
           UNCHANGED <<mode, up, hot, storing, opq, seqno, snd, nsync>>
    PROVE  WorkerInv(w)'
<1> USE DEF WorkerInv
<1> DEFINE p == push[w]
           t == Tail(p)
           m == Head(p)
           x == snd[w]
           y == node[w].sync
           kv == node[w].kv
           c == copy[w]
           u == unsent[w]
<1>1. /\ up[w] # "new" /\ Run(m)
      /\ up[w] = "up" => Replays(opq[w], t, hot[w])
      /\ up[w] = "up" => \A k \in Keys : ~Pending(opq[w], t, k) =>
            IF HasOps(m, k) THEN Says(m.ops, k, k \in hot[w]) ELSE ~Pending(opq[w], p, k)
      /\ SyncOK(y, x, t, kv, c, u, nsync[w])
  BY TailFacts
<1>2. /\ m \in OpsMessages /\ p \in Seq(Messages) /\ m.ops \in Seq(Operations)
      /\ hot[w] \in SUBSET Keys /\ y \in Syncs /\ x \in Senders /\ nsync[w] \in Nat
      /\ t \in Seq(Messages) /\ m \in Messages /\ seqno[w] \in Nat /\ node[w].seq \in Int
  BY LocalTypes, MessageTypes
<1>3. y.state # "syncing" /\ Registered(w)
  BY DEF Syncing
<1>4. /\ node'[w].kv = ApplyOps(kv, m.ops) /\ node'[w].reg = node[w].reg
      /\ node'[w].seq = After(m) - 1 /\ node'[w].sync = y
      /\ gap' = [gap EXCEPT ![w] = @ \/ SeqBroken(node[w].seq, m.ops)]
      /\ dirty' = [dirty EXCEPT ![w] = Without(m.ops, @)]
      /\ unsent' = [unsent EXCEPT ![w] = Without(m.ops, @)]
      /\ UNCHANGED <<copy, dropped>>
  BY <1>1, <1>2, OpsNode
<1>5. /\ gap'[w] = (gap[w] \/ SeqBroken(node[w].seq, m.ops))
      /\ dirty'[w] = Without(m.ops, dirty[w]) /\ unsent'[w] = Without(m.ops, unsent[w])
  BY <1>4 DEF Types, RegistryType, HistoryType
<1>6. /\ Runs(t) /\ (\A n : Numbered(p, n) => Numbered(t, n))
      /\ Follows(t, After(m) - 1)
      /\ \A n : Numbered(p, n) /\ NoOps(t, 0, Len(t) + 1) => After(m) = n
      /\ \A s : Follows(p, s) => First(m) = s + 1
  BY <1>2, SeqTail DEF SeqInv
<1> HIDE DEF t
<1>7. push'[w] = t
  BY DEF t
<1>16. ASSUME NEW k \in Keys
       PROVE  /\ ~OnOps(m.ops, k) => (k \in ApplyOps(kv, m.ops) <=> k \in kv)
              /\ \A v \in BOOLEAN : Says(m.ops, k, v) => (k \in ApplyOps(kv, m.ops) <=> v)
  <2> DEFINE o == m.ops
  <2>1. o \in Seq(Operations)
    BY <1>2
  <2> HIDE DEF o, kv, WorkerInv
  <2>2. /\ ~OnOps(o, k) => (k \in ApplyOps(kv, o) <=> k \in kv)
        /\ \A v \in BOOLEAN : Says(o, k, v) => (k \in ApplyOps(kv, o) <=> v)
    BY <2>1, ApplyEffect
  <2> QED BY <2>2 DEF o
<1>8. ASSUME up[w] = "up", NEW k \in Keys \ (dirty'[w] \cup unsent'[w]), ~Pending(opq[w], t, k)
      PROVE  k \in node'[w].kv <=> k \in hot[w]
  <2>1. CASE OnOps(m.ops, k)
    <3>1. Says(m.ops, k, k \in hot[w])
      BY <1>1, <1>8, <2>1 DEF HasOps
    <3> DEFINE v == k \in hot[w]
    <3>2. v \in BOOLEAN /\ Says(m.ops, k, v)
      BY <3>1
    <3> HIDE DEF v, m
    <3>3. k \in ApplyOps(kv, m.ops) <=> v
      BY <1>16, <2>1, <3>2
    <3> QED BY <1>4, <3>3 DEF v
  <2>2. CASE ~OnOps(m.ops, k)
    <3>1. /\ k \in ApplyOps(kv, m.ops) <=> k \in kv
          /\ k \notin dirty[w] /\ k \notin unsent[w]
      BY <1>5, <1>8, <1>16, <2>2 DEF Without, OnOps
    <3>2. ~Pending(opq[w], p, k)
      BY <1>1, <1>8, <2>2 DEF HasOps
    <3>3. k \in kv <=> k \in hot[w]
      BY <1>3, <1>8, <3>1, <3>2 DEF KeysInv, Syncing
    <3> QED BY <1>4, <3>1, <3>3
  <2> QED BY <2>1, <2>2
<1>9. SyncOK(y, x, t, node'[w].kv, c, unsent'[w], nsync[w]) /\ Counts(y, x, t)
  <2>1. y.sid \in {0, y.sid} /\ t \in Seq(Messages)
    BY <1>2
  <2> HIDE DEF y, x, kv, c, u
  <2> QED BY <1>1, <1>2, <1>3, <2>1, SyncNone
<1>10. SeqBroken(node[w].seq, m.ops) => dropped[w]
  <2>1. ASSUME ~dropped[w] PROVE ~SeqBroken(node[w].seq, m.ops)
    <3>1. node[w].seq # -1 => First(m) = node[w].seq + 1
      BY <1>1, <1>3, <1>6, <2>1 DEF SeqInv
    <3>2. /\ Len(m.ops) \in Nat /\ DOMAIN m.ops = 1..Len(m.ops) /\ Len(m.ops) > 0
          /\ \A j \in 1..Len(m.ops) : m.ops[j].seq = First(m) + j - 1
          /\ First(m) \in Int
      <4>1. DOMAIN m.ops = 1..Len(m.ops) /\ Len(m.ops) \in Nat
        BY <1>2
      <4>2. Len(m.ops) > 0 /\ \A j \in DOMAIN m.ops : m.ops[j].seq = First(m) + j - 1
        BY <1>1 DEF Run
      <4>3. m.ops[1] \in Operations
        BY <1>2, <4>1, <4>2
      <4>4. m.ops[1].seq \in Int
        BY <4>3 DEF Operations
      <4> QED BY <4>1, <4>2, <4>4 DEF First
    <3> DEFINE f == First(m)
               o == m.ops
    <3>3. o[1].seq = f
      BY DEF First
    <3> HIDE DEF f, o, m
    <3>4. \A i \in 2..Len(o) : o[i].seq = o[i - 1].seq + 1
      <4>1. TAKE i \in 2..Len(o)
      <4>2. i \in 1..Len(o) /\ i - 1 \in 1..Len(o) /\ i \in Int
        BY <3>2 DEF o
      <4>3. o[i].seq = f + i - 1 /\ o[i - 1].seq = f + (i - 1) - 1
        BY <3>2, <4>2 DEF o, f
      <4> QED BY <3>2, <4>2, <4>3 DEF f
    <3>5. ~SeqBroken(node[w].seq, o)
      BY <3>1, <3>3, <3>4 DEF SeqBroken, f
    <3> QED BY <3>5 DEF o
  <2> QED BY <2>1
<1>11. Finite(w)' /\ Blank(w)' /\ OpsInv(w)'
  BY <1>1, <1>4, <1>7 DEF Finite, Blank, OpsInv
<1>12. SyncInv(w)' /\ CountInv(w)'
  BY <1>4, <1>7, <1>9 DEF SyncInv, CountInv
<1>13. AgreeInv(w)'
  BY <1>3, <1>4, <1>7 DEF AgreeInv, Agrees, Live
<1>14. KeysInv(w)'
  BY <1>7, <1>8 DEF KeysInv
<1>15. SeqInv(w)'
  <2>1. gap'[w] => dropped'[w]
    BY <1>4, <1>5, <1>10 DEF SeqInv
  <2>2. Runs(t) /\ (up[w] = "up" => Numbered(t, seqno[w]))
    BY <1>6 DEF SeqInv
  <2>3. (up[w] = "up" /\ NoOps(t, 0, Len(t) + 1)) => After(m) = seqno[w]
    BY <1>6 DEF SeqInv
  <2>4. /\ Follows(t, node'[w].seq)
        /\ (up[w] = "up" /\ NoOps(t, 0, Len(t) + 1)) => seqno[w] = node'[w].seq + 1
    BY <1>2, <1>4, <1>6, <2>3
  <2> QED BY <1>7, <2>1, <2>2, <2>4 DEF SeqInv
<1> QED BY <1>11, <1>12, <1>13, <1>14, <1>15

\* A message without operations leaves the pipe; what it does to the node keeps
\* the sequence number.  The rest is for the caller to show.
LEMMA QuietTail ==
    ASSUME Types, NEW w \in Workers, WorkerInv(w), push[w] # <<>>,
           push'[w] = Tail(push[w]), Head(push[w]).type # "ops",
           node'[w].seq = node[w].seq, node'[w].reg = node[w].reg,
           gap'[w] = gap[w], dropped'[w] = dropped[w],
           UNCHANGED <<up, hot, storing, opq, seqno, snd, nsync>>
    PROVE  /\ up[w] # "new" /\ Finite(w)' /\ OpsInv(w)' /\ SeqInv(w)'
           /\ up[w] = "up" => \A k \in Keys : ~Pending(opq[w], Tail(push[w]), k) =>
                 ~Pending(opq[w], push[w], k)
<1> USE DEF WorkerInv
<1> DEFINE p == push[w]
           t == Tail(p)
           m == Head(p)
<1>1. /\ up[w] # "new"
      /\ up[w] = "up" => Replays(opq[w], t, hot[w])
      /\ up[w] = "up" => \A k \in Keys : ~Pending(opq[w], t, k) =>
            IF HasOps(m, k) THEN Says(m.ops, k, k \in hot[w]) ELSE ~Pending(opq[w], p, k)
  BY TailFacts
<1>2. \A k : ~HasOps(m, k)
  BY DEF HasOps
<1>3. p \in Seq(Messages)
  BY LocalTypes
<1>4. /\ Runs(t) /\ (\A n : Numbered(p, n) => Numbered(t, n))
      /\ NoOps(t, 0, Len(t) + 1) <=> NoOps(p, 0, Len(p) + 1)
      /\ \A s : Follows(p, s) => Follows(t, s)
  BY <1>3, SeqTail DEF SeqInv
<1> HIDE DEF t, m
<1>5. push'[w] = t
  BY DEF t
<1>6. Finite(w)' /\ OpsInv(w)'
  BY <1>1, <1>5 DEF Finite, OpsInv
<1>7. SeqInv(w)'
  BY <1>4, <1>5 DEF SeqInv, Registered
<1> QED BY <1>1, <1>2, <1>6, <1>7 DEF t

\* A batch of the open sync arrives.
LEMMA BatchStep ==
    ASSUME Types, NEW w \in Workers, WorkerInv(w), push[w] # <<>>,
           push'[w] = Tail(push[w]), Head(push[w]).type = "batch",
           Registered(w), node[w].sync.sid = Head(push[w]).sid, Syncing(w),
           HandleFullSyncBatch(w, Head(push[w])),
           UNCHANGED <<mode, up, hot, storing, opq, seqno, snd, nsync>>
    PROVE  WorkerInv(w)'
<1> USE DEF WorkerInv
<1> DEFINE p == push[w]
           t == Tail(p)
           m == Head(p)
           x == snd[w]
           y == node[w].sync
           g == node'[w].sync
           kv == node[w].kv
           v == node'[w].kv
           c == copy[w]
           u == unsent[w]
           e == unsent'[w]
<1>1. /\ m \in BatchMessages /\ p \in Seq(Messages) /\ y \in Syncs /\ x \in Senders
      /\ nsync[w] \in Nat
  BY LocalTypes, MessageTypes
<1>2. /\ v = kv \cup m.keys /\ node'[w].reg = node[w].reg
      /\ node'[w].seq = node[w].seq /\ g \in Syncs
      /\ g.sid = y.sid /\ g.state = "syncing" /\ g.count = y.count
      /\ g.got = y.got \cup {m.id}
  BY <1>1, BatchNode
<1>3. /\ unsent' = [unsent EXCEPT ![w] = @ \ m.keys] /\ UNCHANGED <<gap, dirty, copy, dropped>>
  BY DEF HandleFullSyncBatch
<1>4. e = u \ m.keys
  BY <1>3 DEF Types, HistoryType
<1>5. y.state = "syncing" /\ OfSync(m, y.sid) /\ m.sid = y.sid
  BY DEF Syncing, OfSync
<1>6. /\ up[w] # "new" /\ Finite(w)' /\ OpsInv(w)' /\ SeqInv(w)'
      /\ up[w] = "up" => \A k \in Keys : ~Pending(opq[w], t, k) => ~Pending(opq[w], p, k)
  BY <1>2, <1>3, QuietTail
<1>7. Live(g, x, t) => Live(y, x, p)
  BY <1>2, <1>5, TailFacts
<1>8. /\ SyncOK(g, x, t, v, c, e, nsync[w])
      /\ Counts(y, x, p) => Counts(g, x, t)
  <2>1. SyncOK(y, x, p, kv, c, u, nsync[w])
    BY DEF SyncInv
  <2>2. /\ y.got \subseteq g.got
        /\ g.got \subseteq y.got \cup (IF OfSync(m, y.sid) /\ m.type = "batch"
                                       THEN {m.id} ELSE {})
        /\ kv \subseteq v
        /\ v \subseteq kv \cup (IF OfSync(m, y.sid) /\ m.type = "batch" THEN m.keys ELSE {})
        /\ u \subseteq v \cup e /\ m.keys \subseteq v \cup e /\ m.id \in g.got
    BY <1>2, <1>4, <1>5
  <2>3. /\ g.state = y.state /\ g.sid = y.sid /\ g.count = y.count /\ g \in Syncs
        /\ p # <<>> /\ m = Head(p) /\ p \in Seq(Messages)
        /\ (y.state = "syncing" /\ m.type = "batch" /\ m.sid = y.sid) => m.keys \subseteq v \cup e
        /\ (y.state = "syncing" /\ m.type = "batch" /\ m.sid = y.sid) => m.id \in g.got
    BY <1>1, <1>2, <1>5, <2>2
  <2> HIDE DEF y, g, kv, v, u, e, c, x, p, WorkerInv
  <2>4. nsync[w] \in Nat /\ x \in Senders /\ y \in Syncs
    BY <1>1
  <2>5. SyncOK(g, x, Tail(p), v, c, e, nsync[w])
    BY <2>1, <2>2, <2>3, <2>4, SyncTail
  <2>6. ASSUME Counts(y, x, p) PROVE Counts(g, x, Tail(p))
    BY <2>1, <2>2, <2>3, <2>4, <2>5, <2>6, SyncTail
  <2> QED BY <2>5, <2>6
<1> HIDE DEF t
<1>9. push'[w] = t
  BY DEF t
<1>10. Blank(w)'
  BY <1>2, <1>6 DEF Blank, Registered
<1>11. SyncInv(w)' /\ CountInv(w)'
  BY <1>2, <1>3, <1>8, <1>9 DEF SyncInv, CountInv
<1>12. AgreeInv(w)'
  BY <1>3, <1>6, <1>7, <1>9 DEF AgreeInv, Agrees
<1>13. KeysInv(w)'
  BY <1>2 DEF KeysInv, Syncing
<1> QED BY <1>6, <1>10, <1>11, <1>12, <1>13

\* A message that changes nothing in the registry, or is lost; the keys of a
\* batch count as lost then.
LEMMA IgnoreStep ==
    ASSUME Types, NEW w \in Workers, WorkerInv(w), push[w] # <<>>,
           push'[w] = Tail(push[w]), Head(push[w]).type # "ops",
           unsent'[w] = (IF Head(push[w]).type = "batch" THEN unsent[w] \cup Head(push[w]).keys
                         ELSE unsent[w]),
           \/ "push" \in mode.may
           \/ Head(push[w]).type = "batch" =>
                 ~(Registered(w) /\ node[w].sync.sid = Head(push[w]).sid /\ Syncing(w)),
           UNCHANGED <<mode, up, hot, storing, opq, seqno, snd, nsync, node>>,
           gap'[w] = gap[w], dirty'[w] = dirty[w], copy'[w] = copy[w], dropped'[w] = dropped[w]
    PROVE  WorkerInv(w)'
<1> USE DEF WorkerInv
<1> DEFINE p == push[w]
           t == Tail(p)
           m == Head(p)
           x == snd[w]
           y == node[w].sync
           kv == node[w].kv
           c == copy[w]
           u == unsent[w]
           e == unsent'[w]
<1>1. /\ up[w] # "new" /\ Finite(w)' /\ OpsInv(w)' /\ SeqInv(w)'
      /\ up[w] = "up" => \A k \in Keys : ~Pending(opq[w], t, k) => ~Pending(opq[w], p, k)
  BY QuietTail
<1>2. u \subseteq e /\ (m.type = "batch" => m.keys \subseteq e)
  OBVIOUS
<1>3. /\ SyncOK(y, x, t, kv, c, e, nsync[w])
      /\ Live(y, x, t) => Live(y, x, p)
      /\ Counts(y, x, p) /\ (m.type = "batch" => m.sid # y.sid) => Counts(y, x, t)
  BY <1>2, TailFacts
<1>4. "push" \notin mode.may /\ Counts(y, x, p) => Counts(y, x, t)
  <2>1. CASE y.state = "syncing"
    <3>1. Registered(w) /\ Syncing(w)
      BY <2>1 DEF Blank, Registered, Syncing
    <3> QED BY <1>3, <3>1
  <2>2. CASE y.state # "syncing"
    BY <2>2 DEF Counts
  <2> QED BY <2>1, <2>2
<1> HIDE DEF t, m
<1>5. push'[w] = t
  BY DEF t
<1>6. Blank(w)'
  BY <1>1 DEF Blank
<1>7. SyncInv(w)' /\ CountInv(w)'
  BY <1>3, <1>4, <1>5 DEF SyncInv, CountInv
<1>8. AgreeInv(w)'
  BY <1>1, <1>3, <1>5 DEF AgreeInv, Agrees
<1>9. KeysInv(w)'
  BY <1>1, <1>2, <1>5 DEF KeysInv, Registered, Syncing
<1> QED BY <1>1, <1>6, <1>7, <1>8, <1>9

\* The end of the open sync arrives: every batch came before it, so the node
\* has the whole copy but for what was lost, and the copy is what the hot cache
\* has but for the keys pending.
LEMMA EndStep ==
    ASSUME Types, NEW w \in Workers, WorkerInv(w), push[w] # <<>>,
           push'[w] = Tail(push[w]), Head(push[w]).type = "end",
           Registered(w), node[w].sync.sid = Head(push[w]).sid,
           HandleFullSyncEnd(w, Head(push[w])),
           UNCHANGED <<mode, up, hot, storing, opq, seqno, snd, nsync>>
    PROVE  WorkerInv(w)'
<1> USE DEF WorkerInv
<1> DEFINE p == push[w]
           t == Tail(p)
           m == Head(p)
           x == snd[w]
           y == node[w].sync
           g == node'[w].sync
           kv == node[w].kv
           c == copy[w]
           u == unsent[w]
<1>1. /\ m \in EndMessages /\ p \in Seq(Messages) /\ y \in Syncs /\ x \in Senders
      /\ nsync[w] \in Nat /\ t \in Seq(Messages) /\ c \in SUBSET Keys
  BY LocalTypes, MessageTypes
<1>2. /\ node'[w].kv = kv /\ node'[w].reg = node[w].reg
      /\ node'[w].seq = node[w].seq /\ g \in Syncs
      /\ g.sid = y.sid /\ g.state = "completed" /\ g.count = y.count /\ g.got = y.got
  BY <1>1, EndNode
<1>3. UNCHANGED <<gap, dirty, unsent, copy, dropped>>
  BY DEF HandleFullSyncEnd, history
<1>4. /\ up[w] # "new" /\ Finite(w)' /\ OpsInv(w)' /\ SeqInv(w)'
      /\ up[w] = "up" => \A k \in Keys : ~Pending(opq[w], t, k) => ~Pending(opq[w], p, k)
  BY <1>2, <1>3, QuietTail
<1>5. 1 \in DOMAIN p /\ p[1] = m /\ EndAt(p, y.sid, 1)
  BY <1>1 DEF EndAt
<1>6. (\A s, k : ~KeyOn(p, s, 1, k)) /\ (\A s, b : ~IdOn(p, s, 1, b))
  <2>1. \A j \in DOMAIN p : ~(j < 1)
    BY <1>1
  <2> QED BY <2>1 DEF KeyOn, IdOn
<1>7. SyncOK(y, x, p, kv, c, u, nsync[w])
  BY DEF SyncInv
<1>8. y.state \in {"syncing", "completed"}
  <2>1. y.sid > 0
    BY <1>1, <1>5, <1>7 DEF SyncOK, Drawn, EndAt
  <2>2. y.state \in {"none", "syncing", "completed"}
    BY <1>1 DEF Syncs
  <2> QED BY <2>1, <2>2 DEF Blank
<1>9. SyncOK(g, x, t, kv, c, u, nsync[w]) /\ Counts(g, x, t)
  <2>1. SyncOK(y, x, t, kv, c, u, nsync[w])
    BY TailFacts
  <2>2. g.sid \in {0, y.sid} /\ g.state # "syncing"
    BY <1>2
  <2> HIDE DEF y, g, kv, c, u, x, t
  <2> QED BY <1>1, <1>2, <2>1, <2>2, SyncNone
<1>10. "push" \notin mode.may => g.got = 0..g.count - 1
  <2>1. CASE y.state = "completed"
    BY <1>2, <2>1 DEF CountInv
  <2>2. ASSUME y.state = "syncing", "push" \notin mode.may PROVE y.got = 0..y.count - 1
    <3>1. \A b \in 0..y.count - 1 : b \in y.got
      BY <1>5, <1>6, <2>2 DEF CountInv, Counts
    <3>2. y.got \subseteq 0..y.count - 1
      BY <1>7, <2>2 DEF SyncOK, Open
    <3> QED BY <3>1, <3>2
  <2> QED BY <1>2, <1>8, <2>1, <2>2
<1>11. ASSUME up[w] = "up", NEW k \in Keys \ (dirty[w] \cup unsent[w]), ~Pending(opq[w], t, k)
       PROVE  k \in kv <=> k \in hot[w]
  <2>1. ~Pending(opq[w], p, k)
    BY <1>4, <1>11
  <2>2. CASE y.state = "completed"
    BY <1>11, <2>1, <2>2 DEF KeysInv, Syncing
  <2>3. CASE y.state = "syncing"
    <3>1. Live(y, x, p)
      BY <1>5, <2>3 DEF Live
    <3>2. k \in c <=> k \in hot[w]
      BY <1>11, <2>1, <3>1 DEF AgreeInv, Agrees
    <3>3. kv \subseteq c
      BY <1>7, <2>3 DEF SyncOK, Open
    <3>4. k \in c => k \in kv \cup u
      BY <1>5, <1>6, <1>7, <2>3 DEF SyncOK, Covers
    <3> QED BY <1>11, <3>2, <3>3, <3>4
  <2> QED BY <1>8, <2>2, <2>3
<1> HIDE DEF t
<1>12. push'[w] = t
  BY DEF t
<1>13. Blank(w)'
  BY <1>2, <1>4 DEF Blank, Registered
<1>14. SyncInv(w)' /\ CountInv(w)'
  BY <1>2, <1>3, <1>9, <1>10, <1>12 DEF SyncInv, CountInv
<1>15. AgreeInv(w)'
  BY <1>2, <1>12 DEF AgreeInv, Agrees, Live
<1>16. KeysInv(w)'
  BY <1>2, <1>3, <1>11, <1>12 DEF KeysInv
<1> QED BY <1>4, <1>13, <1>14, <1>15, <1>16

\* The deregistration of a worker arrives.
LEMMA DeregStep ==
    ASSUME Types, NEW w \in Workers, WorkerInv(w), push[w] # <<>>,
           push'[w] = Tail(push[w]), Head(push[w]).type = "dereg", node'[w] = NoNode,
           UNCHANGED <<mode, up, hot, storing, opq, seqno, snd, nsync, gap, history>>
    PROVE  WorkerInv(w)'
<1> USE DEF WorkerInv
<1> DEFINE p == push[w]
           t == Tail(p)
           x == snd[w]
           y == node[w].sync
           kv == node[w].kv
           c == copy[w]
           u == unsent[w]
<1>1. /\ p \in Seq(Messages) /\ y \in Syncs /\ x \in Senders
      /\ nsync[w] \in Nat /\ t \in Seq(Messages)
      /\ NoSync \in Syncs /\ NoSync.sid = 0 /\ NoSync.state = "none"
  BY LocalTypes, ConstantTypes
<1>2. /\ node'[w].sync = NoSync /\ node'[w].kv = {} /\ ~node'[w].reg
      /\ UNCHANGED <<unsent, copy, dirty, dropped>>
  BY ConstantTypes DEF history
<1>3. /\ up[w] # "new" /\ SyncOK(y, x, t, kv, c, u, nsync[w])
      /\ up[w] = "up" => Replays(opq[w], t, hot[w])
  BY TailFacts
<1>4. SyncOK(NoSync, x, t, {}, c, u, nsync[w]) /\ Counts(NoSync, x, t)
  <2>1. NoSync.sid \in {0, y.sid} /\ NoSync.state # "syncing"
    BY <1>1
  <2> HIDE DEF y, kv, c, u, x, t, WorkerInv
  <2> QED BY <1>1, <1>3, <2>1, SyncNone
<1>5. Runs(t) /\ \A n : Numbered(p, n) => Numbered(t, n)
  BY <1>1, SeqTail DEF SeqInv
<1> HIDE DEF t
<1>6. push'[w] = t
  BY DEF t
<1>7. Finite(w)' /\ Blank(w)' /\ OpsInv(w)'
  BY <1>1, <1>2, <1>3, <1>6 DEF Finite, Blank, OpsInv
<1>8. SyncInv(w)' /\ CountInv(w)'
  BY <1>1, <1>2, <1>4, <1>6 DEF SyncInv, CountInv
<1>9. AgreeInv(w)'
  BY <1>1, <1>2, <1>6 DEF AgreeInv, Agrees, Live
<1>10. KeysInv(w)'
  BY <1>2 DEF KeysInv, Registered
<1>11. SeqInv(w)'
  BY <1>2, <1>5, <1>6 DEF SeqInv, Registered
<1> QED BY <1>7, <1>8, <1>9, <1>10, <1>11

LEMMA HandleStep ==
    ASSUME Types, NEW w \in Workers, WorkerInv(w), HandleWorkerMessage(w)
    PROVE  WorkerInv(w)'
<1> DEFINE m == Head(push[w])
<1>1. /\ push[w] # <<>> /\ push' = [push EXCEPT ![w] = Tail(@)]
      /\ UNCHANGED <<mode, up, hot, storing, opq, seqno, snd, nsync>>
      /\ \/ m.type = "ops" /\ HandleOps(w, m)
         \/ m.type = "batch" /\ HandleFullSyncBatch(w, m)
         \/ m.type = "end" /\ HandleFullSyncEnd(w, m)
         \/ m.type = "dereg" /\ DeregisterNode(w) /\ UNCHANGED <<gap, history>>
  BY DEF HandleWorkerMessage, worker
<1>2. push'[w] = Tail(push[w])
  BY <1>1, HeadTypes
<1>3. CASE m.type = "ops" /\ HandleOps(w, m)
  <2>1. CASE Syncing(w) \/ ~Registered(w)
    <3>1. /\ dirty' = [dirty EXCEPT ![w] = DirtyAfter(w, m.ops, @)]
          /\ dropped' = [dropped EXCEPT ![w] = TRUE]
          /\ UNCHANGED <<node, gap, unsent, copy>>
      BY <1>3, <2>1 DEF HandleOps
    <3>2. dirty'[w] = DirtyAfter(w, m.ops, dirty[w]) /\ dropped'[w]
      BY <3>1 DEF Types, HistoryType
    <3> QED BY <1>1, <1>2, <1>3, <3>1, <3>2, DiscardStep
  <2>2. CASE ~Syncing(w) /\ Registered(w)
    BY <1>1, <1>2, <1>3, <2>2, ApplyStep
  <2> QED BY <2>1, <2>2
<1>4. CASE m.type = "batch" /\ HandleFullSyncBatch(w, m)
  <2>1. CASE Registered(w) /\ node[w].sync.sid = m.sid /\ Syncing(w)
    BY <1>1, <1>2, <1>4, <2>1, BatchStep
  <2>2. CASE ~(Registered(w) /\ node[w].sync.sid = m.sid /\ Syncing(w))
    <3>1. /\ unsent' = [unsent EXCEPT ![w] = @ \cup m.keys]
          /\ UNCHANGED <<node, gap, dirty, copy, dropped>>
      BY <1>4, <2>2 DEF HandleFullSyncBatch
    <3>2. unsent'[w] = unsent[w] \cup m.keys
      BY <3>1 DEF Types, HistoryType
    <3> QED BY <1>1, <1>2, <1>4, <2>2, <3>1, <3>2, IgnoreStep
  <2> QED BY <2>1, <2>2
<1>5. CASE m.type = "end" /\ HandleFullSyncEnd(w, m)
  <2>1. CASE Registered(w) /\ node[w].sync.sid = m.sid
    BY <1>1, <1>2, <1>5, <2>1, EndStep
  <2>2. CASE ~(Registered(w) /\ node[w].sync.sid = m.sid)
    <3>1. UNCHANGED <<node, gap, dirty, unsent, copy, dropped>>
      BY <1>5, <2>2 DEF HandleFullSyncEnd, history
    <3> QED BY <1>1, <1>2, <1>5, <3>1, IgnoreStep
  <2> QED BY <2>1, <2>2
<1>6. CASE m.type = "dereg" /\ DeregisterNode(w) /\ UNCHANGED <<gap, history>>
  <2>1. node'[w] = NoNode
    BY <1>6, LeaveNode
  <2> QED BY <1>1, <1>2, <1>6, <2>1, DeregStep
<1> QED BY <1>1, <1>3, <1>4, <1>5, <1>6

LEMMA LoseStep ==
    ASSUME Types, NEW w \in Workers, WorkerInv(w), LosePushed(w)
    PROVE  WorkerInv(w)'
<1> DEFINE m == Head(push[w])
<1>1. /\ push[w] # <<>> /\ push' = [push EXCEPT ![w] = Tail(@)] /\ "push" \in mode.may
      /\ dirty' = [dirty EXCEPT ![w] = IF m.type = "ops" THEN DirtyAfter(w, m.ops, @) ELSE @]
      /\ unsent' = [unsent EXCEPT ![w] = IF m.type = "batch" THEN @ \cup m.keys ELSE @]
      /\ dropped' = [dropped EXCEPT ![w] = @ \/ m.type = "ops"]
      /\ UNCHANGED <<mode, up, hot, storing, opq, seqno, snd, nsync, node, gap, copy>>
  BY DEF LosePushed, Fault, worker, registry
<1>2. push'[w] = Tail(push[w])
  BY <1>1, HeadTypes
<1> HIDE DEF m
<1>3. CASE m.type = "ops"
  <2>1. dirty'[w] = DirtyAfter(w, m.ops, dirty[w]) /\ dropped'[w] /\ m.type # "batch"
    BY <1>1, <1>3 DEF Types, HistoryType
  <2>2. unsent' = unsent
    BY <1>1, <1>3 DEF Types, HistoryType
  <2> QED BY <1>1, <1>2, <1>3, <2>1, <2>2, DiscardStep DEF m
<1>4. CASE m.type # "ops"
  <2>1. /\ dirty'[w] = dirty[w] /\ dropped'[w] = dropped[w]
        /\ unsent'[w] = (IF m.type = "batch" THEN unsent[w] \cup m.keys ELSE unsent[w])
    BY <1>1, <1>4 DEF Types, HistoryType
  <2> QED BY <1>1, <1>2, <1>4, <2>1, IgnoreStep DEF m
<1> QED BY <1>3, <1>4

-----------------------------------------------------------------------------
(* The theorem.                                                             *)

LEMMA InitInv ==
    ASSUME Init
    PROVE  RegistryInv
<1> USE DEF Init
<1>1. Types
  BY ConstantTypes DEF Types, WorkerType, SenderType, RegistryType, HistoryType
<1>2. ASSUME NEW w \in Workers PROVE WorkerInv(w)
  <2>1. /\ up[w] = "new" /\ hot[w] = {} /\ storing[w] = {} /\ snd[w] = Idle
        /\ opq[w] = <<>> /\ push[w] = <<>> /\ node[w] = NoNode /\ nsync[w] = 0
        /\ gap[w] = FALSE /\ dropped[w] = FALSE
    OBVIOUS
  <2>2. /\ NoNode.sync = NoSync /\ NoSync.sid = 0 /\ NoSync.state = "none" /\ NoNode.kv = {}
        /\ ~NoNode.reg /\ NoSync \in Syncs
    BY ConstantTypes
  <2>3. /\ Idle.sid = 0 /\ Idle.phase = "idle" /\ Idle.next = 0 /\ Idle.resend = <<>>
    BY DEF Idle
  <2>4. Finite(w) /\ Blank(w) /\ OpsInv(w)
    BY <2>1, <2>2, FS_EmptySet DEF Finite, Blank, OpsInv
  <2>5. SyncInv(w)
    <3>1. Drawn(NoSync, Idle, <<>>, 0)
      BY <2>2, <2>3, EmptyPipe DEF Drawn
    <3>2. Progress(Idle, <<>>)
      BY <2>3, EmptyPipe DEF Progress
    <3>3. Open(NoSync, Idle, <<>>, {}, copy[w]) /\ Covers(NoSync, Idle, <<>>, {}, copy[w], unsent[w])
      BY <2>2 DEF Open, Covers
    <3> QED BY <2>1, <2>2, <3>1, <3>2, <3>3 DEF SyncInv, SyncOK
  <2>6. CountInv(w)
    BY <2>1, <2>2 DEF CountInv, Counts
  <2>7. AgreeInv(w) /\ KeysInv(w)
    BY <2>1 DEF AgreeInv, KeysInv
  <2>8. SeqInv(w)
    BY <2>1, EmptyPipe DEF SeqInv
  <2> QED BY <2>4, <2>5, <2>6, <2>7, <2>8 DEF WorkerInv
<1> QED BY <1>1, <1>2 DEF RegistryInv

\* Every step of one worker, of its messages and requests keeps its part.
LEMMA OwnStep ==
    ASSUME Types, NEW w \in Workers, WorkerInv(w), WorkerStep(w)
    PROVE  Types' /\ WorkerInv(w)'
<1>1. IsFiniteSet(hot[w]) /\ OpsInv(w) /\ SyncInv(w) /\ SeqInv(w)
  BY DEF WorkerInv, Finite
<1>2. ASSUME NEW k \in Keys, StoreBegin(w, k) \/ StorePut(w, k) \/ Evict(w, k)
      PROVE  Types' /\ WorkerInv(w)'
  BY <1>2, StoreTypes, BeginStep, PutStep, EvictStep
<1>3. CASE DrainAndSend(w)
  BY <1>3, DrainTypes, DrainStep
<1>4. CASE Register(w)
  BY <1>4, RegisterStepTypes, RegisterStep
<1>5. CASE Heartbeat(w) \/ HeartbeatLost(w)
  BY <1>5, RegisterStepTypes, HeartbeatStep
<1>6. CASE HealthCheck(w)
  BY <1>6, LeaveTypes, HealthStep
<1>7. CASE Close(w)
  BY <1>7, LeaveTypes, CloseStep
<1>8. CASE Freeze(w)
  BY <1>1, <1>8, FreezeTypes, FreezeStep
<1>9. CASE SendSyncStart(w)
  BY <1>1, <1>9, StartTypes, StartStep
<1>10. CASE SendKeyBatches(w) \/ ResendMissing(w)
  BY <1>1, <1>10, SendTypesKept, SendStep
<1>11. CASE PollForCompletion(w)
  BY <1>1, <1>11, PollTypes, PollStep
<1>12. CASE HandleWorkerMessage(w)
  BY <1>1, <1>12, HandleTypes, HandleStep
<1>13. CASE LosePushed(w)
  BY <1>13, LoseTypes, LoseStep
<1>14. CASE RestartWorker(w)
  BY <1>14, LeaveTypes, RestartStep
<1>15. CASE HandleClear(w)
  BY <1>1, <1>15, ClearTypes, ClearStep
<1> QED BY <1>2, <1>3, <1>4, <1>5, <1>6, <1>7, <1>8, <1>9, <1>10, <1>11, <1>12, <1>13,
           <1>14, <1>15 DEF WorkerStep, SenderStep

LEMMA NextInv ==
    ASSUME RegistryInv, [Next]_vars
    PROVE  RegistryInv'
<1> USE DEF RegistryInv
<1>1. ASSUME NEW w \in Workers, WorkerStep(w) PROVE RegistryInv'
  <2>1. Types' /\ WorkerInv(w)'
    BY <1>1, OwnStep
  <2>2. ASSUME NEW v \in Workers \ {w} PROVE WorkerInv(v)'
    BY <1>1, <2>2, Others, Frame
  <2> QED BY <2>1, <2>2
<1>2. CASE RestartController
  <2>1. ASSUME NEW w \in Workers PROVE WorkerInv(w)'
    BY <1>2, <2>1, ControllerStep
  <2>2. CASE Workers = {}
    <3>1. WorkerType' /\ SenderType' /\ UNCHANGED <<unsent, copy, dropped>>
      BY <1>2 DEF RestartController, worker, sender, Types, WorkerType, SenderType
    <3>2. RegistryType' /\ dirty' \in [Workers -> SUBSET Keys]
      BY <1>2, ConstantTypes DEF RestartController, RegistryType
    <3> QED BY <2>1, <3>1, <3>2 DEF Types, HistoryType
  <2>3. CASE \E w \in Workers : TRUE
    BY <1>2, <2>1, <2>3, LeaveTypes
  <2> QED BY <2>2, <2>3
<1>3. ASSUME ExecClear \/ UNCHANGED vars PROVE RegistryInv'
  <2>1. UNCHANGED <<mode, worker, sender, registry, history>>
    BY <1>3 DEF ExecClear, vars
  <2>2. ASSUME NEW v \in Workers PROVE WorkerInv(v)'
    BY <2>1, Frame DEF Same, worker, sender, registry, history
  <2>3. Types'
    BY <2>1 DEF Types, WorkerType, SenderType, RegistryType, HistoryType, worker, sender,
                registry, history
  <2> QED BY <2>2, <2>3
<1>4. CASE Next
  BY <1>1, <1>2, <1>3, <1>4 DEF Next, WorkerStep
<1> QED BY <1>3, <1>4

\* What the keys of a node agree on is what a lookup finds.
LEMMA LookupFinds ==
    ASSUME NEW w \in Workers, NEW S, \A k \in S : k \in node[w].kv <=> k \in hot[w],
           Registered(w), NEW hashes \in SeqOf(S, 2)
    PROVE  LET n == NumHitChunks(hashes, w)
           IN  /\ \A i \in 1..n : hashes[i] \in hot[w]
               /\ n < Len(hashes) => hashes[n + 1] \notin hot[w]
               /\ hashes # <<>> => (w \in FindKv(hashes[1], 0) <=> hashes[1] \in hot[w])
<1> DEFINE kv == node[w].kv
           P(n) == /\ \A i \in 1..n : hashes[i] \in kv
                   /\ n < Len(hashes) => hashes[n + 1] \notin kv
<1>1. PICK l \in 0..2 : hashes \in [1..l -> S]
  BY DEF SeqOf
<1>2. Len(hashes) = l
  BY <1>1
<1>3. \E n \in 0..l : P(n)
  <2>1. CASE l = 0 \/ (l >= 1 /\ hashes[1] \notin kv)
    <3>1. P(0) /\ 0 \in 0..l
      BY <1>1, <1>2, <2>1
    <3> QED BY <3>1
  <2>2. CASE (l = 1 \/ (l = 2 /\ hashes[2] \notin kv)) /\ hashes[1] \in kv
    <3>1. P(1) /\ 1 \in 0..l
      BY <1>1, <1>2, <2>2
    <3> QED BY <3>1
  <2>3. CASE l = 2 /\ hashes[1] \in kv /\ hashes[2] \in kv
    <3>1. P(2) /\ 2 \in 0..l
      BY <1>1, <1>2, <2>3
    <3> QED BY <3>1
  <2> QED BY <1>1, <2>1, <2>2, <2>3
<1> DEFINE n == NumHitChunks(hashes, w)
<1>4. n \in 0..l /\ P(n)
  BY <1>2, <1>3 DEF NumHitChunks
<1> HIDE DEF n
<1>5. \A i \in 1..n : i \in 1..l /\ hashes[i] \in S
  BY <1>1, <1>4
<1>6. n < l => n + 1 \in 1..l /\ hashes[n + 1] \in S
  BY <1>1, <1>4
<1>7. hashes # <<>> => (w \in FindKv(hashes[1], 0) <=> hashes[1] \in hot[w])
  <2>1. hashes # <<>> => 1 \in 1..l
    BY <1>1
  <2>2. hashes # <<>> => hashes[1] \in S
    BY <1>1, <2>1
  <2> QED BY <2>2, NobodyAssumption DEF FindKv
<1> QED BY <1>2, <1>4, <1>5, <1>6, <1>7 DEF n

LEMMA InvSafe ==
    ASSUME RegistryInv
    PROVE  RegistryRight
<1> USE DEF RegistryInv
<1>1. TypeOK
  BY LocalTypes DEF TypeOK, Types, WorkerType, HistoryType
<1>2. CompletedHasAll
  BY DEF CompletedHasAll, WorkerInv, CountInv
<1>3. GapMeansDrop
  BY DEF GapMeansDrop, WorkerInv, SeqInv
<1>4. ConvergedWhenQuiet
  <2>1. SUFFICES ASSUME NEW w \in Workers, Quiet(w),
                        NEW hashes \in SeqOf(Keys \ (dirty[w] \cup unsent[w]), 2)
                 PROVE  LET n == NumHitChunks(hashes, w)
                        IN  /\ \A i \in 1..n : hashes[i] \in hot[w]
                            /\ n < Len(hashes) => hashes[n + 1] \notin hot[w]
                            /\ hashes # <<>> =>
                                  (w \in FindKv(hashes[1], 0) <=> hashes[1] \in hot[w])
    BY DEF ConvergedWhenQuiet
  <2>2. up[w] = "up" /\ Registered(w) /\ ~Syncing(w) /\ opq[w] = <<>> /\ push[w] = <<>>
    BY <2>1 DEF Quiet
  <2> DEFINE S == Keys \ (dirty[w] \cup unsent[w])
  <2>3. \A k \in S : k \in node[w].kv <=> k \in hot[w]
    BY <2>2, EmptyPipe DEF WorkerInv, KeysInv
  <2> HIDE DEF S
  <2> QED BY <2>1, <2>2, <2>3, LookupFinds DEF S
<1> QED BY <1>1, <1>2, <1>3, <1>4 DEF RegistryRight

\* The registry of the controller converges to the workers' own state, a full
\* sync it counts as completed is complete, and a gap it counts was a loss.
THEOREM RegistrySafe == Spec => []RegistryRight
<1>1. Init => RegistryInv
  BY InitInv
<1>2. RegistryInv /\ [Next]_vars => RegistryInv'
  BY NextInv
<1>3. RegistryInv => RegistryRight
  BY InvSafe
<1> QED BY <1>1, <1>2, <1>3, PTL DEF Spec
=============================================================================
