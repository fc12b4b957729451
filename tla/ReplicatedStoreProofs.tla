------------------------ MODULE ReplicatedStoreProofs ------------------------
(***************************************************************************)
(* Proofs about ReplicatedStore, for every number of servers and clients,  *)
(* all requests, batch sizes, Null slots and storage modes.                *)
(*                                                                         *)
(* First what the recursive operators of KeyValue compute for all          *)
(* arguments: the store after a sequence of commands, the requests of one  *)
(* client, the commands of a sequence of requests.  Induction is over a    *)
(* set: a set of numbers that has 0 and the successor of each of its       *)
(* members has every number, since the naturals are well founded.  From it *)
(* follows that a recursive function is defined, and so what it is for one *)
(* element more.                                                           *)
(*                                                                         *)
(* Then the invariant: what a proxy took of a client is in its objects and *)
(* its batch, the log has the first objects of each proxy, each once, and  *)
(* a store and the replies are what the executed slots make them.          *)
(***************************************************************************)
EXTENDS ReplicatedStore, WellFoundedInduction, SequenceTheorems, TLAPS

(* Induction on the naturals, for a set instead of a predicate.              *)
LEMMA SetInduction ==
    ASSUME NEW S, 0 \in S, \A n \in Nat : n \in S => n + 1 \in S
    PROVE  \A n \in Nat : n \in S
<1>1. SUFFICES ASSUME Nat \ S # {} PROVE FALSE
  OBVIOUS
<1>2. PICK x \in Nat \ S : \A y \in Nat \ S : ~(<<y, x>> \in OpToRel(<, Nat))
  <2>1. Nat \ S \subseteq Nat
    OBVIOUS
  <2> QED BY <1>1, <2>1, NatLessThanWellFounded, WFMin
<1>3. x # 0 /\ x - 1 \in Nat /\ x - 1 \notin S
  OBVIOUS
<1>4. <<x - 1, x>> \in OpToRel(<, Nat)
  BY <1>3 DEF OpToRel
<1> QED BY <1>2, <1>3, <1>4

(* Induction on the length of a sequence.                                    *)
LEMMA SeqInduction ==
    ASSUME NEW T, NEW S, << >> \in S,
           \A s \in Seq(T) : \A x \in T : s \in S => Append(s, x) \in S
    PROVE  \A s \in Seq(T) : s \in S
<1> DEFINE L == {n \in Nat : \A s \in Seq(T) : Len(s) = n => s \in S}
<1>1. 0 \in L
  OBVIOUS
<1>2. ASSUME NEW n \in Nat, n \in L PROVE n + 1 \in L
  <2>1. SUFFICES ASSUME NEW s \in Seq(T), Len(s) = n + 1 PROVE s \in S
    OBVIOUS
  <2>2. PICK t \in Seq(T), x \in T : s = Append(t, x)
    BY <2>1, SequenceEmptyOrAppend
  <2>3. Len(t) = n
    BY <2>1, <2>2
  <2> QED BY <1>2, <2>2, <2>3
<1>3. \A n \in Nat : n \in L
  <2> HIDE DEF L
  <2> QED BY <1>1, <1>2, SetInduction
<1> QED BY <1>3

(* Sequences over T, named so that a proof takes them as they are; sequences *)
(* of those.                                                                 *)
SeqT(T) == Seq(T)
SeqSeqT(T) == Seq(Seq(T))

(* The elements of two sequences, one after the other.                       *)
LEMMA ConcatParts ==
    ASSUME NEW T, NEW s \in SeqT(T), NEW t \in SeqT(T)
    PROVE  /\ s \o t \in SeqT(T) /\ Len(s \o t) = Len(s) + Len(t)
           /\ \A i \in 1 .. Len(s) : (s \o t)[i] = s[i]
           /\ \A i \in Len(s) + 1 .. Len(s) + Len(t) : (s \o t)[i] = t[i - Len(s)]
BY DEF SeqT

(* A function that is a sequence and one element more.                       *)
OneMore(w, s, x) ==
    /\ w = [i \in 1 .. Len(s) + 1 |-> w[i]]
    /\ \A i \in 1 .. Len(s) : w[i] = s[i]
    /\ w[Len(s) + 1] = x

(* It is what Append makes.                                                  *)
LEMMA AppendIs ==
    ASSUME NEW T, NEW s \in SeqT(T), NEW x \in T, NEW w, OneMore(w, s, x)
    PROVE  Append(s, x) = w
<1>1. /\ Append(s, x) \in Seq(T) /\ Len(Append(s, x)) = Len(s) + 1 /\ Len(s) \in Nat
      /\ \A i \in 1 .. Len(s) : Append(s, x)[i] = s[i]
      /\ Append(s, x)[Len(s) + 1] = x
  BY DEF SeqT
<1>0. /\ w = [i \in 1 .. Len(s) + 1 |-> w[i]]
      /\ \A i \in 1 .. Len(s) : w[i] = s[i]
      /\ w[Len(s) + 1] = x
  BY DEF OneMore
<1>2. \A i \in 1 .. Len(s) + 1 : w[i] \in T /\ w[i] = Append(s, x)[i]
  <2> TAKE i \in 1 .. Len(s) + 1
  <2>1. CASE i = Len(s) + 1
    BY <1>0, <1>1, <2>1
  <2>2. CASE i # Len(s) + 1
    <3>1. i \in 1 .. Len(s)
      BY <1>1, <2>2
    <3>2. s[i] \in T
      BY <3>1 DEF SeqT
    <3> QED BY <1>0, <1>1, <3>1, <3>2
  <2> QED BY <2>1, <2>2
<1>3. w \in Seq(T) /\ Len(w) = Len(s) + 1
  BY <1>0, <1>1, <1>2
<1> QED BY <1>1, <1>2, <1>3, SeqEqual

(* To append to the second of two sequences is to append to both.            *)
LEMMA ConcatAppend ==
    ASSUME NEW T, NEW s \in Seq(T), NEW t \in Seq(T), NEW x
    PROVE  s \o Append(t, x) = Append(s \o t, x)
OBVIOUS

(* Values computed one after the other from a first one: G is the step.       *)
StepFcn(V, N) == [V \X (1 .. N) -> V]
Chain(f, V, a, N, G) ==
    f \in [0 .. N -> V] /\ f[0] = a /\ \A n \in 1 .. N : f[n] = G[<<f[n - 1], n>>]

(* There is a function that makes every step of a recursion up to N.         *)
LEMMA RecursionExists ==
    ASSUME NEW V, NEW a \in V, NEW N \in Nat, NEW G \in StepFcn(V, N)
    PROVE  \E f : Chain(f, V, a, N, G)
<1> DEFINE Upto(m) == \E f \in [0 .. m -> V] :
               f[0] = a /\ \A n \in 1 .. m : f[n] = G[<<f[n - 1], n>>]
           S == {m \in Nat : m <= N => Upto(m)}
<1>0. G \in [V \X (1 .. N) -> V]
  BY DEF StepFcn
<1>1. 0 \in S
  <2> DEFINE f == [n \in 0 .. 0 |-> a]
  <2>1. f \in [0 .. 0 -> V] /\ f[0] = a /\ \A n \in 1 .. 0 : f[n] = G[<<f[n - 1], n>>]
    OBVIOUS
  <2>2. Upto(0)
    <3> HIDE DEF f
    <3> QED BY <2>1
  <2> QED BY <2>2
<1>2. ASSUME NEW m \in Nat, m \in S PROVE m + 1 \in S
  <2>1. SUFFICES ASSUME m + 1 <= N PROVE Upto(m + 1)
    OBVIOUS
  <2>2. PICK f \in [0 .. m -> V] :
               f[0] = a /\ \A n \in 1 .. m : f[n] = G[<<f[n - 1], n>>]
    BY <1>2, <2>1
  <2> DEFINE y == G[<<f[m], m + 1>>]
             g == [n \in 0 .. m + 1 |-> IF n = m + 1 THEN y ELSE f[n]]
  <2>3. y \in V
    BY <1>0, <2>1
  <2>4. g \in [0 .. m + 1 -> V]
    BY <2>3
  <2>5. g[0] = a
    BY <2>2
  <2>6. \A n \in 1 .. m + 1 : g[n] = G[<<g[n - 1], n>>]
    <3>1. TAKE n \in 1 .. m + 1
    <3>2. g[n - 1] = f[n - 1]
      OBVIOUS
    <3>3. CASE n = m + 1
      <4>1. g[n] = y /\ n - 1 = m
        BY <3>3
      <4> QED BY <3>2, <3>3, <4>1
    <3>4. CASE n # m + 1
      BY <2>2, <3>2, <3>4
    <3> QED BY <3>3, <3>4
  <2> HIDE DEF g
  <2> QED BY <2>4, <2>5, <2>6
<1>3. \A m \in Nat : m \in S
  <2> HIDE DEF S
  <2> QED BY <1>1, <1>2, SetInduction
<1>4. Upto(N)
  <2> HIDE DEF Upto
  <2> QED BY <1>3
<1> QED BY <1>4 DEF Chain

(* Two functions that take the same step at every number agree.              *)
Alike(f, g, N) ==
    f[0] = g[0] /\ \A n \in 1 .. N : f[n - 1] = g[n - 1] => f[n] = g[n]

(* Two functions that start alike and go on alike are the same.              *)
LEMMA SameSteps ==
    ASSUME NEW N \in Nat, NEW f, NEW g, Alike(f, g, N)
    PROVE  \A n \in 0 .. N : f[n] = g[n]
<1> DEFINE S == {n \in Nat : n <= N => f[n] = g[n]}
<1>1. 0 \in S
  BY DEF Alike
<1>2. ASSUME NEW n \in Nat, n \in S PROVE n + 1 \in S
  <2>1. SUFFICES ASSUME n + 1 <= N PROVE f[n + 1] = g[n + 1]
    OBVIOUS
  <2>2. n + 1 \in 1 .. N /\ (n + 1) - 1 = n /\ f[n] = g[n]
    BY <1>2, <2>1
  <2> QED BY <2>2 DEF Alike
<1>3. \A n \in Nat : n \in S
  <2> HIDE DEF S
  <2> QED BY <1>1, <1>2, SetInduction
<1> QED BY <1>3

-----------------------------------------------------------------------------
(* After: commands executed one after the other.                             *)

KVStore == [Key -> Value \cup {Missing}]

(* A command leaves a store a store.                                         *)
LEMMA WriteType ==
    ASSUME NEW kv \in KVStore, NEW cmd \in Command
    PROVE  Write(kv, cmd) \in KVStore
BY DEF Write, KVStore, Command

(* The stores between the commands.                                          *)
LEMMA AfterSteps ==
    ASSUME NEW kv \in KVStore, NEW cmds \in Seq(Command)
    PROVE  \E f \in [0 .. Len(cmds) -> KVStore] :
               /\ f[0] = kv
               /\ \A n \in 1 .. Len(cmds) : f[n] = Write(f[n - 1], cmds[n])
               /\ After(kv, cmds) = f[Len(cmds)]
<1> DEFINE N == Len(cmds)
           Eqn(f) == f = [n \in 0 .. N |-> IF n = 0 THEN kv ELSE Write(f[n - 1], cmds[n])]
           G == [p \in KVStore \X (1 .. N) |-> Write(p[1], cmds[p[2]])]
           kvs == CHOOSE f : Eqn(f)
<1>1. N \in Nat
  OBVIOUS
<1>2. G \in StepFcn(KVStore, N)
  BY WriteType DEF StepFcn
<1>3. PICK f : Chain(f, KVStore, kv, N, G)
  <2> HIDE DEF G, N, Eqn, kvs
  <2> QED BY <1>1, <1>2, RecursionExists
<1>4. f \in [0 .. N -> KVStore] /\ f[0] = kv
  BY <1>3 DEF Chain
<1>5. \A n \in 1 .. N : f[n] = Write(f[n - 1], cmds[n])
  BY <1>3 DEF Chain
<1>6. Eqn(f)
  <2> HIDE DEF G
  <2> QED BY <1>4, <1>5
<1>7. Eqn(kvs)
  <2> HIDE DEF Eqn
  <2> QED BY <1>6
<1>8. kvs[0] = kv /\ \A n \in 1 .. N : kvs[n] = Write(kvs[n - 1], cmds[n])
  <2> HIDE DEF kvs
  <2> QED BY <1>7, <1>1
<1>9. \A n \in 0 .. N : kvs[n] = f[n]
  <2> HIDE DEF kvs, G, N, Eqn
  <2>1. Alike(kvs, f, N)
    BY <1>4, <1>5, <1>8 DEF Alike
  <2> QED BY <1>1, <2>1, SameSteps
<1>10. After(kv, cmds) = kvs[N]
  BY DEF After
<1>11. After(kv, cmds) = f[N]
  <2> HIDE DEF kvs, N, Eqn, G
  <2> QED BY <1>1, <1>9, <1>10
<1> HIDE DEF kvs, Eqn, G
<1> QED BY <1>4, <1>5, <1>11

(* No command leaves the store as it is.                                     *)
LEMMA AfterEmpty ==
    ASSUME NEW kv \in KVStore
    PROVE  After(kv, << >>) = kv
<1>1. PICK f \in [0 .. Len(<< >>) -> KVStore] : f[0] = kv /\ After(kv, << >>) = f[Len(<< >>)]
  <2>1. << >> \in Seq(Command)
    OBVIOUS
  <2> QED BY <2>1, AfterSteps
<1> QED BY <1>1

(* The store after commands is a store.                                      *)
LEMMA AfterType ==
    ASSUME NEW kv \in KVStore, NEW cmds \in Seq(Command)
    PROVE  After(kv, cmds) \in KVStore
<1>1. PICK f \in [0 .. Len(cmds) -> KVStore] : After(kv, cmds) = f[Len(cmds)]
  BY AfterSteps
<1> QED BY <1>1

(* The store after one command more.                                         *)
LEMMA AfterAppend ==
    ASSUME NEW kv \in KVStore, NEW cmds \in Seq(Command), NEW cmd \in Command
    PROVE  After(kv, Append(cmds, cmd)) = Write(After(kv, cmds), cmd)
<1> DEFINE N == Len(cmds)
           more == Append(cmds, cmd)
<1>1. N \in Nat /\ more \in Seq(Command) /\ Len(more) = N + 1
         /\ more[N + 1] = cmd /\ \A n \in 1 .. N : more[n] = cmds[n]
  OBVIOUS
<1> HIDE DEF more
<1>2. PICK f \in [0 .. N -> KVStore] :
               /\ f[0] = kv
               /\ \A n \in 1 .. N : f[n] = Write(f[n - 1], cmds[n])
               /\ After(kv, cmds) = f[N]
  BY AfterSteps
<1>3. PICK g \in [0 .. N + 1 -> KVStore] :
               /\ g[0] = kv
               /\ \A n \in 1 .. N + 1 : g[n] = Write(g[n - 1], more[n])
               /\ After(kv, more) = g[N + 1]
  <2>1. \E g \in [0 .. Len(more) -> KVStore] :
               /\ g[0] = kv
               /\ \A n \in 1 .. Len(more) : g[n] = Write(g[n - 1], more[n])
               /\ After(kv, more) = g[Len(more)]
    BY <1>1, AfterSteps
  <2> QED BY <1>1, <2>1
<1> HIDE DEF N
<1>4. Alike(f, g, N)
  BY <1>1, <1>2, <1>3 DEF Alike
<1>5. f[N] = g[N]
  BY <1>1, <1>4, SameSteps
<1>6. g[N + 1] = Write(g[N], cmd)
  BY <1>1, <1>3
<1>7. After(kv, more) = Write(After(kv, cmds), cmd)
  BY <1>2, <1>3, <1>5, <1>6
<1> QED BY <1>7 DEF more

(* Commands executed in two parts.                                           *)
LEMMA AfterConcat ==
    ASSUME NEW kv \in KVStore, NEW first \in Seq(Command)
    PROVE  \A rest \in Seq(Command) :
               After(kv, first \o rest) = After(After(kv, first), rest)
<1> DEFINE S == {rest \in Seq(Command) :
                    After(kv, first \o rest) = After(After(kv, first), rest)}
<1>1. << >> \in S
  BY AfterEmpty, AfterType, ConcatEmptySeq
<1>2. ASSUME NEW rest \in Seq(Command), NEW cmd \in Command, rest \in S
      PROVE  Append(rest, cmd) \in S
  <2>1. first \o Append(rest, cmd) = Append(first \o rest, cmd)
    OBVIOUS
  <2>2. After(kv, Append(first \o rest, cmd)) = Write(After(kv, first \o rest), cmd)
    <3>1. first \o rest \in Seq(Command)
      OBVIOUS
    <3> QED BY <3>1, AfterAppend
  <2>3. After(After(kv, first), Append(rest, cmd)) =
            Write(After(After(kv, first), rest), cmd)
    BY AfterAppend, AfterType
  <2>4. Append(rest, cmd) \in Seq(Command)
    OBVIOUS
  <2> QED BY <1>2, <2>1, <2>2, <2>3, <2>4
<1>3. \A rest \in Seq(Command) : rest \in S
  <2> HIDE DEF S
  <2> QED BY <1>1, <1>2, SeqInduction
<1> QED BY <1>3

-----------------------------------------------------------------------------
(* PlacesOf and Of: the requests of one client.                              *)

(* The requests that the clients make.                                       *)
ReqName == {r \in [cli : Client, seq : Nat] : r.seq < Len(Requests[r.cli])}

(* Places in a sequence, and sequences of requests.                          *)
PlaceSeq == Seq(Nat)
ReqSeq == Seq(ReqName)

(* The places of the requests of a client, request after request.            *)
LEMMA PlacesSteps ==
    ASSUME NEW c, NEW reqs \in Seq(ReqName)
    PROVE  \E f \in [0 .. Len(reqs) -> PlaceSeq] :
               /\ f[0] = << >>
               /\ \A n \in 1 .. Len(reqs) :
                     f[n] = AddPlace(f[n - 1], c, reqs[n], n)
               /\ PlacesOf(c, reqs) = f[Len(reqs)]
<1> DEFINE N == Len(reqs)
           Eqn(f) == f = [n \in 0 .. N |-> IF n = 0 THEN << >>
                                         ELSE AddPlace(f[n - 1], c, reqs[n], n)]
           G == [p \in PlaceSeq \X (1 .. N) |-> AddPlace(p[1], c, reqs[p[2]], p[2])]
           at == CHOOSE f : Eqn(f)
<1>1. N \in Nat /\ << >> \in PlaceSeq
  BY DEF PlaceSeq
<1>2. G \in StepFcn(PlaceSeq, N)
  <2>1. \A p \in PlaceSeq, n \in 1 .. N : AddPlace(p, c, reqs[n], n) \in PlaceSeq
    BY DEF AddPlace, PlaceSeq
  <2> QED BY <2>1 DEF StepFcn
<1>3. PICK f : Chain(f, PlaceSeq, << >>, N, G)
  <2> HIDE DEF G, N, Eqn, at
  <2> QED BY <1>1, <1>2, RecursionExists
<1>4. f \in [0 .. N -> PlaceSeq] /\ f[0] = << >>
  BY <1>3 DEF Chain
<1>5. ASSUME NEW n \in 1 .. N PROVE f[n] = AddPlace(f[n - 1], c, reqs[n], n)
  <2>1. f[n] = G[<<f[n - 1], n>>]
    <3> HIDE DEF G
    <3> QED BY <1>3 DEF Chain
  <2>2. f[n - 1] \in PlaceSeq
    BY <1>1, <1>4
  <2> HIDE DEF N
  <2>3. <<f[n - 1], n>> \in PlaceSeq \X (1 .. N)
    BY <2>2
  <2>4. G[<<f[n - 1], n>>] = AddPlace(f[n - 1], c, reqs[n], n)
    BY <2>3
  <2> QED BY <2>1, <2>4
<1>6. Eqn(f)
  <2> HIDE DEF G
  <2> QED BY <1>4, <1>5
<1>7. Eqn(at)
  <2> HIDE DEF Eqn
  <2> QED BY <1>6
<1>8. at[0] = << >> /\ \A n \in 1 .. N : at[n] = AddPlace(at[n - 1], c, reqs[n], n)
  <2> HIDE DEF at
  <2> QED BY <1>7, <1>1
<1>9. \A n \in 0 .. N : at[n] = f[n]
  <2> HIDE DEF at, G, N, Eqn
  <2>1. Alike(at, f, N)
    BY <1>4, <1>5, <1>8 DEF Alike
  <2> QED BY <1>1, <2>1, SameSteps
<1>10. PlacesOf(c, reqs) = at[N]
  BY DEF PlacesOf
<1>11. PlacesOf(c, reqs) = f[N]
  <2> HIDE DEF at, N, Eqn, G
  <2> QED BY <1>1, <1>9, <1>10
<1> HIDE DEF at, Eqn, G
<1> QED BY <1>4, <1>5, <1>11

(* There is no place in the empty sequence.                                  *)
LEMMA PlacesEmpty ==
    ASSUME NEW c
    PROVE  PlacesOf(c, << >>) = << >>
<1>1. PICK f \in [0 .. Len(<< >>) -> PlaceSeq] :
          f[0] = << >> /\ PlacesOf(c, << >>) = f[Len(<< >>)]
  <2>1. << >> \in Seq(ReqName)
    OBVIOUS
  <2> QED BY <2>1, PlacesSteps
<1> QED BY <1>1

(* One request more is one place more, if it is of the client.               *)
LEMMA PlacesAppend ==
    ASSUME NEW c, NEW reqs \in Seq(ReqName), NEW r \in ReqName
    PROVE  PlacesOf(c, Append(reqs, r)) =
               AddPlace(PlacesOf(c, reqs), c, r, Len(reqs) + 1)
<1> DEFINE N == Len(reqs)
           more == Append(reqs, r)
<1>1. N \in Nat /\ more \in Seq(ReqName) /\ Len(more) = N + 1
         /\ more[N + 1] = r /\ \A n \in 1 .. N : more[n] = reqs[n]
  OBVIOUS
<1> HIDE DEF more
<1>2. PICK f \in [0 .. N -> PlaceSeq] :
          /\ f[0] = << >>
          /\ \A n \in 1 .. N :
                f[n] = AddPlace(f[n - 1], c, reqs[n], n)
          /\ PlacesOf(c, reqs) = f[N]
  BY PlacesSteps
<1>3. PICK g \in [0 .. N + 1 -> PlaceSeq] :
          /\ g[0] = << >>
          /\ \A n \in 1 .. N + 1 :
                g[n] = AddPlace(g[n - 1], c, more[n], n)
          /\ PlacesOf(c, more) = g[N + 1]
  <2>1. \E g \in [0 .. Len(more) -> PlaceSeq] :
          /\ g[0] = << >>
          /\ \A n \in 1 .. Len(more) :
                g[n] = AddPlace(g[n - 1], c, more[n], n)
          /\ PlacesOf(c, more) = g[Len(more)]
    BY <1>1, PlacesSteps
  <2> QED BY <1>1, <2>1
<1> HIDE DEF N
<1>4. Alike(f, g, N)
  BY <1>1, <1>2, <1>3 DEF Alike
<1>5. f[N] = g[N]
  <2>1. \A n \in 0 .. N : f[n] = g[n]
    BY <1>1, <1>4, SameSteps
  <2>2. N \in 0 .. N
    BY <1>1
  <2> QED BY <2>1, <2>2
<1>6. g[N + 1] = AddPlace(g[N], c, r, N + 1)
  <2>1. N + 1 \in 1 .. N + 1 /\ (N + 1) - 1 = N
    BY <1>1
  <2>2. g[N + 1] = AddPlace(g[(N + 1) - 1], c, more[N + 1], N + 1)
    BY <1>3, <2>1
  <2> QED BY <1>1, <2>1, <2>2
<1>7. PlacesOf(c, more) = AddPlace(PlacesOf(c, reqs), c, r, N + 1)
  BY <1>2, <1>3, <1>5, <1>6
<1> QED BY <1>7 DEF more, N

(* The places are those of the requests of c, and no other.                  *)
LEMMA PlacesExact ==
    ASSUME NEW c
    PROVE  \A reqs \in ReqSeq :
               /\ PlacesOf(c, reqs) \in Seq(Nat)
               /\ \A i \in 1 .. Len(PlacesOf(c, reqs)) :
                     /\ PlacesOf(c, reqs)[i] \in 1 .. Len(reqs)
                     /\ reqs[PlacesOf(c, reqs)[i]].cli = c
               /\ \A j \in 1 .. Len(reqs) : reqs[j].cli = c =>
                     \E i \in 1 .. Len(PlacesOf(c, reqs)) : PlacesOf(c, reqs)[i] = j
<1> DEFINE Exact(reqs, p) ==
               /\ p \in Seq(Nat)
               /\ \A i \in 1 .. Len(p) : p[i] \in 1 .. Len(reqs) /\ reqs[p[i]].cli = c
               /\ \A j \in 1 .. Len(reqs) : reqs[j].cli = c => \E i \in 1 .. Len(p) : p[i] = j
           S == {reqs \in Seq(ReqName) : Exact(reqs, PlacesOf(c, reqs))}
<1>1. << >> \in S
  <2>1. Exact(<< >>, << >>)
    OBVIOUS
  <2> HIDE DEF Exact
  <2> QED BY <2>1, PlacesEmpty
<1>2. ASSUME NEW reqs \in Seq(ReqName), NEW r \in ReqName, reqs \in S
      PROVE  Append(reqs, r) \in S
  <2> DEFINE N == Len(reqs)
             more == Append(reqs, r)
             p == PlacesOf(c, reqs)
  <2>1. N \in Nat /\ more \in Seq(ReqName) /\ Len(more) = N + 1
           /\ more[N + 1] = r /\ \A n \in 1 .. N : more[n] = reqs[n]
    OBVIOUS
  <2>2. PlacesOf(c, more) = AddPlace(p, c, r, N + 1)
    BY PlacesAppend
  <2>3. Exact(reqs, p)
    BY <1>2
  <2> HIDE DEF more, p, N
  <2>4. N = Len(reqs)
    BY DEF N
  <2>5. CASE r.cli = c
    <3> DEFINE q == Append(p, N + 1)
    <3>1. PlacesOf(c, more) = q
      BY <2>2, <2>5 DEF AddPlace
    <3>2. q \in Seq(Nat) /\ Len(p) \in Nat /\ Len(q) = Len(p) + 1 /\ q[Len(p) + 1] = N + 1
             /\ \A i \in 1 .. Len(p) : q[i] = p[i]
      BY <2>1, <2>3
    <3> HIDE DEF q
    <3>3. ASSUME NEW i \in 1 .. Len(q) PROVE q[i] \in 1 .. N + 1 /\ more[q[i]].cli = c
      <4>1. CASE i = Len(p) + 1
        BY <2>1, <2>5, <3>2, <4>1
      <4>2. CASE i # Len(p) + 1
        <5>1. i \in 1 .. Len(p)
          BY <3>2, <4>2
        <5>2. p[i] \in 1 .. N /\ reqs[p[i]].cli = c
          BY <2>3, <2>4, <5>1
        <5> QED BY <2>1, <3>2, <5>1, <5>2
      <4> QED BY <4>1, <4>2
    <3>4. ASSUME NEW j \in 1 .. N + 1, more[j].cli = c PROVE \E i \in 1 .. Len(q) : q[i] = j
      <4>1. CASE j = N + 1
        BY <3>2, <4>1
      <4>2. CASE j # N + 1
        <5>1. j \in 1 .. N /\ reqs[j].cli = c
          BY <2>1, <3>4, <4>2
        <5>2. PICK i \in 1 .. Len(p) : p[i] = j
          BY <2>3, <2>4, <5>1
        <5> QED BY <3>2, <5>2
      <4> QED BY <4>1, <4>2
    <3>5. Exact(more, q)
      BY <2>1, <3>2, <3>3, <3>4
    <3>6. more \in S
      BY <2>1, <3>1, <3>5
    <3> QED BY <3>6 DEF more
  <2>6. CASE r.cli # c
    <3>1. PlacesOf(c, more) = p
      BY <2>2, <2>6 DEF AddPlace
    <3>2. Exact(more, p)
      <4>1. ASSUME NEW i \in 1 .. Len(p) PROVE p[i] \in 1 .. N + 1 /\ more[p[i]].cli = c
        <5>1. p[i] \in 1 .. N /\ reqs[p[i]].cli = c
          BY <2>3, <2>4
        <5> QED BY <2>1, <5>1
      <4>2. ASSUME NEW j \in 1 .. N + 1, more[j].cli = c PROVE \E i \in 1 .. Len(p) : p[i] = j
        <5>1. j \in 1 .. N /\ reqs[j].cli = c
          BY <2>1, <2>6, <4>2
        <5> QED BY <2>3, <2>4, <5>1
      <4> QED BY <2>1, <2>3, <4>1, <4>2
    <3>3. more \in S
      BY <2>1, <3>1, <3>2
    <3> QED BY <3>3 DEF more
  <2> QED BY <2>5, <2>6
<1>3. \A reqs \in Seq(ReqName) : reqs \in S
  <2> HIDE DEF S
  <2> QED BY <1>1, <1>2, SeqInduction
<1>4. \A reqs \in ReqSeq : Exact(reqs, PlacesOf(c, reqs))
  <2> HIDE DEF Exact
  <2> QED BY <1>3 DEF ReqSeq
<1> QED BY <1>4

(* The places in two sequences, one after the other.                         *)
Shift(n, p) == [i \in 1 .. Len(p) |-> n + p[i]]

(* The places in two sequences: those in the second one are shifted.         *)
LEMMA PlacesConcat ==
    ASSUME NEW c, NEW first \in ReqSeq
    PROVE  \A rest \in ReqSeq :
               PlacesOf(c, first \o rest) =
                   PlacesOf(c, first) \o Shift(Len(first), PlacesOf(c, rest))
<1> DEFINE P(reqs) == PlacesOf(c, reqs)
           F == Len(first)
           Good(rest) == P(first \o rest) = P(first) \o Shift(F, P(rest))
           S == {rest \in Seq(ReqName) : Good(rest)}
<1>a. first \in Seq(ReqName)
  BY DEF ReqSeq
<1>0. F \in Nat /\ \A reqs \in Seq(ReqName) : P(reqs) \in Seq(Nat)
  BY <1>a, PlacesExact DEF ReqSeq
<1>1. << >> \in S
  <2>1. first \o << >> = first /\ P(<< >>) = << >> /\ Shift(F, << >>) = << >>
    BY <1>a, PlacesEmpty DEF Shift
  <2>2. P(first) \o << >> = P(first)
    BY <1>0
  <2>3. Good(<< >>)
    BY <2>1, <2>2
  <2> HIDE DEF Good
  <2> QED BY <2>3
<1>2. ASSUME NEW rest \in Seq(ReqName), NEW r \in ReqName, rest \in S
      PROVE  Append(rest, r) \in S
  <2> DEFINE M == Len(rest)
  <2>1. /\ first \o Append(rest, r) = Append(first \o rest, r)
        /\ first \o rest \in Seq(ReqName) /\ Len(first \o rest) = F + M /\ M \in Nat
        /\ Append(rest, r) \in Seq(ReqName)
    BY <1>a
  <2>2. P(Append(first \o rest, r)) = AddPlace(P(first \o rest), c, r, F + M + 1)
    BY <2>1, PlacesAppend
  <2>3. P(Append(rest, r)) = AddPlace(P(rest), c, r, M + 1)
    BY PlacesAppend
  <2>4. P(first \o rest) = P(first) \o Shift(F, P(rest))
    BY <1>2
  <2>5. P(first) \in Seq(Nat) /\ P(rest) \in Seq(Nat)
    BY <1>a, <1>0
  <2> HIDE DEF P, F, M
  <2>6. CASE r.cli = c
    <3>1. P(Append(rest, r)) = Append(P(rest), M + 1)
      BY <2>3, <2>6 DEF AddPlace
    <3>2. Shift(F, Append(P(rest), M + 1)) = Append(Shift(F, P(rest)), F + M + 1)
      BY <1>0, <2>1, <2>5 DEF Shift
    <3>3. Shift(F, P(rest)) \in Seq(Nat)
      BY <1>0, <2>5 DEF Shift
    <3>4. Append(P(first) \o Shift(F, P(rest)), F + M + 1)
             = P(first) \o Append(Shift(F, P(rest)), F + M + 1)
      <4>1. \A s, t \in PlaceSeq : \A x : s \o Append(t, x) = Append(s \o t, x)
        <5> SUFFICES ASSUME NEW s \in Seq(Nat), NEW t \in Seq(Nat), NEW x
                     PROVE  s \o Append(t, x) = Append(s \o t, x)
          BY DEF PlaceSeq
        <5> QED OBVIOUS
      <4>2. P(first) \in PlaceSeq /\ Shift(F, P(rest)) \in PlaceSeq
        BY <2>5, <3>3 DEF PlaceSeq
      <4> QED BY <4>1, <4>2
    <3>5. P(Append(first \o rest, r)) = P(first) \o Shift(F, P(Append(rest, r)))
      BY <2>2, <2>4, <2>6, <3>1, <3>2, <3>4 DEF AddPlace
    <3>6. Good(Append(rest, r))
      BY <2>1, <3>5
    <3> HIDE DEF Good
    <3> QED BY <2>1, <3>6
  <2>7. CASE r.cli # c
    <3>1. P(Append(first \o rest, r)) = P(first) \o Shift(F, P(Append(rest, r)))
      BY <2>2, <2>3, <2>4, <2>7 DEF AddPlace
    <3>2. Good(Append(rest, r))
      BY <2>1, <3>1
    <3> HIDE DEF Good
    <3> QED BY <2>1, <3>2
  <2> QED BY <2>6, <2>7
<1>3. \A rest \in Seq(ReqName) : rest \in S
  <2> HIDE DEF S
  <2> QED BY <1>1, <1>2, SeqInduction
<1>4. \A rest \in ReqSeq : Good(rest)
  <2> HIDE DEF Good
  <2> QED BY <1>3 DEF ReqSeq
<1> QED BY <1>4

(* The requests of a client are the requests at its places.                  *)
LEMMA OfType ==
    ASSUME NEW c, NEW reqs \in ReqSeq
    PROVE  /\ Of(c, reqs) \in ReqSeq
           /\ Len(Of(c, reqs)) = Len(PlacesOf(c, reqs))
           /\ \A i \in 1 .. Len(PlacesOf(c, reqs)) :
                 Of(c, reqs)[i] = reqs[PlacesOf(c, reqs)[i]] /\ Of(c, reqs)[i].cli = c
<1> DEFINE p == PlacesOf(c, reqs)
<1>1. p \in Seq(Nat) /\ \A i \in 1 .. Len(p) : p[i] \in 1 .. Len(reqs) /\ reqs[p[i]].cli = c
  BY PlacesExact
<1>2. Of(c, reqs) = [i \in 1 .. Len(p) |-> reqs[p[i]]]
  <2> HIDE DEF p
  <2>1. DOMAIN p = 1 .. Len(p)
    BY <1>1
  <2>2. Of(c, reqs) = [i \in DOMAIN p |-> reqs[p[i]]]
    BY DEF Of, p
  <2> QED BY <2>1, <2>2
<1> HIDE DEF p
<1>3. \A i \in 1 .. Len(p) : reqs[p[i]] \in ReqName
  BY <1>1 DEF ReqSeq
<1>4. Len(p) \in Nat
  BY <1>1
<1>5. Of(c, reqs) \in ReqSeq /\ Len(Of(c, reqs)) = Len(p)
  BY <1>2, <1>3, <1>4 DEF ReqSeq
<1>6. \A i \in 1 .. Len(p) : Of(c, reqs)[i] = reqs[p[i]] /\ Of(c, reqs)[i].cli = c
  BY <1>1, <1>2
<1> QED BY <1>5, <1>6 DEF p

(* There is no request in the empty sequence.                                *)
LEMMA OfEmpty ==
    ASSUME NEW c
    PROVE  Of(c, << >>) = << >>
<1>1. Of(c, << >>) \in ReqSeq /\ Len(Of(c, << >>)) = 0
  <2>1. << >> \in ReqSeq
    BY DEF ReqSeq
  <2> QED BY <2>1, OfType, PlacesEmpty
<1> QED BY <1>1

(* The requests of a client in two sequences, one after the other.           *)
LEMMA OfConcat ==
    ASSUME NEW c, NEW first \in ReqSeq, NEW rest \in ReqSeq
    PROVE  Of(c, first \o rest) = Of(c, first) \o Of(c, rest)
<1> DEFINE all == first \o rest
           p == PlacesOf(c, first)
           q == PlacesOf(c, rest)
           u == Of(c, first)
           v == Of(c, rest)
           F == Len(first)
<1>1. /\ all \in ReqSeq /\ F \in Nat
      /\ \A j \in 1 .. F : all[j] = first[j]
      /\ \A j \in 1 .. Len(rest) : all[F + j] = rest[j]
  BY DEF ReqSeq
<1>2. /\ p \in Seq(Nat) /\ \A i \in 1 .. Len(p) : p[i] \in 1 .. F
      /\ q \in Seq(Nat) /\ \A i \in 1 .. Len(q) : q[i] \in 1 .. Len(rest)
  BY PlacesExact
<1>3. PlacesOf(c, all) = p \o Shift(F, q)
  BY PlacesConcat
<1>4. /\ u \in ReqSeq /\ Len(u) = Len(p) /\ \A i \in 1 .. Len(p) : u[i] = first[p[i]]
      /\ v \in ReqSeq /\ Len(v) = Len(q) /\ \A i \in 1 .. Len(q) : v[i] = rest[q[i]]
  BY OfType
<1>5. /\ Of(c, all) \in ReqSeq /\ Len(Of(c, all)) = Len(PlacesOf(c, all))
      /\ \A i \in 1 .. Len(PlacesOf(c, all)) : Of(c, all)[i] = all[PlacesOf(c, all)[i]]
  <2>1. all \in ReqSeq
    BY <1>1
  <2> HIDE DEF all, p, q, u, v, F
  <2> QED BY <2>1, OfType
<1>6. \A j \in 1 .. F : all[j] = first[j]
  BY <1>1
<1>7. \A j \in 1 .. Len(rest) : all[F + j] = rest[j]
  BY <1>1
<1> HIDE DEF p, q, u, v, all, F
<1> DEFINE pq == p \o Shift(F, q)
<1>8. /\ Len(pq) = Len(p) + Len(q)
      /\ \A i \in 1 .. Len(p) : pq[i] = p[i]
      /\ \A i \in Len(p) + 1 .. Len(p) + Len(q) : pq[i] = F + q[i - Len(p)]
      /\ pq \in Seq(Nat)
  <2> DEFINE w == Shift(F, q)
  <2>1. Shift(F, q) \in Seq(Nat) /\ Len(Shift(F, q)) = Len(q)
           /\ \A i \in 1 .. Len(q) : Shift(F, q)[i] = F + q[i]
    BY <1>1, <1>2 DEF Shift
  <2>2. w \in Seq(Nat) /\ Len(w) = Len(q) /\ \A i \in 1 .. Len(q) : w[i] = F + q[i]
    BY <2>1
  <2> HIDE DEF w
  <2>3. /\ Len(p \o w) = Len(p) + Len(q) /\ p \o w \in Seq(Nat)
        /\ \A i \in 1 .. Len(p) : (p \o w)[i] = p[i]
        /\ \A i \in Len(p) + 1 .. Len(p) + Len(q) : (p \o w)[i] = w[i - Len(p)]
    BY <1>2, <2>2
  <2>4. \A i \in Len(p) + 1 .. Len(p) + Len(q) : i - Len(p) \in 1 .. Len(q)
    BY <1>2
  <2>5. pq = p \o w
    BY DEF w
  <2> HIDE DEF pq
  <2> QED BY <2>2, <2>3, <2>4, <2>5
<1> HIDE DEF pq
<1>9. ASSUME NEW i \in 1 .. Len(p) + Len(q) PROVE all[pq[i]] = (u \o v)[i]
  <2>1. CASE i \in 1 .. Len(p)
    <3>1. (u \o v)[i] = u[i]
      BY <1>4, <1>2, <2>1
    <3>2. all[p[i]] = first[p[i]]
      BY <1>2, <1>6, <2>1
    <3> QED BY <1>4, <1>8, <2>1, <3>1, <3>2
  <2>2. CASE i \notin 1 .. Len(p)
    <3>1. i - Len(p) \in 1 .. Len(q) /\ i \in Len(p) + 1 .. Len(p) + Len(q)
      BY <1>2, <2>2
    <3>2. (u \o v)[i] = v[i - Len(p)]
      BY <1>2, <1>4, <2>2
    <3>3. pq[i] = F + q[i - Len(p)]
      BY <1>8, <3>1
    <3>4. all[F + q[i - Len(p)]] = rest[q[i - Len(p)]]
      BY <1>2, <1>7, <3>1
    <3> QED BY <1>4, <3>1, <3>2, <3>3, <3>4
  <2> QED BY <2>1, <2>2
<1>10. u \o v \in Seq(ReqName) /\ Len(u \o v) = Len(p) + Len(q)
  <2>1. u \in Seq(ReqName) /\ v \in Seq(ReqName)
    BY <1>4 DEF ReqSeq
  <2>2. u \o v \in Seq(ReqName) /\ Len(u \o v) = Len(u) + Len(v)
    BY <2>1
  <2> QED BY <1>4, <2>2
<1>13. Len(Of(c, all)) = Len(p) + Len(q)
  BY <1>3, <1>5, <1>8 DEF pq
<1>11. \A i \in 1 .. Len(p) + Len(q) : Of(c, all)[i] = (u \o v)[i]
  BY <1>3, <1>5, <1>8, <1>9 DEF pq
<1>12. Of(c, all) = u \o v
  <2>1. Of(c, all) \in Seq(ReqName)
    BY <1>5 DEF ReqSeq
  <2> QED BY <1>10, <1>11, <1>13, <2>1, SeqEqual
<1> QED BY <1>12 DEF all, u, v

(* One request more, of the client or of another.                            *)
LEMMA OfAppend ==
    ASSUME NEW c, NEW reqs \in ReqSeq, NEW r \in ReqName
    PROVE  /\ r.cli = c => Of(c, Append(reqs, r)) = Append(Of(c, reqs), r)
           /\ r.cli # c => Of(c, Append(reqs, r)) = Of(c, reqs)
<1>1. Append(reqs, r) = reqs \o <<r>> /\ <<r>> \in ReqSeq
  BY DEF ReqSeq
<1>2. Of(c, Append(reqs, r)) = Of(c, reqs) \o Of(c, <<r>>)
  BY <1>1, OfConcat
<1>3. PlacesOf(c, <<r>>) = AddPlace(<< >>, c, r, 1)
  <2>1. << >> \in Seq(ReqName) /\ <<r>> = Append(<< >>, r) /\ Len(<< >>) + 1 = 1
    OBVIOUS
  <2>2. PlacesOf(c, Append(<< >>, r)) = AddPlace(PlacesOf(c, << >>), c, r, Len(<< >>) + 1)
    BY <2>1, PlacesAppend
  <2> QED BY <2>1, <2>2, PlacesEmpty
<1>4. /\ Of(c, <<r>>) \in ReqSeq /\ Len(Of(c, <<r>>)) = Len(PlacesOf(c, <<r>>))
      /\ \A i \in 1 .. Len(PlacesOf(c, <<r>>)) :
            Of(c, <<r>>)[i] = <<r>>[PlacesOf(c, <<r>>)[i]]
  BY <1>1, OfType
<1>5. Of(c, reqs) \in ReqSeq
  BY OfType
<1>6. CASE r.cli = c
  <2>1. PlacesOf(c, <<r>>) = <<1>>
    BY <1>3, <1>6 DEF AddPlace
  <2>2. Len(Of(c, <<r>>)) = 1 /\ Of(c, <<r>>)[1] = r
    BY <1>4, <2>1
  <2>3. Of(c, <<r>>) = <<r>>
    BY <1>4, <2>2 DEF ReqSeq
  <2>4. Of(c, reqs) \o <<r>> = Append(Of(c, reqs), r)
    BY <1>5 DEF ReqSeq
  <2> QED BY <1>2, <1>6, <2>3, <2>4
<1>7. CASE r.cli # c
  <2>1. PlacesOf(c, <<r>>) = << >>
    BY <1>3, <1>7 DEF AddPlace
  <2>2. Of(c, <<r>>) = << >>
    <3>1. Of(c, <<r>>) \in Seq(ReqName) /\ Len(Of(c, <<r>>)) = 0
      BY <1>4, <2>1 DEF ReqSeq
    <3> QED BY <3>1, EmptySeq
  <2>3. Of(c, reqs) \o << >> = Of(c, reqs)
    BY <1>5 DEF ReqSeq
  <2> QED BY <1>2, <1>7, <2>2, <2>3
<1> QED BY <1>6, <1>7

(* Nothing of a client that has no request there.                            *)
LEMMA OfNone ==
    ASSUME NEW c, NEW reqs \in ReqSeq, \A j \in 1 .. Len(reqs) : reqs[j].cli # c
    PROVE  Of(c, reqs) = << >>
<1>1. PlacesOf(c, reqs) \in Seq(Nat) /\ ~(1 \in 1 .. Len(PlacesOf(c, reqs)))
  BY PlacesExact
<1>2. Len(PlacesOf(c, reqs)) = 0
  BY <1>1
<1> QED BY <1>2, OfType

(* The requests of c in order are at its places, each at one place only.     *)
LEMMA PlaceOfRequest ==
    ASSUME NEW c, NEW reqs \in ReqSeq, NEW n \in Nat,
           Of(c, reqs) = [i \in 1 .. n |-> Request(c, i - 1)], NEW i \in 1 .. n
    PROVE  /\ PlacesOf(c, reqs)[i] \in 1 .. Len(reqs)
           /\ reqs[PlacesOf(c, reqs)[i]] = Request(c, i - 1)
           /\ \A j \in 1 .. Len(reqs) :
                 reqs[j] = Request(c, i - 1) => j = PlacesOf(c, reqs)[i]
<1> DEFINE p == PlacesOf(c, reqs)
<1>1. Len(p) = n /\ \A k \in 1 .. Len(p) : Of(c, reqs)[k] = reqs[p[k]]
  <2>1. Len(Of(c, reqs)) = n
    OBVIOUS
  <2> QED BY <2>1, OfType
<1>2. /\ \A k \in 1 .. Len(p) : p[k] \in 1 .. Len(reqs)
      /\ \A j \in 1 .. Len(reqs) : reqs[j].cli = c => \E k \in 1 .. Len(p) : p[k] = j
  <2>1. ASSUME NEW k \in 1 .. Len(p) PROVE p[k] \in 1 .. Len(reqs)
    BY PlacesExact
  <2>2. ASSUME NEW j \in 1 .. Len(reqs), reqs[j].cli = c
        PROVE  \E k \in 1 .. Len(p) : p[k] = j
    BY <2>2, PlacesExact
  <2> HIDE DEF p
  <2> QED BY <2>1, <2>2
<1> HIDE DEF p
<1>3. \A k \in 1 .. n : reqs[p[k]] = Request(c, k - 1)
  BY <1>1
<1>4. ASSUME NEW j \in 1 .. Len(reqs), reqs[j] = Request(c, i - 1) PROVE j = p[i]
  <2>1. reqs[j].cli = c /\ reqs[j].seq = i - 1
    BY <1>4 DEF Request
  <2>2. PICK k \in 1 .. n : p[k] = j
    BY <1>1, <1>2, <2>1
  <2>3. reqs[j].seq = k - 1
    BY <1>3, <2>2 DEF Request
  <2> QED BY <2>1, <2>2, <2>3
<1> QED BY <1>1, <1>2, <1>3, <1>4 DEF p

-----------------------------------------------------------------------------
(* FlattenSeq and Flatten: sequences of sequences.                           *)

(* The concatenation of sequences, sequence after sequence.                  *)
LEMMA FlattenSteps ==
    ASSUME NEW T, NEW seqs \in SeqSeqT(T)
    PROVE  \E f \in [0 .. Len(seqs) -> SeqT(T)] :
               /\ f[0] = << >>
               /\ \A n \in 1 .. Len(seqs) : f[n] = f[n - 1] \o seqs[n]
               /\ FlattenSeq(seqs) = f[Len(seqs)]
<1> DEFINE N == Len(seqs)
           Eqn(f) == f = [i \in 1 .. N |-> IF i = 1 THEN seqs[i] ELSE f[i - 1] \o seqs[i]]
           G == [p \in SeqT(T) \X (1 .. N) |-> p[1] \o seqs[p[2]]]
           flatten == CHOOSE f : Eqn(f)
<1>1. N \in Nat /\ << >> \in SeqT(T) /\ \A n \in 1 .. N : seqs[n] \in SeqT(T)
  BY DEF SeqT, SeqSeqT
<1>2. G \in StepFcn(SeqT(T), N)
  <2>1. \A p \in SeqT(T), n \in 1 .. N : p \o seqs[n] \in SeqT(T)
    BY <1>1 DEF SeqT
  <2> HIDE DEF N
  <2> QED BY <2>1 DEF StepFcn
<1>3. PICK f : Chain(f, SeqT(T), << >>, N, G)
  <2> HIDE DEF G, N, Eqn, flatten
  <2> QED BY <1>1, <1>2, RecursionExists
<1>4. f \in [0 .. N -> SeqT(T)] /\ f[0] = << >>
  BY <1>3 DEF Chain
<1>5. ASSUME NEW n \in 1 .. N PROVE f[n] = f[n - 1] \o seqs[n]
  <2>1. f[n] = G[<<f[n - 1], n>>]
    <3> HIDE DEF G
    <3> QED BY <1>3 DEF Chain
  <2>2. f[n - 1] \in SeqT(T)
    BY <1>1, <1>4
  <2> HIDE DEF N
  <2>3. <<f[n - 1], n>> \in SeqT(T) \X (1 .. N)
    BY <2>2
  <2>4. G[<<f[n - 1], n>>] = f[n - 1] \o seqs[n]
    BY <2>3
  <2> QED BY <2>1, <2>4
<1>6. CASE N = 0
  <2>1. FlattenSeq(seqs) = << >>
    BY <1>6 DEF FlattenSeq, SeqSeqT
  <2> HIDE DEF G, flatten, Eqn
  <2> QED BY <1>4, <1>5, <1>6, <2>1
<1>7. CASE N # 0
  <2> DEFINE g == [i \in 1 .. N |-> f[i]]
  <2>1. 1 \in 1 .. N /\ N \in 1 .. N
    BY <1>1, <1>7
  <2>2. f[1] = seqs[1]
    <3>1. f[1] = << >> \o seqs[1]
      <4>1. f[1] = f[1 - 1] \o seqs[1]
        BY <1>5, <2>1
      <4>2. f[1 - 1] = << >>
        BY <1>4
      <4> QED BY ONLY <4>1, <4>2
    <3>2. \A s \in SeqT(T) : << >> \o s = s
      BY DEF SeqT
    <3> QED BY <1>1, <2>1, <3>1, <3>2
  <2>3. Eqn(g)
    <3>1. \A i \in 1 .. N : g[i] = IF i = 1 THEN seqs[i] ELSE g[i - 1] \o seqs[i]
      <4> TAKE i \in 1 .. N
      <4>1. CASE i = 1
        BY <2>2, <4>1
      <4>2. CASE i # 1
        <5>1. i - 1 \in 1 .. N
          BY <1>1, <4>2
        <5>2. g[i - 1] = f[i - 1] /\ g[i] = f[i]
          BY <5>1
        <5> HIDE DEF g, N
        <5> QED BY <1>5, <4>2, <5>2
      <4> QED BY <4>1, <4>2
    <3>2. g = [i \in 1 .. N |-> g[i]]
      OBVIOUS
    <3> HIDE DEF g, N
    <3> QED BY <3>1, <3>2
  <2>4. Eqn(flatten)
    <3> HIDE DEF Eqn
    <3> QED BY <2>3
  <2>5. /\ flatten[1] = seqs[1]
        /\ \A i \in 1 .. N : i # 1 => flatten[i] = flatten[i - 1] \o seqs[i]
    <3> HIDE DEF flatten, N
    <3> QED BY <2>1, <2>4
  <2> DEFINE h == [i \in 0 .. N |-> IF i = 0 THEN << >> ELSE flatten[i]]
  <2>6. h[0] = << >> /\ \A i \in 1 .. N : h[i] = flatten[i]
    <3> HIDE DEF flatten
    <3> QED BY <1>1
  <2> HIDE DEF h, flatten, Eqn, G, N, g
  <2>7. Alike(h, f, N)
    <3>1. h[0] = f[0]
      BY <1>4, <2>6
    <3>2. ASSUME NEW n \in 1 .. N, h[n - 1] = f[n - 1] PROVE h[n] = f[n]
      <4>1. CASE n = 1
        BY <2>1, <2>2, <2>5, <2>6, <4>1
      <4>2. CASE n # 1
        <5>1. n - 1 \in 1 .. N
          BY <1>1, <4>2
        <5>2. flatten[n - 1] = f[n - 1]
          BY <2>6, <3>2, <5>1
        <5> QED BY <1>5, <2>5, <2>6, <4>2, <5>2
      <4> QED BY <4>1, <4>2
    <3> QED BY <3>1, <3>2 DEF Alike
  <2>8. h[N] = f[N]
    BY <1>1, <2>7, SameSteps
  <2>9. FlattenSeq(seqs) = flatten[N]
    BY <1>7 DEF FlattenSeq, flatten, Eqn, N
  <2>10. FlattenSeq(seqs) = f[N]
    BY <2>1, <2>6, <2>8, <2>9
  <2> QED BY <1>4, <1>5, <2>10 DEF N
<1> QED BY <1>6, <1>7

(* The concatenation of sequences over a set is one over that set.           *)
LEMMA FlattenSeqType ==
    ASSUME NEW T, NEW seqs \in SeqSeqT(T)
    PROVE  FlattenSeq(seqs) \in SeqT(T)
<1>1. PICK f \in [0 .. Len(seqs) -> SeqT(T)] : FlattenSeq(seqs) = f[Len(seqs)]
  BY FlattenSteps
<1>2. Len(seqs) \in 0 .. Len(seqs)
  BY DEF SeqSeqT
<1> QED BY <1>1, <1>2

(* The concatenation of no sequence.                                         *)
LEMMA FlattenSeqEmpty == FlattenSeq(<< >>) = << >>
BY DEF FlattenSeq

(* One sequence more is concatenated at the end.                             *)
LEMMA FlattenSeqAppend ==
    ASSUME NEW T, NEW seqs \in SeqSeqT(T), NEW s \in SeqT(T)
    PROVE  FlattenSeq(Append(seqs, s)) = FlattenSeq(seqs) \o s
<1> DEFINE N == Len(seqs)
           more == Append(seqs, s)
<1>1. N \in Nat /\ more \in SeqSeqT(T) /\ Len(more) = N + 1
         /\ more[N + 1] = s /\ \A n \in 1 .. N : more[n] = seqs[n]
  BY DEF SeqT, SeqSeqT
<1> HIDE DEF more
<1>2. PICK f \in [0 .. N -> SeqT(T)] :
          /\ f[0] = << >>
          /\ \A n \in 1 .. N : f[n] = f[n - 1] \o seqs[n]
          /\ FlattenSeq(seqs) = f[N]
  BY FlattenSteps
<1>3. PICK g \in [0 .. N + 1 -> SeqT(T)] :
          /\ g[0] = << >>
          /\ \A n \in 1 .. N + 1 : g[n] = g[n - 1] \o more[n]
          /\ FlattenSeq(more) = g[N + 1]
  <2>1. \E g \in [0 .. Len(more) -> SeqT(T)] :
          /\ g[0] = << >>
          /\ \A n \in 1 .. Len(more) : g[n] = g[n - 1] \o more[n]
          /\ FlattenSeq(more) = g[Len(more)]
    BY <1>1, FlattenSteps
  <2> QED BY <1>1, <2>1
<1> HIDE DEF N
<1>4. Alike(f, g, N)
  <2>1. ASSUME NEW n \in 1 .. N, f[n - 1] = g[n - 1] PROVE f[n] = g[n]
    <3>1. f[n] = f[n - 1] \o seqs[n]
      BY <1>2
    <3>2. n \in 1 .. N + 1
      BY <1>1
    <3>3. g[n] = g[n - 1] \o more[n]
      BY <1>3, <3>2
    <3>4. more[n] = seqs[n]
      BY <1>1
    <3> QED BY ONLY <2>1, <3>1, <3>3, <3>4
  <2> QED BY <1>2, <1>3, <2>1 DEF Alike
<1>5. f[N] = g[N]
  <2>1. \A n \in 0 .. N : f[n] = g[n]
    BY <1>1, <1>4, SameSteps
  <2>2. N \in 0 .. N
    BY <1>1
  <2> QED BY <2>1, <2>2
<1>6. g[N + 1] = g[N] \o s
  <2>1. N + 1 \in 1 .. N + 1 /\ (N + 1) - 1 = N
    BY <1>1
  <2>2. g[N + 1] = g[(N + 1) - 1] \o more[N + 1]
    BY <1>3, <2>1
  <2> QED BY <1>1, <2>1, <2>2
<1>7. FlattenSeq(more) = FlattenSeq(seqs) \o s
  BY <1>2, <1>3, <1>5, <1>6
<1> QED BY <1>7 DEF more

(* The concatenation of the sequences of two sequences.                      *)
LEMMA FlattenSeqConcat ==
    ASSUME NEW T, NEW first \in SeqSeqT(T)
    PROVE  \A rest \in SeqSeqT(T) :
               FlattenSeq(first \o rest) = FlattenSeq(first) \o FlattenSeq(rest)
<1> DEFINE Good(rest) ==
               FlattenSeq(first \o rest) = FlattenSeq(first) \o FlattenSeq(rest)
           S == {rest \in SeqSeqT(T) : Good(rest)}
<1>1. << >> \in S
  <2>1. first \o << >> = first /\ << >> \in SeqSeqT(T)
    BY DEF SeqSeqT
  <2>2. \A s \in SeqT(T) : s \o << >> = s
    BY DEF SeqT
  <2>3. Good(<< >>)
    BY <2>1, <2>2, FlattenSeqEmpty, FlattenSeqType
  <2> HIDE DEF Good
  <2> QED BY <2>1, <2>3
<1>2. ASSUME NEW rest \in Seq(SeqT(T)), NEW s \in SeqT(T), rest \in S
      PROVE  Append(rest, s) \in S
  <2>1. /\ first \o Append(rest, s) = Append(first \o rest, s)
        /\ first \o rest \in SeqSeqT(T) /\ Append(rest, s) \in SeqSeqT(T)
        /\ rest \in SeqSeqT(T)
    BY DEF SeqSeqT, SeqT
  <2>2. FlattenSeq(Append(first \o rest, s)) = FlattenSeq(first \o rest) \o s
    BY <2>1, FlattenSeqAppend
  <2>3. FlattenSeq(Append(rest, s)) = FlattenSeq(rest) \o s
    BY <2>1, FlattenSeqAppend
  <2>4. FlattenSeq(first \o rest) = FlattenSeq(first) \o FlattenSeq(rest)
    BY <1>2
  <2>5. \A u, v, w \in SeqT(T) : (u \o v) \o w = u \o (v \o w)
    BY ConcatAssociative DEF SeqT
  <2>6. FlattenSeq(first) \in SeqT(T) /\ FlattenSeq(rest) \in SeqT(T)
    BY <2>1, FlattenSeqType
  <2>7. (FlattenSeq(first) \o FlattenSeq(rest)) \o s =
            FlattenSeq(first) \o (FlattenSeq(rest) \o s)
    BY <2>5, <2>6
  <2>8. Good(Append(rest, s))
    BY ONLY <2>1, <2>2, <2>3, <2>4, <2>7
  <2> HIDE DEF Good
  <2> QED BY <2>1, <2>8
<1>3. \A rest \in Seq(SeqT(T)) : rest \in S
  <2> HIDE DEF S
  <2> QED BY <1>1, <1>2, SeqInduction
<1>4. \A rest \in SeqSeqT(T) : Good(rest)
  <2> HIDE DEF Good
  <2> QED BY <1>3 DEF SeqSeqT, SeqT
<1> QED BY <1>4

-----------------------------------------------------------------------------
(* Flatten: the commands of each request, and all of them.                   *)
CmdSeq == SeqT(Command)
Commands(reqs) == [i \in DOMAIN reqs |-> CommandsOf(reqs[i])]

(* A request of a client has commands.                                       *)
LEMMA CommandsOfType ==
    ASSUME NEW r \in ReqName
    PROVE  CommandsOf(r) \in CmdSeq
<1>1. r.cli \in Client /\ r.seq \in Nat /\ r.seq < Len(Requests[r.cli])
  BY DEF ReqName
<1>2. Requests[r.cli] \in Seq(Seq(Command))
  BY <1>1, RequestsAssumption
<1>3. r.seq + 1 \in 1 .. Len(Requests[r.cli])
  BY <1>1, <1>2
<1> QED BY <1>2, <1>3 DEF CommandsOf, CmdSeq, SeqT

(* So have the requests of a sequence, each its own.                         *)
LEMMA CommandsType ==
    ASSUME NEW reqs \in ReqSeq
    PROVE  Commands(reqs) \in SeqSeqT(Command)
<1>1. \A i \in 1 .. Len(reqs) : CommandsOf(reqs[i]) \in CmdSeq
  BY CommandsOfType DEF ReqSeq
<1>2. Len(reqs) \in Nat /\ DOMAIN reqs = 1 .. Len(reqs)
  BY DEF ReqSeq
<1> QED BY <1>1, <1>2 DEF Commands, SeqSeqT, SeqT, CmdSeq

(* All the commands of requests are a sequence of commands.                  *)
LEMMA FlattenType ==
    ASSUME NEW reqs \in ReqSeq
    PROVE  Flatten(reqs) \in CmdSeq
BY CommandsType, FlattenSeqType DEF Flatten, Commands, CmdSeq

(* No request has no command.                                                *)
LEMMA FlattenEmpty == Flatten(<< >>) = << >>
<1>1. Commands(<< >>) = << >>
  BY DEF Commands
<1> QED BY <1>1, FlattenSeqEmpty DEF Flatten, Commands

(* The commands of two sequences of requests, one after the other.           *)
LEMMA FlattenConcat ==
    ASSUME NEW first \in ReqSeq, NEW rest \in ReqSeq
    PROVE  Flatten(first \o rest) = Flatten(first) \o Flatten(rest)
<1>1. Commands(first \o rest) = Commands(first) \o Commands(rest)
  <2>1. first \in Seq(ReqName) /\ rest \in Seq(ReqName)
    BY DEF ReqSeq
  <2>2. /\ Len(Commands(first)) = Len(first) /\ Len(Commands(rest)) = Len(rest)
        /\ \A i \in 1 .. Len(first) : Commands(first)[i] = CommandsOf(first[i])
        /\ \A i \in 1 .. Len(rest) : Commands(rest)[i] = CommandsOf(rest[i])
    BY <2>1 DEF Commands
  <2>3. Commands(first) \in SeqSeqT(Command) /\ Commands(rest) \in SeqSeqT(Command)
    BY CommandsType
  <2> DEFINE u == Commands(first)
             v == Commands(rest)
             all == first \o rest
  <2>4. /\ u \in Seq(Seq(Command)) /\ v \in Seq(Seq(Command))
        /\ Len(u) = Len(first) /\ Len(v) = Len(rest)
        /\ \A i \in 1 .. Len(first) : u[i] = CommandsOf(first[i])
        /\ \A i \in 1 .. Len(rest) : v[i] = CommandsOf(rest[i])
    BY <2>2, <2>3 DEF SeqSeqT
  <2> HIDE DEF u, v
  <2>5. /\ all \in Seq(ReqName) /\ Len(all) = Len(first) + Len(rest)
        /\ \A i \in 1 .. Len(first) : all[i] = first[i]
        /\ \A i \in Len(first) + 1 .. Len(all) : all[i] = rest[i - Len(first)]
    BY <2>1
  <2>6. /\ u \o v \in Seq(Seq(Command)) /\ Len(u \o v) = Len(first) + Len(rest)
        /\ \A i \in 1 .. Len(first) : (u \o v)[i] = u[i]
        /\ \A i \in Len(first) + 1 .. Len(first) + Len(rest) : (u \o v)[i] = v[i - Len(first)]
    <3>1. u \in SeqT(Seq(Command)) /\ v \in SeqT(Seq(Command))
      BY <2>4 DEF SeqT
    <3>2. /\ u \o v \in SeqT(Seq(Command)) /\ Len(u \o v) = Len(u) + Len(v)
          /\ \A i \in 1 .. Len(u) : (u \o v)[i] = u[i]
          /\ \A i \in Len(u) + 1 .. Len(u) + Len(v) : (u \o v)[i] = v[i - Len(u)]
      BY <3>1, ConcatParts
    <3>3. u \o v \in Seq(Seq(Command))
      BY <3>2 DEF SeqT
    <3> QED BY <2>4, <3>2, <3>3
  <2> HIDE DEF all
  <2>7. Commands(all) \in Seq(Seq(Command)) /\ Len(Commands(all)) = Len(all)
           /\ \A i \in 1 .. Len(all) : Commands(all)[i] = CommandsOf(all[i])
    <3>1. all \in ReqSeq
      BY <2>5 DEF ReqSeq
    <3>2. Commands(all) \in Seq(Seq(Command))
      BY <3>1, CommandsType DEF SeqSeqT
    <3>3. DOMAIN all = 1 .. Len(all) /\ Len(all) \in Nat
      BY <2>5
    <3> QED BY <3>2, <3>3 DEF Commands
  <2>8. \A i \in 1 .. Len(first) + Len(rest) : Commands(all)[i] = (u \o v)[i]
    <3> TAKE i \in 1 .. Len(first) + Len(rest)
    <3>1. CASE i \in 1 .. Len(first)
      BY <2>1, <2>4, <2>5, <2>6, <2>7, <3>1
    <3>2. CASE i \notin 1 .. Len(first)
      <4>1. i \in Len(first) + 1 .. Len(first) + Len(rest) /\ i - Len(first) \in 1 .. Len(rest)
        BY <2>1, <3>2
      <4> QED BY <2>4, <2>5, <2>6, <2>7, <4>1
    <3> QED BY <3>1, <3>2
  <2>9. Commands(all) = u \o v
    BY <2>5, <2>6, <2>7, <2>8, SeqEqual
  <2> QED BY <2>9 DEF all, u, v
<1>2. Commands(first) \in SeqSeqT(Command) /\ Commands(rest) \in SeqSeqT(Command)
  BY CommandsType
<1>3. FlattenSeq(Commands(first) \o Commands(rest)) =
         FlattenSeq(Commands(first)) \o FlattenSeq(Commands(rest))
  BY <1>2, FlattenSeqConcat
<1> QED BY <1>1, <1>3 DEF Flatten, Commands

(* Objects as they are, in a proxy's broadcasts and in the log.              *)
Obj == [proId : Server, proSeq : Nat, reqs : ReqSeq]
ObjSeq == Seq(Obj)
LogSeq == Seq(Obj \cup {Null})

(* The requests of a slot: KVSExecutor skips a Null one.                     *)
SlotReqs(o) == IF o = Null THEN << >> ELSE o.reqs
(* The requests of a sequence of slots.                                      *)
HistoryOf(l) == FlattenSeq([i \in DOMAIN l |-> SlotReqs(l[i])])
(* What the proxy s has taken: its objects and its batch.                    *)
Taken(s) == HistoryOf(submitted[s]) \o batch[s]
(* The first n requests of c.                                                *)
Prefix(c, n) == [i \in 1 .. n |-> Request(c, i - 1)]

(* Null is no object (getRequest, the objects KVSExecutor skips).            *)
LEMMA ObjNotNull == Null \notin Obj
<1>1. ReqSeq \subseteq Seq(RequestName)
  <2>1. ReqName \subseteq RequestName
    BY DEF ReqName, RequestName
  <2> QED BY <2>1, SeqMonotonic DEF ReqSeq
<1>2. Obj \subseteq Object
  BY <1>1 DEF Obj, Object
<1> QED BY <1>2, NullAssumption

(* The history of the model is that of the log.                              *)
LEMMA HistoryIs == History = HistoryOf(log)
BY DEF History, HistoryOf, SlotReqs

(* A slot has the requests of its object, or none.                           *)
LEMMA SlotReqsType ==
    ASSUME NEW o \in Obj \cup {Null}
    PROVE  SlotReqs(o) \in ReqSeq
<1>1. << >> \in ReqSeq
  BY DEF ReqSeq
<1> QED BY <1>1 DEF SlotReqs, Obj

(* The slots of a log are sequences of requests.                             *)
LEMMA SlotsType ==
    ASSUME NEW l \in LogSeq
    PROVE  [i \in DOMAIN l |-> SlotReqs(l[i])] \in SeqSeqT(ReqName)
<1>1. Len(l) \in Nat /\ DOMAIN l = 1 .. Len(l) /\ \A i \in 1 .. Len(l) : l[i] \in Obj \cup {Null}
  BY DEF LogSeq
<1>2. \A i \in 1 .. Len(l) : SlotReqs(l[i]) \in ReqSeq
  BY <1>1, SlotReqsType
<1> QED BY <1>1, <1>2 DEF SeqSeqT, ReqSeq

(* A history is a sequence of requests.                                      *)
LEMMA HistoryType ==
    ASSUME NEW l \in LogSeq
    PROVE  HistoryOf(l) \in ReqSeq
BY SlotsType, FlattenSeqType DEF HistoryOf, ReqSeq, SeqT

(* The history of no slot.                                                   *)
LEMMA HistoryEmpty == HistoryOf(<< >>) = << >>
<1>1. [i \in DOMAIN << >> |-> SlotReqs(<< >>[i])] = << >>
  OBVIOUS
<1> QED BY <1>1, FlattenSeqEmpty DEF HistoryOf

(* A slot more adds its requests at the end.                                 *)
LEMMA HistoryAppend ==
    ASSUME NEW l \in LogSeq, NEW o \in Obj \cup {Null}
    PROVE  HistoryOf(Append(l, o)) = HistoryOf(l) \o SlotReqs(o)
<1> DEFINE Slots(k) == [i \in DOMAIN k |-> SlotReqs(k[i])]
           more == Append(l, o)
<1>1. /\ Len(l) \in Nat /\ DOMAIN l = 1 .. Len(l)
      /\ Len(more) = Len(l) + 1 /\ DOMAIN more = 1 .. Len(l) + 1
      /\ more[Len(l) + 1] = o /\ \A i \in 1 .. Len(l) : more[i] = l[i]
  BY DEF LogSeq
<1>2. Slots(l) \in SeqSeqT(ReqName) /\ SlotReqs(o) \in SeqT(ReqName)
  BY SlotsType, SlotReqsType DEF ReqSeq, SeqT
<1>3. Slots(l) = [i \in 1 .. Len(l) |-> SlotReqs(l[i])]
  BY <1>1
<1> HIDE DEF more
<1>4. Slots(more) = [i \in 1 .. Len(l) + 1 |-> SlotReqs(more[i])]
  BY <1>1
<1>5. Append(Slots(l), SlotReqs(o)) = [i \in 1 .. Len(l) + 1 |-> SlotReqs(more[i])]
  <2>1. \A i \in 1 .. Len(l) : SlotReqs(more[i]) = SlotReqs(l[i])
    BY <1>1
  <2>2. SlotReqs(more[Len(l) + 1]) = SlotReqs(o)
    BY <1>1
  <2> DEFINE u == Slots(l)
             x == SlotReqs(o)
             w == [i \in 1 .. Len(l) + 1 |-> SlotReqs(more[i])]
  <2>3. u \in SeqT(SeqT(ReqName)) /\ Len(u) = Len(l) /\ x \in SeqT(ReqName)
    BY <1>1, <1>2, <1>3 DEF SeqSeqT, SeqT
  <2>4. \A i \in 1 .. Len(l) : w[i] = u[i]
    BY <1>1, <1>3, <2>1
  <2>5. w = [i \in 1 .. Len(l) + 1 |-> w[i]] /\ w[Len(l) + 1] = x
    BY <1>1, <2>2
  <2> HIDE DEF u, x, w
  <2>6. Append(u, x) = w
    <3>1. OneMore(w, u, x)
      BY <2>3, <2>4, <2>5 DEF OneMore
    <3> QED BY <2>3, <3>1, AppendIs
  <2> QED BY <2>6 DEF u, x, w
<1>6. FlattenSeq(Append(Slots(l), SlotReqs(o))) = FlattenSeq(Slots(l)) \o SlotReqs(o)
  BY <1>2, FlattenSeqAppend
<1>7. HistoryOf(more) = HistoryOf(l) \o SlotReqs(o)
  BY <1>4, <1>5, <1>6 DEF HistoryOf
<1> QED BY <1>7 DEF more

(* A sequence of objects has no Null in it.                                  *)
LEMMA ObjectsAreSlots ==
    ASSUME NEW objs \in ObjSeq
    PROVE  /\ objs \in LogSeq
           /\ FlattenSeq([i \in DOMAIN objs |-> objs[i].reqs]) = HistoryOf(objs)
<1>1. \A i \in DOMAIN objs : objs[i] \in Obj /\ objs[i] # Null
  BY ObjNotNull DEF ObjSeq
<1>2. [i \in DOMAIN objs |-> objs[i].reqs] = [i \in DOMAIN objs |-> SlotReqs(objs[i])]
  BY <1>1 DEF SlotReqs
<1>3. objs \in LogSeq
  <2>1. Obj \subseteq Obj \cup {Null}
    OBVIOUS
  <2> QED BY <2>1, SeqMonotonic DEF ObjSeq, LogSeq
<1> QED BY <1>2, <1>3 DEF HistoryOf

(* Requests in three parts.                                                  *)
LEMMA ReqConcat ==
    ASSUME NEW u \in ReqSeq, NEW v \in ReqSeq, NEW w \in ReqSeq
    PROVE  v \o w \in ReqSeq /\ (u \o v) \o w = u \o (v \o w)
<1>1. v \o w \in ReqSeq
  BY DEF ReqSeq
<1>2. (u \o v) \o w = u \o (v \o w)
  BY ConcatAssociative DEF ReqSeq
<1> QED BY <1>1, <1>2

(* The requests of a part of the log come first.                             *)
LEMMA HistoryPrefix ==
    ASSUME NEW l \in LogSeq, NEW n \in 0 .. Len(l)
    PROVE  /\ SubSeq(l, 1, n) \in LogSeq
           /\ \E rest \in ReqSeq : HistoryOf(l) = HistoryOf(SubSeq(l, 1, n)) \o rest
<1> DEFINE Good(k) == \A m \in 0 .. Len(k) : \E rest \in ReqSeq :
                          HistoryOf(k) = HistoryOf(SubSeq(k, 1, m)) \o rest
           S == {k \in LogSeq : Good(k)}
<1>0. << >> \in ReqSeq /\ \A h \in ReqSeq : h \o << >> = h
  BY DEF ReqSeq
<1>1. << >> \in S
  <2>1. << >> \in LogSeq /\ Len(<< >>) = 0 /\ SubSeq(<< >>, 1, 0) = << >>
    BY DEF LogSeq
  <2>2. HistoryOf(<< >>) = HistoryOf(<< >>) \o << >>
    BY <1>0, <2>1, HistoryType
  <2>3. Good(<< >>)
    <3>1. \A m \in 0 .. Len(<< >>) : m = 0
      BY <2>1
    <3>2. HistoryOf(<< >>) = HistoryOf(SubSeq(<< >>, 1, 0)) \o << >>
      BY <2>1, <2>2
    <3> QED BY <1>0, <3>1, <3>2
  <2> HIDE DEF Good
  <2> QED BY <2>1, <2>3
<1>2. ASSUME NEW k \in Seq(Obj \cup {Null}), NEW o \in Obj \cup {Null}, k \in S
      PROVE  Append(k, o) \in S
  <2> DEFINE more == Append(k, o)
  <2>1. /\ k \in LogSeq /\ Len(k) \in Nat /\ more \in LogSeq /\ Len(more) = Len(k) + 1
        /\ SubSeq(more, 1, Len(k) + 1) = more
        /\ \A m \in 0 .. Len(k) : SubSeq(more, 1, m) = SubSeq(k, 1, m)
    BY DEF LogSeq
  <2>2. HistoryOf(more) = HistoryOf(k) \o SlotReqs(o)
    BY <2>1, HistoryAppend
  <2>3. Good(k)
    BY <1>2
  <2> HIDE DEF more
  <2>4. ASSUME NEW m \in 0 .. Len(more)
        PROVE  \E rest \in ReqSeq : HistoryOf(more) = HistoryOf(SubSeq(more, 1, m)) \o rest
    <3>1. CASE m = Len(k) + 1
      <4>1. HistoryOf(more) = HistoryOf(SubSeq(more, 1, m)) \o << >>
        BY <1>0, <2>1, <3>1, HistoryType
      <4> QED BY <1>0, <4>1
    <3>2. CASE m # Len(k) + 1
      <4>1. m \in 0 .. Len(k)
        BY <2>1, <3>2
      <4>2. PICK rest \in ReqSeq : HistoryOf(k) = HistoryOf(SubSeq(k, 1, m)) \o rest
        BY <2>3, <4>1
      <4>3. SubSeq(k, 1, m) \in LogSeq
        BY <2>1, <4>1 DEF LogSeq
      <4>4. HistoryOf(SubSeq(k, 1, m)) \in ReqSeq /\ SlotReqs(o) \in ReqSeq
        BY <4>3, HistoryType, SlotReqsType
      <4>5. /\ rest \o SlotReqs(o) \in ReqSeq
            /\ (HistoryOf(SubSeq(k, 1, m)) \o rest) \o SlotReqs(o) =
                  HistoryOf(SubSeq(k, 1, m)) \o (rest \o SlotReqs(o))
        BY <4>4, ReqConcat
      <4>6. SubSeq(more, 1, m) = SubSeq(k, 1, m)
        BY <2>1, <4>1
      <4>7. HistoryOf(more) = HistoryOf(SubSeq(more, 1, m)) \o (rest \o SlotReqs(o))
        BY ONLY <2>2, <4>2, <4>5, <4>6
      <4> QED BY <4>5, <4>7
    <3> QED BY <3>1, <3>2
  <2>5. more \in S
    BY <2>1, <2>4
  <2> QED BY <2>5 DEF more
<1>3. \A k \in Seq(Obj \cup {Null}) : k \in S
  <2> HIDE DEF S
  <2> QED BY <1>1, <1>2, SeqInduction
<1>4. Good(l)
  <2> HIDE DEF Good
  <2> QED BY <1>3 DEF LogSeq
<1>5. SubSeq(l, 1, n) \in LogSeq
  BY DEF LogSeq
<1> QED BY <1>4, <1>5

-----------------------------------------------------------------------------
(* The proxies: batches and objects.                                         *)

(* The types, and how far the clients, the slots and the executors have      *)
(* come.                                                                     *)
TypeInv ==
    /\ StorageMode \in {0, 1, 2}
    /\ sent \in [Client -> Nat] /\ received \in [Client -> Nat]
    /\ \A c \in Client : received[c] <= sent[c] /\ sent[c] <= Len(Requests[c])
    /\ batch \in [Server -> ReqSeq]
    /\ \A s \in Server : Len(batch[s]) < ProxyBatchSize
    /\ submitted \in [Server -> ObjSeq]
    /\ log \in LogSeq
    /\ decided \in [Server -> Nat] /\ currSeq \in [Server -> Nat]
    /\ \A s \in Server : currSeq[s] <= decided[s] /\ decided[s] <= Len(log)

(* The requests are all from clients of s.                                   *)
OwnClients(s, reqs) == \A j \in 1 .. Len(reqs) : ProxyOf[reqs[j].cli] = s

(* An object of proxy s, its n-th.                                           *)
ObjectOf(s, n, o) ==
    o.proId = s /\ o.proSeq = n - 1 /\ o.reqs # << >> /\ OwnClients(s, o.reqs)

(* A proxy batches requests of its clients and numbers its objects (ProSeq), *)
(* none of which is empty.                                                   *)
ProxyInv ==
    \A s \in Server :
        /\ OwnClients(s, batch[s])
        /\ \A i \in 1 .. Len(submitted[s]) : ObjectOf(s, i, submitted[s][i])

(* The proxy s broadcasts nothing or its next object.                        *)
Broadcasts(s) ==
    \/ submitted'[s] = submitted[s]
    \/ \E o \in Obj : /\ submitted'[s] = Append(submitted[s], o)
                      /\ ObjectOf(s, Len(submitted[s]) + 1, o)

(* An object takes a batch to the broadcasts of its proxy unchanged.         *)
LEMMA SubmitStep ==
    ASSUME TypeInv, ProxyInv, NEW s \in Server, NEW reqs \in ReqSeq, reqs # << >>,
           OwnClients(s, reqs), Submit(s, reqs)
    PROVE  /\ batch' \in [Server -> ReqSeq] /\ submitted' \in [Server -> ObjSeq]
           /\ \A t \in Server : Len(batch'[t]) < ProxyBatchSize
           /\ ProxyInv'
           /\ \A t \in Server : Broadcasts(t)
           /\ HistoryOf(submitted'[s]) \o batch'[s] = HistoryOf(submitted[s]) \o reqs
           /\ \A t \in Server \ {s} : submitted'[t] = submitted[t] /\ batch'[t] = batch[t]
<1> DEFINE n == Len(submitted[s])
           o == [proId |-> s, proSeq |-> n, reqs |-> reqs]
<1>0. /\ batch \in [Server -> ReqSeq] /\ submitted \in [Server -> ObjSeq]
      /\ \A t \in Server : Len(batch[t]) < ProxyBatchSize
  BY DEF TypeInv
<1>1. submitted' = [submitted EXCEPT ![s] = Append(submitted[s], o)]
         /\ batch' = [batch EXCEPT ![s] = << >>]
  BY DEF Submit
<1>2. n \in Nat /\ submitted[s] \in ObjSeq /\ submitted[s] \in Seq(Obj)
  BY <1>0 DEF ObjSeq
<1>3. o \in Obj /\ ObjectOf(s, n + 1, o)
  BY <1>2 DEF Obj, ObjectOf
<1> HIDE DEF o
<1> DEFINE more == Append(submitted[s], o)
<1>4. /\ more \in ObjSeq /\ Len(more) = n + 1 /\ more[n + 1] = o
      /\ \A i \in 1 .. n : more[i] = submitted[s][i]
  BY <1>2, <1>3 DEF ObjSeq
<1>5. << >> \in ReqSeq /\ Len(<< >>) = 0
  BY DEF ReqSeq
<1>6. submitted'[s] = more /\ batch'[s] = << >>
         /\ \A t \in Server \ {s} : submitted'[t] = submitted[t] /\ batch'[t] = batch[t]
  BY <1>0, <1>1
<1> HIDE DEF more
<1>7. batch' \in [Server -> ReqSeq] /\ submitted' \in [Server -> ObjSeq]
  BY <1>0, <1>1, <1>4, <1>5 DEF more
<1>8. \A t \in Server : Len(batch'[t]) < ProxyBatchSize
  BY <1>0, <1>5, <1>6, BatchAssumption
<1>9. ProxyInv'
  <2>1. ASSUME NEW t \in Server
        PROVE  /\ OwnClients(t, batch'[t])
               /\ \A i \in 1 .. Len(submitted'[t]) : ObjectOf(t, i, submitted'[t][i])
    <3>1. CASE t = s
      <4>1. OwnClients(t, batch'[t])
        BY <1>5, <1>6, <3>1 DEF OwnClients
      <4>2. ASSUME NEW i \in 1 .. n + 1 PROVE ObjectOf(s, i, more[i])
        <5>1. CASE i = n + 1
          BY <1>3, <1>4, <5>1
        <5>2. CASE i # n + 1
          <6>1. i \in 1 .. n
            BY <1>2, <5>2
          <6> QED BY <1>4, <6>1 DEF ProxyInv
        <5> QED BY <5>1, <5>2
      <4> QED BY <1>4, <1>6, <3>1, <4>1, <4>2
    <3>2. CASE t # s
      BY <1>6, <3>2 DEF ProxyInv
    <3> QED BY <3>1, <3>2
  <2> QED BY <2>1 DEF ProxyInv
<1>10. \A t \in Server : Broadcasts(t)
  BY <1>3, <1>6 DEF Broadcasts, more
<1>11. HistoryOf(submitted'[s]) \o batch'[s] = HistoryOf(submitted[s]) \o reqs
  <2>1. submitted[s] \in LogSeq /\ o \in Obj \cup {Null} /\ SlotReqs(o) = reqs
    BY <1>2, <1>3, ObjectsAreSlots, ObjNotNull DEF SlotReqs, o
  <2>2. HistoryOf(more) = HistoryOf(submitted[s]) \o reqs
    BY <2>1, HistoryAppend DEF more
  <2>3. \A u, v \in ReqSeq : u \o v \in ReqSeq /\ (u \o v) \o << >> = u \o v
    BY ConcatProperties, ConcatEmptySeq DEF ReqSeq
  <2>4. HistoryOf(submitted[s]) \in ReqSeq
    BY <2>1, HistoryType
  <2> QED BY <1>6, <2>2, <2>3, <2>4
<1> QED BY <1>6, <1>7, <1>8, <1>9, <1>10, <1>11

(* A tick of the clock moves the batch and neither adds nor loses a request. *)
LEMMA BatchTickStep ==
    ASSUME TypeInv, ProxyInv, NEW s \in Server, BatchTick(s)
    PROVE  TypeInv' /\ ProxyInv' /\ (\A t \in Server : Broadcasts(t))
              /\ \A t \in Server : Taken(t)' = Taken(t)
<1>1. batch[s] \in ReqSeq /\ batch[s] # << >> /\ OwnClients(s, batch[s]) /\ Submit(s, batch[s])
  BY DEF TypeInv, ProxyInv, BatchTick
<1>2. /\ batch' \in [Server -> ReqSeq] /\ submitted' \in [Server -> ObjSeq]
      /\ \A t \in Server : Len(batch'[t]) < ProxyBatchSize
      /\ ProxyInv'
      /\ \A t \in Server : Broadcasts(t)
      /\ HistoryOf(submitted'[s]) \o batch'[s] = HistoryOf(submitted[s]) \o batch[s]
      /\ \A t \in Server \ {s} : submitted'[t] = submitted[t] /\ batch'[t] = batch[t]
  BY <1>1, SubmitStep
<1>3. UNCHANGED <<StorageMode, sent, received, log, decided, currSeq>>
  BY DEF BatchTick, consensusVars, executorVars
<1>4. TypeInv'
  BY <1>2, <1>3 DEF TypeInv
<1>5. \A t \in Server : Taken(t)' = Taken(t)
  BY <1>2 DEF Taken
<1> QED BY <1>2, <1>4, <1>5

(* The first requests of a client, one more, and the first of these.         *)
LEMMA PrefixStep ==
    ASSUME NEW c, NEW n \in Nat
    PROVE  /\ Append(Prefix(c, n), Request(c, n)) = Prefix(c, n + 1)
           /\ Len(Prefix(c, n)) = n
           /\ \A m \in 0 .. n : SubSeq(Prefix(c, n), 1, m) = Prefix(c, m)
<1> DEFINE T == {Request(c, i) : i \in Nat}
           p == Prefix(c, n)
           w == Prefix(c, n + 1)
<1>1. /\ p = [i \in 1 .. n |-> Request(c, i - 1)]
      /\ \A i \in 1 .. n : p[i] = Request(c, i - 1)
      /\ \A i \in 1 .. n : Request(c, i - 1) \in T
  BY DEF Prefix
<1>2. p \in Seq(T) /\ Len(p) = n
  <2> HIDE DEF T, p
  <2> QED BY <1>1
<1>3. w = [i \in 1 .. n + 1 |-> w[i]] /\ \A i \in 1 .. n + 1 : w[i] = Request(c, i - 1)
  BY DEF Prefix
<1>4. Request(c, n) \in T
  OBVIOUS
<1> HIDE DEF T, p, w
<1>5. OneMore(w, p, Request(c, n))
  BY <1>1, <1>2, <1>3 DEF OneMore
<1>6. Append(p, Request(c, n)) = w
  BY <1>2, <1>4, <1>5, AppendIs DEF SeqT
<1>7. ASSUME NEW m \in 0 .. n PROVE SubSeq(p, 1, m) = Prefix(c, m)
  <2>1. SubSeq(p, 1, m) = [i \in 1 .. m |-> p[i]]
    BY <1>2
  <2>2. \A i \in 1 .. m : p[i] = Request(c, i - 1)
    BY <1>1
  <2> QED BY <2>1, <2>2 DEF Prefix
<1> QED BY <1>2, <1>6, <1>7 DEF p, w

(* What a proxy has taken is a sequence of requests.                         *)
LEMMA TakenType ==
    ASSUME TypeInv, NEW s \in Server
    PROVE  /\ Taken(s) \in ReqSeq /\ batch[s] \in ReqSeq
           /\ submitted[s] \in ObjSeq /\ submitted[s] \in LogSeq
           /\ HistoryOf(submitted[s]) \in ReqSeq
<1>1. batch[s] \in ReqSeq /\ submitted[s] \in ObjSeq
  BY DEF TypeInv
<1>2. submitted[s] \in LogSeq /\ HistoryOf(submitted[s]) \in ReqSeq
  BY <1>1, ObjectsAreSlots, HistoryType
<1>3. \A u, v \in ReqSeq : u \o v \in ReqSeq
  BY DEF ReqSeq
<1> QED BY <1>1, <1>2, <1>3 DEF Taken

(* A batch with a request more.                                              *)
LEMMA AppendRequest ==
    ASSUME NEW b \in ReqSeq, NEW r \in ReqName
    PROVE  /\ Append(b, r) \in ReqSeq /\ Append(b, r) # << >>
           /\ Len(Append(b, r)) = Len(b) + 1 /\ Len(b) \in Nat
           /\ Append(b, r)[Len(b) + 1] = r
           /\ \A i \in 1 .. Len(b) : Append(b, r)[i] = b[i]
BY DEF ReqSeq

(* A received request is the last that its proxy took, whether it closes the *)
(* batch or not.                                                             *)
LEMMA ReceiveStep ==
    ASSUME TypeInv, ProxyInv, NEW c \in Client, ReceiveRequest(c)
    PROVE  /\ TypeInv' /\ ProxyInv' /\ (\A t \in Server : Broadcasts(t))
           /\ Request(c, received[c]) \in ReqName
           /\ Taken(ProxyOf[c])' = Append(Taken(ProxyOf[c]), Request(c, received[c]))
           /\ \A t \in Server \ {ProxyOf[c]} : Taken(t)' = Taken(t)
<1> DEFINE s == ProxyOf[c]
           r == Request(c, received[c])
           reqs == Append(batch[s], r)
<1>1. /\ s \in Server /\ received[c] \in Nat /\ received[c] < sent[c]
      /\ sent[c] \in Nat /\ sent[c] <= Len(Requests[c]) /\ Len(Requests[c]) \in Nat
  <2>1. Requests[c] \in Seq(Seq(Command))
    BY RequestsAssumption
  <2>2. Len(Requests[c]) \in Nat
    BY <2>1
  <2>3. received[c] < sent[c]
    BY DEF ReceiveRequest
  <2>4. received[c] \in Nat /\ sent[c] \in Nat /\ sent[c] <= Len(Requests[c])
    BY DEF TypeInv
  <2> QED BY <2>2, <2>3, <2>4, ProxyAssumption
<1>2. r \in ReqName /\ r.cli = c
  BY <1>1 DEF Request, ReqName
<1>3. batch[s] \in ReqSeq /\ Len(batch[s]) < ProxyBatchSize /\ OwnClients(s, batch[s])
  BY <1>1 DEF TypeInv, ProxyInv
<1> HIDE DEF r
<1>4. /\ reqs \in ReqSeq /\ reqs # << >> /\ Len(reqs) = Len(batch[s]) + 1 /\ Len(batch[s]) \in Nat
      /\ reqs[Len(batch[s]) + 1] = r /\ \A i \in 1 .. Len(batch[s]) : reqs[i] = batch[s][i]
  BY <1>2, <1>3, AppendRequest
<1> HIDE DEF reqs
<1>5. OwnClients(s, reqs)
  <2> SUFFICES ASSUME NEW j \in 1 .. Len(reqs) PROVE ProxyOf[reqs[j].cli] = s
    BY DEF OwnClients
  <2>1. CASE j = Len(batch[s]) + 1
    BY <1>2, <1>4, <2>1
  <2>2. CASE j # Len(batch[s]) + 1
    <3>1. j \in 1 .. Len(batch[s])
      BY <1>4, <2>2
    <3> QED BY <1>3, <1>4, <3>1 DEF OwnClients
  <2> QED BY <2>1, <2>2
<1>6. /\ received' = [received EXCEPT ![c] = @ + 1]
      /\ UNCHANGED <<StorageMode, sent, log, decided, currSeq>>
  BY DEF ReceiveRequest, consensusVars, executorVars
<1>7. IF Len(reqs) = ProxyBatchSize
      THEN Submit(s, reqs)
      ELSE batch' = [batch EXCEPT ![s] = reqs] /\ UNCHANGED submitted
  BY DEF ReceiveRequest, reqs, r
<1>8. /\ batch' \in [Server -> ReqSeq] /\ submitted' \in [Server -> ObjSeq]
      /\ \A t \in Server : Len(batch'[t]) < ProxyBatchSize
      /\ ProxyInv'
      /\ \A t \in Server : Broadcasts(t)
      /\ HistoryOf(submitted'[s]) \o batch'[s] = HistoryOf(submitted[s]) \o reqs
      /\ \A t \in Server \ {s} : submitted'[t] = submitted[t] /\ batch'[t] = batch[t]
  <2>1. CASE Len(reqs) = ProxyBatchSize
    <3>1. Submit(s, reqs)
      BY <1>7, <2>1
    <3> HIDE DEF s
    <3> QED BY <1>1, <1>4, <1>5, <3>1, SubmitStep
  <2>2. CASE Len(reqs) # ProxyBatchSize
    <3>0. /\ batch \in [Server -> ReqSeq] /\ submitted \in [Server -> ObjSeq]
          /\ \A t \in Server : Len(batch[t]) < ProxyBatchSize
      BY DEF TypeInv
    <3>1. batch' = [batch EXCEPT ![s] = reqs] /\ submitted' = submitted
      BY <1>7, <2>2
    <3>2. batch'[s] = reqs /\ \A t \in Server \ {s} : batch'[t] = batch[t]
      BY <1>1, <3>0, <3>1
    <3>3. batch' \in [Server -> ReqSeq] /\ submitted' \in [Server -> ObjSeq]
      BY <1>1, <1>4, <3>0, <3>1
    <3>4. \A t \in Server : Len(batch'[t]) < ProxyBatchSize
      <4>1. Len(reqs) < ProxyBatchSize
        BY <1>3, <1>4, <2>2, BatchAssumption
      <4> QED BY <3>0, <3>2, <4>1
    <3>5. ProxyInv'
      BY <1>5, <3>1, <3>2 DEF ProxyInv
    <3>6. \A t \in Server : Broadcasts(t)
      BY <3>1 DEF Broadcasts
    <3> QED BY <3>1, <3>2, <3>3, <3>4, <3>5, <3>6
  <2> QED BY <2>1, <2>2
<1>9. TypeInv'
  <2>1. received' \in [Client -> Nat] /\ \A d \in Client : received'[d] <= sent'[d]
    BY <1>1, <1>6 DEF TypeInv
  <2> QED BY <1>6, <1>8, <2>1 DEF TypeInv
<1>10. Taken(s)' = Append(Taken(s), r)
  <2>1. batch[s] \in ReqSeq /\ HistoryOf(submitted[s]) \in ReqSeq
    BY <1>1, TakenType
  <2>2. \A u, v \in ReqSeq : u \o Append(v, r) = Append(u \o v, r)
    BY ConcatAppend DEF ReqSeq
  <2>3. HistoryOf(submitted[s]) \o reqs = Append(HistoryOf(submitted[s]) \o batch[s], r)
    BY <2>1, <2>2 DEF reqs
  <2> QED BY <1>8, <2>3 DEF Taken
<1>11. \A t \in Server \ {s} : Taken(t)' = Taken(t)
  BY <1>8 DEF Taken
<1> QED BY <1>2, <1>8, <1>9, <1>10, <1>11 DEF r

(* What the proxy has taken of each client, in order.                        *)
KeepInv == \A c \in Client : Of(c, Taken(ProxyOf[c])) = Prefix(c, received[c])

(* So the requests taken of each client stay its first ones, in order.       *)
LEMMA ReceiveKeeps ==
    ASSUME TypeInv, ProxyInv, KeepInv, NEW c \in Client, ReceiveRequest(c)
    PROVE  KeepInv'
<1> DEFINE r == Request(c, received[c])
<1>1. /\ r \in ReqName
      /\ Taken(ProxyOf[c])' = Append(Taken(ProxyOf[c]), r)
      /\ \A t \in Server \ {ProxyOf[c]} : Taken(t)' = Taken(t)
  BY ReceiveStep
<1>2. received \in [Client -> Nat] /\ received' = [received EXCEPT ![c] = @ + 1]
  BY DEF TypeInv, ReceiveRequest
<1>3. r.cli = c
  BY DEF Request
<1> HIDE DEF r
<1>4. SUFFICES ASSUME NEW d \in Client
               PROVE  Of(d, Taken(ProxyOf[d])') = Prefix(d, received'[d])
  BY DEF KeepInv
<1>5. ProxyOf[d] \in Server /\ Taken(ProxyOf[d]) \in ReqSeq
  BY ProxyAssumption, TakenType
<1>6. Of(d, Taken(ProxyOf[d])) = Prefix(d, received[d])
  BY DEF KeepInv
<1>7. CASE d = c
  <2>1. Of(c, Append(Taken(ProxyOf[c]), r)) = Append(Of(c, Taken(ProxyOf[c])), r)
    BY <1>1, <1>3, <1>5, <1>7, OfAppend
  <2>2. Append(Prefix(c, received[c]), r) = Prefix(c, received[c] + 1)
    BY <1>2, PrefixStep DEF r
  <2> QED BY <1>1, <1>2, <1>6, <1>7, <2>1, <2>2
<1>8. CASE d # c
  <2>1. received'[d] = received[d]
    BY <1>2, <1>8
  <2>2. CASE ProxyOf[d] = ProxyOf[c]
    <3>1. Of(d, Append(Taken(ProxyOf[d]), r)) = Of(d, Taken(ProxyOf[d]))
      BY <1>1, <1>3, <1>5, <1>8, OfAppend
    <3>2. Taken(ProxyOf[d])' = Append(Taken(ProxyOf[d]), r)
      BY <1>1, <2>2
    <3> QED BY <1>6, <2>1, <3>1, <3>2
  <2>3. CASE ProxyOf[d] # ProxyOf[c]
    <3>1. Taken(ProxyOf[d])' = Taken(ProxyOf[d])
      BY <1>1, <1>5, <2>3
    <3> QED BY <1>6, <2>1, <3>1
  <2> QED BY <2>2, <2>3
<1> QED BY <1>7, <1>8

-----------------------------------------------------------------------------
(* The log: of each proxy, the first objects in order, each once.            *)

(* The log has the first k objects of s and no other, and the requests of    *)
(* its clients in their order.                                               *)
UpTo(s, k) ==
    /\ \A i \in 1 .. Len(submitted[s]) : submitted[s][i] \in InLog <=> i <= k
    /\ \A c \in Client : ProxyOf[c] = s =>
          Of(c, HistoryOf(log)) = Of(c, HistoryOf(SubSeq(submitted[s], 1, k)))

(* It is among the broadcasts of its proxy.                                  *)
Broadcast(o) ==
    o.proId \in Server /\ \E i \in 1 .. Len(submitted[o.proId]) : o = submitted[o.proId][i]

(* The log has of each proxy the first objects, each once (ProSeq, the       *)
(* pending queue).                                                           *)
LogInv ==
    /\ \A o \in InLog : Broadcast(o)
    /\ \A s \in Server : \E k \in 0 .. Len(submitted[s]) : UpTo(s, k)

(* A broadcast leaves what the log has of the proxy as it is.                *)
LEMMA BroadcastsStep ==
    ASSUME TypeInv, ProxyInv, LogInv, log' = log, NEW s \in Server, Broadcasts(s)
    PROVE  /\ \A i \in 1 .. Len(submitted[s]) :
                 i \in 1 .. Len(submitted'[s]) /\ submitted'[s][i] = submitted[s][i]
           /\ \A k \in 0 .. Len(submitted[s]) : UpTo(s, k) => UpTo(s, k)'
<1>0. submitted[s] \in ObjSeq /\ submitted[s] \in Seq(Obj) /\ Len(submitted[s]) \in Nat
  BY TakenType DEF ObjSeq
<1>i. InLog' = InLog
  BY DEF InLog
<1>1. CASE submitted'[s] = submitted[s]
  BY <1>1, <1>i DEF UpTo
<1>2. CASE submitted'[s] # submitted[s]
  <2>1. PICK o \in Obj : /\ submitted'[s] = Append(submitted[s], o)
                         /\ ObjectOf(s, Len(submitted[s]) + 1, o)
    BY <1>2 DEF Broadcasts
  <2> DEFINE n == Len(submitted[s])
             more == submitted'[s]
  <2>2. /\ Len(more) = n + 1 /\ more[n + 1] = o /\ \A i \in 1 .. n : more[i] = submitted[s][i]
        /\ \A k \in 0 .. n : SubSeq(more, 1, k) = SubSeq(submitted[s], 1, k)
    BY <1>0, <2>1
  <2> HIDE DEF n
  <2>3. n \in Nat
    BY <1>0 DEF n
  <2>4. o \notin InLog
    <3>1. SUFFICES ASSUME o \in InLog PROVE FALSE
      OBVIOUS
    <3>2. o.proId = s /\ o.proSeq = n
      BY <2>1, <2>3 DEF ObjectOf, n
    <3>3. PICK i \in 1 .. n : o = submitted[s][i]
      BY <3>1, <3>2 DEF LogInv, Broadcast, n
    <3>4. o.proSeq = i - 1
      BY <3>3 DEF ProxyInv, ObjectOf, n
    <3> QED BY <2>3, <3>2, <3>4
  <2>5. ASSUME NEW k \in 0 .. n, UpTo(s, k) PROVE UpTo(s, k)'
    <3>1. ASSUME NEW i \in 1 .. n + 1 PROVE more[i] \in InLog <=> i <= k
      <4>1. CASE i = n + 1
        BY <2>2, <2>3, <2>4, <4>1
      <4>2. CASE i # n + 1
        <5>1. i \in 1 .. n
          BY <2>3, <4>2
        <5>2. submitted[s][i] \in InLog <=> i <= k
          BY <2>5, <5>1 DEF UpTo, n
        <5> QED BY <2>2, <5>1, <5>2
      <4> QED BY <4>1, <4>2
    <3>2. \A c \in Client : ProxyOf[c] = s =>
             Of(c, HistoryOf(log)) = Of(c, HistoryOf(SubSeq(more, 1, k)))
      BY <2>2, <2>5 DEF UpTo
    <3> QED BY <1>i, <2>2, <3>1, <3>2 DEF UpTo
  <2>6. \A i \in 1 .. n : i \in 1 .. Len(more) /\ more[i] = submitted[s][i]
    BY <2>2, <2>3
  <2> QED BY <2>5, <2>6 DEF n
<1> QED BY <1>1, <1>2

(* So it does for all proxies.                                               *)
LEMMA BroadcastKeepsLog ==
    ASSUME TypeInv, ProxyInv, LogInv, log' = log, \A s \in Server : Broadcasts(s)
    PROVE  LogInv'
<1>i. InLog' = InLog
  BY DEF InLog
<1>1. ASSUME NEW s \in Server
      PROVE  /\ \A i \in 1 .. Len(submitted[s]) :
                   i \in 1 .. Len(submitted'[s]) /\ submitted'[s][i] = submitted[s][i]
             /\ \A k \in 0 .. Len(submitted[s]) : UpTo(s, k) => UpTo(s, k)'
  BY BroadcastsStep
<1>2. ASSUME NEW o \in InLog PROVE Broadcast(o)'
  <2>1. o.proId \in Server
    BY DEF LogInv, Broadcast
  <2>2. PICK i \in 1 .. Len(submitted[o.proId]) : o = submitted[o.proId][i]
    BY DEF LogInv, Broadcast
  <2> QED BY <1>1, <2>1, <2>2 DEF Broadcast
<1>3. ASSUME NEW s \in Server PROVE \E k \in 0 .. Len(submitted'[s]) : UpTo(s, k)'
  <2>1. PICK k \in 0 .. Len(submitted[s]) : UpTo(s, k)
    BY DEF LogInv
  <2>2. UpTo(s, k)'
    BY <1>1, <2>1
  <2>3. Len(submitted[s]) \in Nat
    BY TakenType DEF ObjSeq
  <2>4. k \in 0 .. Len(submitted'[s])
    <3>1. CASE submitted'[s] = submitted[s]
      BY <3>1
    <3>2. CASE submitted'[s] # submitted[s]
      <4>1. PICK o \in Obj : submitted'[s] = Append(submitted[s], o)
        BY <3>2 DEF Broadcasts
      <4>2. Len(submitted'[s]) = Len(submitted[s]) + 1
        BY <4>1, TakenType DEF ObjSeq
      <4> QED BY <2>3, <4>2
    <3> QED BY <3>1, <3>2
  <2> QED BY <2>2, <2>4
<1> QED BY <1>i, <1>2, <1>3 DEF LogInv

(* A slot decided to Null leaves the history as it is.                       *)
LEMMA NullStep ==
    ASSUME TypeInv, LogInv, log' = Append(log, Null), submitted' = submitted
    PROVE  /\ log' \in LogSeq /\ Len(log') = Len(log) + 1
           /\ HistoryOf(log') = HistoryOf(log) /\ LogInv'
<1>1. log \in LogSeq /\ Len(log) \in Nat /\ DOMAIN log = 1 .. Len(log)
  BY DEF TypeInv, LogSeq
<1>2. /\ log' \in LogSeq /\ Len(log') = Len(log) + 1 /\ DOMAIN log' = 1 .. Len(log) + 1
      /\ log'[Len(log) + 1] = Null /\ \A i \in 1 .. Len(log) : log'[i] = log[i]
  BY <1>1 DEF LogSeq
<1>3. HistoryOf(log') = HistoryOf(log)
  <2>1. HistoryOf(log') = HistoryOf(log) \o SlotReqs(Null)
    BY <1>1, HistoryAppend
  <2>2. \A h \in ReqSeq : h \o << >> = h
    BY DEF ReqSeq
  <2> QED BY <1>1, <2>1, <2>2, HistoryType DEF SlotReqs
<1>4. InLog' = InLog
  <2>1. \A i \in 1 .. Len(log) + 1 : i \in 1 .. Len(log) \/ log'[i] = Null
    BY <1>1, <1>2
  <2>2. \A i \in 1 .. Len(log) : i \in 1 .. Len(log) + 1
    BY <1>1
  <2> QED BY <1>1, <1>2, <2>1, <2>2 DEF InLog
<1>5. LogInv'
  BY <1>3, <1>4 DEF LogInv, Broadcast, UpTo
<1> QED BY <1>2, <1>3, <1>5

(* An object that can be decided is the next one of its proxy.               *)
LEMMA DecidableIsNext ==
    ASSUME TypeInv, ProxyInv, LogInv, NEW o \in Decidable
    PROVE  /\ o \in Obj /\ o # Null /\ o.reqs # << >> /\ o.proId \in Server
           /\ OwnClients(o.proId, o.reqs)
           /\ \E k \in Nat :
                 /\ k + 1 \in 1 .. Len(submitted[o.proId]) /\ submitted[o.proId][k + 1] = o
                 /\ UpTo(o.proId, k)
<1>1. PICK s \in Server : \E i \in DOMAIN submitted[s] : o = submitted[s][i]
  BY DEF Decidable
<1>2. submitted[s] \in Seq(Obj) /\ Len(submitted[s]) \in Nat
         /\ DOMAIN submitted[s] = 1 .. Len(submitted[s])
  BY TakenType DEF ObjSeq
<1>3. PICK i \in 1 .. Len(submitted[s]) : o = submitted[s][i]
  BY <1>1, <1>2
<1>4. o \in Obj /\ o.proId = s /\ o.proSeq = i - 1 /\ o.reqs # << >> /\ OwnClients(s, o.reqs)
  BY <1>2, <1>3 DEF ProxyInv, ObjectOf
<1>5. PICK k \in 0 .. Len(submitted[s]) : UpTo(s, k)
  BY DEF LogInv
<1>6. i = k + 1
  <2>1. ~(i <= k)
    <3>1. o \notin InLog
      BY DEF Decidable
    <3> QED BY <1>3, <1>5, <3>1 DEF UpTo
  <2>2. \A j \in 1 .. i - 1 : submitted[s][j] \in InLog
    BY <1>4 DEF Decidable
  <2>3. SUFFICES ASSUME i # k + 1 PROVE FALSE
    OBVIOUS
  <2>4. k + 1 \in 1 .. i - 1 /\ k + 1 \in 1 .. Len(submitted[s])
    BY <1>2, <1>3, <1>5, <2>1, <2>3
  <2>5. k + 1 <= k
    BY <1>5, <2>2, <2>4 DEF UpTo
  <2> QED BY <1>5, <2>5
<1>7. k \in Nat /\ k + 1 \in 1 .. Len(submitted[s])
  BY <1>2, <1>3, <1>5, <1>6
<1> QED BY <1>3, <1>4, <1>5, <1>6, <1>7, ObjNotNull

(* Deciding it adds its requests to the history.                             *)
LEMMA DecideStep ==
    ASSUME TypeInv, ProxyInv, LogInv, NEW o \in Decidable, log' = Append(log, o),
           submitted' = submitted
    PROVE  /\ log' \in LogSeq /\ Len(log') = Len(log) + 1
           /\ o.reqs \in ReqSeq /\ o.reqs # << >>
           /\ HistoryOf(log') = HistoryOf(log) \o o.reqs
           /\ LogInv'
<1> DEFINE s == o.proId
           objs == submitted[o.proId]
<1>1. /\ o \in Obj /\ o # Null /\ o.reqs # << >> /\ s \in Server /\ OwnClients(s, o.reqs)
  BY DecidableIsNext
<1>2. PICK k \in Nat : k + 1 \in 1 .. Len(objs) /\ objs[k + 1] = o /\ UpTo(s, k)
  BY DecidableIsNext
<1>3. log \in LogSeq /\ Len(log) \in Nat /\ DOMAIN log = 1 .. Len(log)
  BY DEF TypeInv, LogSeq
<1>4. /\ log' \in LogSeq /\ Len(log') = Len(log) + 1 /\ DOMAIN log' = 1 .. Len(log) + 1
      /\ log'[Len(log) + 1] = o /\ \A i \in 1 .. Len(log) : log'[i] = log[i]
  BY <1>1, <1>3 DEF LogSeq
<1>5. SlotReqs(o) = o.reqs /\ o.reqs \in ReqSeq
  BY <1>1 DEF SlotReqs, Obj
<1>6. HistoryOf(log') = HistoryOf(log) \o o.reqs
  BY <1>1, <1>3, <1>5, HistoryAppend
<1>7. InLog' = InLog \cup {o}
  <2>1. \A i \in 1 .. Len(log) + 1 : i \in 1 .. Len(log) \/ i = Len(log) + 1
    BY <1>3
  <2>2. /\ \A i \in 1 .. Len(log) : i \in 1 .. Len(log) + 1
        /\ Len(log) + 1 \in 1 .. Len(log) + 1
    BY <1>3
  <2> QED BY <1>1, <1>3, <1>4, <2>1, <2>2 DEF InLog
<1>8. HistoryOf(log) \in ReqSeq
  BY <1>3, HistoryType
<1>9. ASSUME NEW c \in Client
      PROVE  Of(c, HistoryOf(log')) = Of(c, HistoryOf(log)) \o Of(c, o.reqs)
  BY <1>5, <1>6, <1>8, OfConcat
<1>10. UpTo(s, k + 1)'
  <2>1. objs \in ObjSeq /\ objs \in LogSeq /\ Len(objs) \in Nat /\ submitted'[s] = objs
    BY <1>1, TakenType DEF ObjSeq
  <2>2. ASSUME NEW i \in 1 .. Len(objs) PROVE objs[i] \in InLog' <=> i <= k + 1
    <3>1. objs[i] \in InLog <=> i <= k
      BY <1>2 DEF UpTo
    <3>2. objs[i] = o <=> i = k + 1
      <4>1. objs[i].proSeq = i - 1 /\ objs[k + 1].proSeq = k + 1 - 1
        <5>1. ObjectOf(s, i, objs[i]) /\ ObjectOf(s, k + 1, objs[k + 1])
          BY <1>1, <1>2 DEF ProxyInv
        <5> QED BY <5>1 DEF ObjectOf
      <4> HIDE DEF objs
      <4>2. objs[i] = o => i = k + 1
        BY <1>2, <2>1, <4>1
      <4> QED BY <1>2, <4>2
    <3> QED BY <1>2, <1>7, <2>1, <3>1, <3>2
  <2>3. ASSUME NEW c \in Client, ProxyOf[c] = s
        PROVE  Of(c, HistoryOf(log')) = Of(c, HistoryOf(SubSeq(objs, 1, k + 1)))
    <3>1. /\ SubSeq(objs, 1, k) \in LogSeq
          /\ SubSeq(objs, 1, k + 1) = Append(SubSeq(objs, 1, k), o)
      <4> HIDE DEF objs
      <4>1. objs \in Seq(Obj \cup {Null}) /\ k \in 0 .. Len(objs) /\ k + 1 <= Len(objs)
        BY <1>2, <2>1 DEF LogSeq
      <4> QED BY <1>2, <4>1 DEF LogSeq
    <3>2. HistoryOf(SubSeq(objs, 1, k + 1)) = HistoryOf(SubSeq(objs, 1, k)) \o o.reqs
      BY <1>1, <1>5, <3>1, HistoryAppend
    <3>3. HistoryOf(SubSeq(objs, 1, k)) \in ReqSeq
      BY <3>1, HistoryType
    <3>4. Of(c, HistoryOf(SubSeq(objs, 1, k)) \o o.reqs) =
             Of(c, HistoryOf(SubSeq(objs, 1, k))) \o Of(c, o.reqs)
      BY <1>5, <3>3, OfConcat
    <3>5. Of(c, HistoryOf(log)) = Of(c, HistoryOf(SubSeq(objs, 1, k)))
      BY <1>2, <2>3 DEF UpTo
    <3>6. Of(c, HistoryOf(log')) = Of(c, HistoryOf(log)) \o Of(c, o.reqs)
      BY <1>9
    <3> QED BY ONLY <3>2, <3>4, <3>5, <3>6
  <2> QED BY <2>1, <2>2, <2>3 DEF UpTo
<1>11. ASSUME NEW t \in Server, t # s, NEW m \in 0 .. Len(submitted[t]), UpTo(t, m)
       PROVE  UpTo(t, m)'
  <2>1. ASSUME NEW i \in 1 .. Len(submitted[t])
        PROVE  submitted[t][i] \in InLog' <=> i <= m
    <3>1. submitted[t][i] # o
      BY <1>11 DEF ProxyInv, ObjectOf
    <3>2. submitted[t][i] \in InLog <=> i <= m
      BY <1>11 DEF UpTo
    <3> QED BY <1>7, <3>1, <3>2
  <2>2. ASSUME NEW c \in Client, ProxyOf[c] = t
        PROVE  Of(c, HistoryOf(log')) = Of(c, HistoryOf(log))
    <3>1. \A j \in 1 .. Len(o.reqs) : o.reqs[j].cli # c
      BY <1>1, <1>11, <2>2 DEF OwnClients
    <3>2. Of(c, o.reqs) = << >>
      BY <1>5, <3>1, OfNone
    <3>3. Of(c, HistoryOf(log)) \in ReqSeq
      BY <1>8, OfType
    <3>4. \A h \in ReqSeq : h \o << >> = h
      BY DEF ReqSeq
    <3>5. Of(c, HistoryOf(log)) \o Of(c, o.reqs) = Of(c, HistoryOf(log))
      BY <3>2, <3>3, <3>4
    <3> QED BY <1>9, <3>5
  <2> QED BY <1>11, <2>1, <2>2 DEF UpTo
<1>12. LogInv'
  <2>1. ASSUME NEW t \in Server
        PROVE  \E m \in 0 .. Len(submitted'[t]) : UpTo(t, m)'
    <3>1. CASE t = s
      <4>1. k + 1 \in 0 .. Len(submitted'[t])
        BY <1>2, <3>1
      <4> QED BY <1>10, <3>1, <4>1
    <3>2. CASE t # s
      <4>1. PICK m \in 0 .. Len(submitted[t]) : UpTo(t, m)
        BY DEF LogInv
      <4>2. UpTo(t, m)'
        BY <1>11, <3>2, <4>1
      <4> QED BY <4>2
    <3> QED BY <3>1, <3>2
  <2>2. ASSUME NEW x \in InLog' PROVE Broadcast(x)'
    <3>1. CASE x = o
      BY <1>1, <1>2, <3>1 DEF Broadcast
    <3>2. CASE x # o
      BY <1>7, <3>2 DEF LogInv, Broadcast
    <3> QED BY <3>1, <3>2
  <2> QED BY <2>1, <2>2 DEF LogInv
<1> QED BY <1>1, <1>4, <1>5, <1>6, <1>12

(* What the log has of a client is a first part of what its proxy took.      *)
HistoryInv ==
    \A c \in Client : \E n \in 0 .. received[c] : Of(c, HistoryOf(log)) = Prefix(c, n)

(* It follows from the batches and the log.                                  *)
LEMMA HistoryInOrder ==
    ASSUME TypeInv, ProxyInv, KeepInv, LogInv
    PROVE  HistoryInv
<1> SUFFICES ASSUME NEW c \in Client
             PROVE  \E n \in 0 .. received[c] : Of(c, HistoryOf(log)) = Prefix(c, n)
  BY DEF HistoryInv
<1> DEFINE s == ProxyOf[c]
<1>1. s \in Server /\ received[c] \in Nat
  BY ProxyAssumption DEF TypeInv
<1>2. submitted[s] \in LogSeq /\ batch[s] \in ReqSeq /\ HistoryOf(submitted[s]) \in ReqSeq
  BY <1>1, TakenType
<1>3. PICK k \in 0 .. Len(submitted[s]) : UpTo(s, k)
  BY <1>1 DEF LogInv
<1>4. Of(c, HistoryOf(log)) = Of(c, HistoryOf(SubSeq(submitted[s], 1, k)))
  BY <1>3 DEF UpTo
<1> DEFINE u == HistoryOf(SubSeq(submitted[s], 1, k))
<1>5. u \in ReqSeq /\ \E rest \in ReqSeq : HistoryOf(submitted[s]) = u \o rest
  BY <1>2, <1>3, HistoryPrefix, HistoryType
<1>6. PICK rest \in ReqSeq : HistoryOf(submitted[s]) = u \o rest
  BY <1>5
<1> HIDE DEF u
<1>7. Of(c, Taken(s)) = (Of(c, u) \o Of(c, rest)) \o Of(c, batch[s])
  <2>1. Of(c, HistoryOf(submitted[s]) \o batch[s]) =
           Of(c, HistoryOf(submitted[s])) \o Of(c, batch[s])
    BY <1>2, OfConcat
  <2>2. Of(c, u \o rest) = Of(c, u) \o Of(c, rest)
    BY <1>5, <1>6, OfConcat
  <2> QED BY <1>6, <2>1, <2>2 DEF Taken
<1> DEFINE a == Of(c, u)
           b == Of(c, rest)
           d == Of(c, batch[s])
           n == Len(a)
<1>8. a \in ReqSeq /\ b \in ReqSeq /\ d \in ReqSeq
  BY <1>2, <1>5, OfType
<1>9. (a \o b) \o d = Prefix(c, received[c])
  BY <1>1, <1>7 DEF KeepInv
<1> HIDE DEF a, b, d
<1>10. /\ n \in Nat /\ n <= Len((a \o b) \o d)
       /\ SubSeq((a \o b) \o d, 1, n) = a
  <2>1. /\ b \o d \in ReqSeq /\ Len(b \o d) \in Nat
        /\ (a \o b) \o d = a \o (b \o d)
    BY <1>8, ConcatProperties, ConcatAssociative DEF ReqSeq
  <2> DEFINE e == b \o d
  <2> HIDE DEF e
  <2>2. n \in Nat /\ n <= Len(a \o e) /\ SubSeq(a \o e, 1, n) = a
    BY <1>8, <2>1 DEF ReqSeq, e, n
  <2> QED BY <2>1, <2>2 DEF e
<1>11. Len(Prefix(c, received[c])) = received[c]
  BY <1>1, PrefixStep
<1>12. n \in 0 .. received[c]
  BY <1>1, <1>9, <1>10, <1>11
<1>13. a = Prefix(c, n)
  <2> HIDE DEF n
  <2>1. SubSeq(Prefix(c, received[c]), 1, n) = Prefix(c, n)
    BY <1>1, <1>12, PrefixStep
  <2> QED BY <1>9, <1>10, <2>1
<1> QED BY <1>4, <1>12, <1>13 DEF a, u

(* The answer to r after the requests before it, to the request at place p   *)
(* of h, and to all requests of c in h.                                      *)
AnswerTo(kv, before, r) ==
    [seq |-> r.seq, results |-> Results(After(kv, Flatten(before)), CommandsOf(r))]
AnswerAt(kv, h, p) == AnswerTo(kv, SubSeq(h, 1, p - 1), h[p])
Answers(kv, c, h) ==
    [i \in 1 .. Len(PlacesOf(c, h)) |-> AnswerAt(kv, h, PlacesOf(c, h)[i])]

(* The store after two sequences of requests.                                *)
LEMMA AfterFlatten ==
    ASSUME NEW kv \in KVStore, NEW first \in ReqSeq, NEW rest \in ReqSeq
    PROVE  After(kv, Flatten(first \o rest)) = After(After(kv, Flatten(first)), Flatten(rest))
<1>1. Flatten(first) \in Seq(Command) /\ Flatten(rest) \in Seq(Command)
  BY FlattenType DEF CmdSeq, SeqT
<1>2. After(kv, Flatten(first) \o Flatten(rest)) = After(After(kv, Flatten(first)), Flatten(rest))
  <2> DEFINE a == Flatten(first)
             b == Flatten(rest)
  <2>1. a \in Seq(Command) /\ b \in Seq(Command)
    BY <1>1
  <2> HIDE DEF a, b
  <2>2. After(kv, a \o b) = After(After(kv, a), b)
    BY <2>1, AfterConcat
  <2> QED BY <2>2 DEF a, b
<1>3. Flatten(first \o rest) = Flatten(first) \o Flatten(rest)
  BY FlattenConcat
<1> QED BY ONLY <1>2, <1>3

(* The requests of two sequences, and what comes before each.                *)
LEMMA ConcatRequests ==
    ASSUME NEW first \in ReqSeq, NEW rest \in ReqSeq
    PROVE  /\ first \o rest \in ReqSeq /\ Len(first \o rest) = Len(first) + Len(rest)
           /\ Len(first) \in Nat /\ Len(rest) \in Nat
           /\ \A p \in 1 .. Len(first) :
                 /\ (first \o rest)[p] = first[p]
                 /\ SubSeq(first \o rest, 1, p - 1) = SubSeq(first, 1, p - 1)
           /\ \A p \in 1 .. Len(rest) :
                 /\ (first \o rest)[Len(first) + p] = rest[p]
                 /\ SubSeq(rest, 1, p - 1) \in ReqSeq
                 /\ SubSeq(first \o rest, 1, Len(first) + p - 1) = first \o SubSeq(rest, 1, p - 1)
<1>1. first \in Seq(ReqName) /\ rest \in Seq(ReqName)
  BY DEF ReqSeq
<1>2. /\ first \o rest \in Seq(ReqName) /\ Len(first \o rest) = Len(first) + Len(rest)
      /\ Len(first) \in Nat /\ Len(rest) \in Nat
  BY <1>1
<1>3. ASSUME NEW p \in 1 .. Len(first)
      PROVE  /\ (first \o rest)[p] = first[p]
             /\ SubSeq(first \o rest, 1, p - 1) = SubSeq(first, 1, p - 1)
  BY <1>1, <1>2
<1>4. ASSUME NEW p \in 1 .. Len(rest)
      PROVE  /\ (first \o rest)[Len(first) + p] = rest[p]
             /\ SubSeq(rest, 1, p - 1) \in Seq(ReqName)
  BY <1>1, <1>2
<1>5. ASSUME NEW p \in 1 .. Len(rest)
      PROVE  SubSeq(first \o rest, 1, Len(first) + p - 1) = first \o SubSeq(rest, 1, p - 1)
  <2> DEFINE u == SubSeq(first \o rest, 1, Len(first) + p - 1)
             v == SubSeq(rest, 1, p - 1)
             w == first \o v
  <2>1. /\ v \in Seq(ReqName) /\ Len(v) = p - 1
        /\ \A i \in 1 .. p - 1 : v[i] = rest[i]
    BY <1>1, <1>2
  <2>2. /\ u \in Seq(ReqName) /\ Len(u) = Len(first) + p - 1
        /\ \A i \in 1 .. Len(first) + p - 1 : u[i] = (first \o rest)[i]
    BY <1>1, <1>2
  <2> HIDE DEF u, v
  <2>3. /\ w \in Seq(ReqName) /\ Len(w) = Len(first) + p - 1
        /\ \A i \in 1 .. Len(first) : w[i] = first[i]
        /\ \A i \in Len(first) + 1 .. Len(first) + p - 1 : w[i] = v[i - Len(first)]
    <3>1. first \in SeqT(ReqName) /\ v \in SeqT(ReqName)
      BY <1>1, <2>1 DEF SeqT
    <3>2. /\ w \in SeqT(ReqName) /\ Len(w) = Len(first) + Len(v)
          /\ \A i \in 1 .. Len(first) : w[i] = first[i]
          /\ \A i \in Len(first) + 1 .. Len(first) + Len(v) : w[i] = v[i - Len(first)]
      BY <3>1, ConcatParts
    <3> HIDE DEF w
    <3>3. Len(first) + (p - 1) = Len(first) + p - 1
      BY <1>2
    <3> QED BY <2>1, <3>2, <3>3 DEF SeqT
  <2>4. ASSUME NEW i \in 1 .. Len(first) + p - 1 PROVE u[i] = w[i]
    <3>1. CASE i \in 1 .. Len(first)
      <4>1. (first \o rest)[i] = first[i]
        BY <1>3, <3>1
      <4> QED BY <2>2, <2>3, <3>1, <4>1
    <3>2. CASE i \notin 1 .. Len(first)
      <4>1. /\ i \in Len(first) + 1 .. Len(first) + p - 1 /\ i - Len(first) \in 1 .. Len(rest)
            /\ i - Len(first) \in 1 .. p - 1 /\ Len(first) + (i - Len(first)) = i
        BY <1>2, <3>2
      <4>2. (first \o rest)[Len(first) + (i - Len(first))] = rest[i - Len(first)]
        BY <1>4, <4>1
      <4> QED BY <2>1, <2>2, <2>3, <4>1, <4>2
    <3> QED BY <3>1, <3>2
  <2> HIDE DEF w
  <2>5. u = w
    BY <2>2, <2>3, <2>4, SeqEqual
  <2> QED BY <2>5 DEF u, v, w
<1> QED BY <1>2, <1>3, <1>4, <1>5 DEF ReqSeq

(* A sequence with the elements of two others is their concatenation.        *)
LEMMA ConcatIs ==
    ASSUME NEW T, NEW s \in SeqT(T), NEW t \in SeqT(T), NEW w \in SeqT(T),
           Len(w) = Len(s) + Len(t),
           \A i \in 1 .. Len(s) : w[i] = s[i],
           \A i \in 1 .. Len(t) : w[Len(s) + i] = t[i]
    PROVE  w = s \o t
<1>1. s \in Seq(T) /\ t \in Seq(T) /\ w \in Seq(T)
  BY DEF SeqT
<1>2. /\ s \o t \in Seq(T) /\ Len(s \o t) = Len(s) + Len(t)
      /\ \A i \in 1 .. Len(s) : (s \o t)[i] = s[i]
      /\ \A i \in Len(s) + 1 .. Len(s) + Len(t) : (s \o t)[i] = t[i - Len(s)]
  BY ConcatParts DEF SeqT
<1>3. ASSUME NEW i \in 1 .. Len(w) PROVE w[i] = (s \o t)[i]
  <2>1. CASE i \in 1 .. Len(s)
    BY <1>2, <2>1
  <2>2. CASE i \notin 1 .. Len(s)
    <3>1. /\ i \in Len(s) + 1 .. Len(s) + Len(t) /\ i - Len(s) \in 1 .. Len(t)
          /\ Len(s) + (i - Len(s)) = i
      BY <1>1, <2>2
    <3>2. w[Len(s) + (i - Len(s))] = t[i - Len(s)]
      BY <3>1
    <3> QED BY <1>2, <3>1, <3>2
  <2> QED BY <2>1, <2>2
<1> QED BY <1>1, <1>2, <1>3, SeqEqual

(* The answers to a history in two parts.                                    *)
LEMMA AnswersConcat ==
    ASSUME NEW kv \in KVStore, NEW c, NEW first \in ReqSeq, NEW rest \in ReqSeq
    PROVE  Answers(kv, c, first \o rest) =
               Answers(kv, c, first) \o Answers(After(kv, Flatten(first)), c, rest)
<1> DEFINE all == first \o rest
           F == Len(first)
           P == PlacesOf(c, first)
           Q == PlacesOf(c, rest)
           kv2 == After(kv, Flatten(first))
           T == {AnswerAt(kv, all, p) : p \in Nat}
           u == Answers(kv, c, first)
           v == Answers(kv2, c, rest)
           w == Answers(kv, c, all)
<1>1. /\ P \in Seq(Nat) /\ \A i \in 1 .. Len(P) : P[i] \in 1 .. F
      /\ Q \in Seq(Nat) /\ \A i \in 1 .. Len(Q) : Q[i] \in 1 .. Len(rest)
  BY PlacesExact
<1>2. /\ all \in ReqSeq /\ F \in Nat /\ Len(rest) \in Nat
      /\ \A p \in 1 .. F : all[p] = first[p] /\ SubSeq(all, 1, p - 1) = SubSeq(first, 1, p - 1)
      /\ \A p \in 1 .. Len(rest) :
            /\ all[F + p] = rest[p]
            /\ SubSeq(rest, 1, p - 1) \in ReqSeq
            /\ SubSeq(all, 1, F + p - 1) = first \o SubSeq(rest, 1, p - 1)
  BY ConcatRequests
<1>3. PlacesOf(c, all) = P \o Shift(F, Q)
  BY PlacesConcat
<1>4. \A p \in 1 .. F : AnswerAt(kv, all, p) = AnswerAt(kv, first, p)
  BY <1>2 DEF AnswerAt
<1>5. ASSUME NEW p \in 1 .. Len(rest) PROVE AnswerAt(kv, all, F + p) = AnswerAt(kv2, rest, p)
  <2>1. \A before \in ReqSeq : \A r :
           AnswerTo(kv, first \o before, r) = AnswerTo(kv2, before, r)
    BY AfterFlatten DEF AnswerTo
  <2>2. /\ all[F + p] = rest[p]
        /\ SubSeq(all, 1, F + p - 1) = first \o SubSeq(rest, 1, p - 1)
    BY <1>2
  <2>3. SubSeq(rest, 1, p - 1) \in ReqSeq
    BY <1>2
  <2> HIDE DEF all, F, kv2
  <2>4. AnswerAt(kv, all, F + p) = AnswerTo(kv, first \o SubSeq(rest, 1, p - 1), rest[p])
    <3>1. AnswerAt(kv, all, F + p) = AnswerTo(kv, SubSeq(all, 1, (F + p) - 1), all[F + p])
      BY DEF AnswerAt
    <3>2. (F + p) - 1 = F + p - 1
      BY <1>2
    <3> QED BY ONLY <2>2, <3>1, <3>2
  <2> QED BY <2>1, <2>3, <2>4 DEF AnswerAt
<1>6. /\ u = [i \in 1 .. Len(P) |-> AnswerAt(kv, first, P[i])]
      /\ v = [i \in 1 .. Len(Q) |-> AnswerAt(kv2, rest, Q[i])]
      /\ w = [i \in 1 .. Len(PlacesOf(c, all)) |-> AnswerAt(kv, all, PlacesOf(c, all)[i])]
  BY DEF Answers
<1> HIDE DEF all, F, P, Q, kv2, u, v, w
<1> DEFINE pq == P \o Shift(F, Q)
<1>7. /\ Len(P) \in Nat /\ Len(Q) \in Nat
      /\ Len(pq) = Len(P) + Len(Q)
      /\ \A i \in 1 .. Len(P) : pq[i] = P[i]
      /\ \A i \in 1 .. Len(Q) : pq[Len(P) + i] = F + Q[i]
  <2> DEFINE z == Shift(F, Q)
  <2>1. z \in Seq(Nat) /\ Len(z) = Len(Q) /\ \A i \in 1 .. Len(Q) : z[i] = F + Q[i]
    BY <1>1, <1>2 DEF Shift
  <2> HIDE DEF z
  <2>2. /\ Len(P \o z) = Len(P) + Len(Q)
        /\ \A i \in 1 .. Len(P) : (P \o z)[i] = P[i]
        /\ \A i \in Len(P) + 1 .. Len(P) + Len(Q) : (P \o z)[i] = z[i - Len(P)]
    <3>1. P \in SeqT(Nat) /\ z \in SeqT(Nat)
      BY <1>1, <2>1 DEF SeqT
    <3>2. /\ Len(P \o z) = Len(P) + Len(z)
          /\ \A i \in 1 .. Len(P) : (P \o z)[i] = P[i]
          /\ \A i \in Len(P) + 1 .. Len(P) + Len(z) : (P \o z)[i] = z[i - Len(P)]
      BY <3>1, ConcatParts
    <3> QED BY <2>1, <3>2
  <2>3. Len(P) \in Nat /\ Len(Q) \in Nat
    BY <1>1
  <2>4. ASSUME NEW i \in 1 .. Len(Q) PROVE (P \o z)[Len(P) + i] = F + Q[i]
    <3>1. Len(P) + i \in Len(P) + 1 .. Len(P) + Len(Q) /\ Len(P) + i - Len(P) = i
      BY <2>3
    <3> QED BY <2>1, <2>2, <3>1
  <2> QED BY <2>2, <2>3, <2>4 DEF z
<1>8. w = [i \in 1 .. Len(pq) |-> AnswerAt(kv, all, pq[i])]
  BY <1>3, <1>6
<1> HIDE DEF pq
<1>9. \A i \in 1 .. Len(P) : AnswerAt(kv, first, P[i]) = AnswerAt(kv, all, P[i])
  BY <1>1, <1>4
<1>10. \A i \in 1 .. Len(Q) : AnswerAt(kv2, rest, Q[i]) = AnswerAt(kv, all, F + Q[i])
  BY <1>1, <1>5
<1>11. /\ \A i \in 1 .. Len(P) : P[i] \in Nat
       /\ \A i \in 1 .. Len(Q) : F + Q[i] \in Nat
  BY <1>1, <1>2
<1>12. \A p \in Nat : AnswerAt(kv, all, p) \in T
  OBVIOUS
<1>12a. \A i \in 1 .. Len(pq) : pq[i] \in Nat
  <2> TAKE i \in 1 .. Len(pq)
  <2>1. CASE i \in 1 .. Len(P)
    BY <1>7, <1>11, <2>1
  <2>2. CASE i \notin 1 .. Len(P)
    <3>1. i - Len(P) \in 1 .. Len(Q) /\ Len(P) + (i - Len(P)) = i
      BY <1>7, <2>2
    <3> QED BY <1>7, <1>11, <3>1
  <2> QED BY <2>1, <2>2
<1> HIDE DEF T
<1>13. u \in SeqT(T) /\ Len(u) = Len(P) /\ \A i \in 1 .. Len(P) : u[i] = AnswerAt(kv, all, P[i])
  BY <1>6, <1>7, <1>9, <1>11, <1>12 DEF SeqT
<1>14. v \in SeqT(T) /\ Len(v) = Len(Q) /\ \A i \in 1 .. Len(Q) : v[i] = AnswerAt(kv, all, F + Q[i])
  BY <1>6, <1>7, <1>10, <1>11, <1>12 DEF SeqT
<1>15. w \in SeqT(T) /\ Len(w) = Len(pq) /\ \A i \in 1 .. Len(pq) : w[i] = AnswerAt(kv, all, pq[i])
  BY <1>7, <1>8, <1>12, <1>12a DEF SeqT
<1>16. /\ \A i \in 1 .. Len(u) : w[i] = u[i]
       /\ \A i \in 1 .. Len(v) : w[Len(u) + i] = v[i]
  <2>1. \A i \in 1 .. Len(P) : i \in 1 .. Len(pq)
    BY <1>7
  <2>2. \A i \in 1 .. Len(Q) : Len(P) + i \in 1 .. Len(pq)
    BY <1>7
  <2> QED BY <1>7, <1>13, <1>14, <1>15, <2>1, <2>2
<1>17. w = u \o v
  <2>1. u \in SeqT(T) /\ v \in SeqT(T) /\ w \in SeqT(T) /\ Len(w) = Len(u) + Len(v)
    BY <1>7, <1>13, <1>14, <1>15
  <2> QED BY <1>16, <2>1, ConcatIs
<1> QED BY <1>17 DEF u, v, w, all, kv2

(* The commands of one request more.                                         *)
LEMMA FlattenAppend ==
    ASSUME NEW reqs \in ReqSeq, NEW r \in ReqName
    PROVE  Flatten(Append(reqs, r)) = Flatten(reqs) \o CommandsOf(r)
<1>1. Append(reqs, r) = reqs \o <<r>> /\ <<r>> \in ReqSeq
  BY DEF ReqSeq
<1>2. Flatten(Append(reqs, r)) = Flatten(reqs) \o Flatten(<<r>>)
  BY <1>1, FlattenConcat
<1>3. CommandsOf(r) \in SeqT(Command)
  BY CommandsOfType DEF CmdSeq
<1>4. Flatten(<<r>>) = FlattenSeq(Append(<< >>, CommandsOf(r)))
  <2>1. [i \in DOMAIN <<r>> |-> CommandsOf(<<r>>[i])] = Append(<< >>, CommandsOf(r))
    OBVIOUS
  <2> QED BY <2>1 DEF Flatten
<1>5. << >> \in SeqSeqT(Command)
  BY DEF SeqSeqT
<1>6. FlattenSeq(Append(<< >>, CommandsOf(r))) = FlattenSeq(<< >>) \o CommandsOf(r)
  BY <1>3, <1>5, FlattenSeqAppend
<1>7. << >> \o CommandsOf(r) = CommandsOf(r)
  <2> DEFINE s == CommandsOf(r)
  <2>1. s \in Seq(Command)
    BY <1>3 DEF SeqT
  <2> HIDE DEF s
  <2>2. << >> \o s = s
    BY <2>1
  <2> QED BY <2>2 DEF s
<1>8. Flatten(<<r>>) = CommandsOf(r)
  BY <1>4, <1>6, <1>7, FlattenSeqEmpty
<1> QED BY <1>2, <1>8

(* The commands of a request are among all the commands.                     *)
LEMMA FlattenBound ==
    ASSUME NEW h \in ReqSeq, NEW q \in 1 .. Len(h)
    PROVE  /\ SubSeq(h, 1, q - 1) \in ReqSeq
           /\ Len(Flatten(SubSeq(h, 1, q - 1))) \in Nat /\ Len(Flatten(h)) \in Nat
           /\ Len(CommandsOf(h[q])) \in Nat
           /\ Len(Flatten(SubSeq(h, 1, q - 1))) + Len(CommandsOf(h[q])) <= Len(Flatten(h))
<1> DEFINE a == SubSeq(h, 1, q - 1)
           b == SubSeq(h, q + 1, Len(h))
           r == h[q]
<1>1. a \in ReqSeq /\ b \in ReqSeq /\ r \in ReqName /\ Append(a, r) \in ReqSeq
  BY DEF ReqSeq
<1>2. Append(a, r) = SubSeq(h, 1, q)
  BY DEF ReqSeq
<1>3. h = Append(a, r) \o b
  <2>1. h = SubSeq(h, 1, q) \o SubSeq(h, q + 1, Len(h))
    <3>1. h \in Seq(ReqName) /\ q \in 0 .. Len(h)
      BY DEF ReqSeq
    <3>2. SubSeq(h, 1, q) \in SeqT(ReqName) /\ b \in SeqT(ReqName) /\ h \in SeqT(ReqName)
      BY <3>1 DEF SeqT
    <3>3. /\ Len(SubSeq(h, 1, q)) = q /\ \A i \in 1 .. q : SubSeq(h, 1, q)[i] = h[i]
      BY <3>1
    <3>4. Len(b) = Len(h) - q /\ \A i \in 1 .. Len(b) : b[i] = h[q + i]
      BY <3>1
    <3>5. Len(h) = Len(SubSeq(h, 1, q)) + Len(b)
      BY <3>1, <3>3, <3>4
    <3> DEFINE x == SubSeq(h, 1, q)
    <3>6. /\ x \in SeqT(ReqName) /\ \A i \in 1 .. Len(x) : h[i] = x[i]
          /\ b \in SeqT(ReqName) /\ \A i \in 1 .. Len(b) : h[Len(x) + i] = b[i]
          /\ Len(h) = Len(x) + Len(b)
      BY <3>2, <3>3, <3>4, <3>5
    <3> HIDE DEF x, b
    <3>7. h = x \o b
      BY <3>2, <3>6, ConcatIs
    <3> QED BY <3>7 DEF x, b
  <2> QED BY <1>2, <2>1
<1> HIDE DEF a, b, r
<1>4. Flatten(h) = (Flatten(a) \o CommandsOf(r)) \o Flatten(b)
  <2>1. Flatten(h) = Flatten(Append(a, r)) \o Flatten(b)
    BY <1>1, <1>3, FlattenConcat
  <2> QED BY <1>1, <2>1, FlattenAppend
<1> DEFINE x == Flatten(a)
           y == CommandsOf(r)
           z == Flatten(b)
<1>5. x \in SeqT(Command) /\ y \in SeqT(Command) /\ z \in SeqT(Command)
  BY <1>1, FlattenType, CommandsOfType DEF CmdSeq
<1> HIDE DEF x, y, z
<1>6. /\ Len(x) \in Nat /\ Len(y) \in Nat /\ Len(z) \in Nat
      /\ Len((x \o y) \o z) = (Len(x) + Len(y)) + Len(z)
  <2>1. x \o y \in SeqT(Command) /\ Len(x \o y) = Len(x) + Len(y)
    BY <1>5, ConcatParts
  <2>2. Len((x \o y) \o z) = Len(x \o y) + Len(z)
    BY <1>5, <2>1, ConcatParts
  <2> QED BY <1>5, <2>1, <2>2 DEF SeqT
<1>7. Len(Flatten(h)) = (Len(x) + Len(y)) + Len(z)
  BY <1>4, <1>6 DEF x, y, z
<1>8. /\ Len(x) \in Nat /\ Len(Flatten(h)) \in Nat /\ Len(y) \in Nat
      /\ Len(x) + Len(y) <= Len(Flatten(h))
  BY <1>6, <1>7
<1> QED BY <1>1, <1>8 DEF x, y, a, r

-----------------------------------------------------------------------------
(* The executors.                                                            *)

(* The requests that s has executed, and what its store is after them.       *)
Done(s) == HistoryOf(SubSeq(log, 1, currSeq[s]))
StoreInv ==
    /\ store \in [Server -> KVStore]
    /\ \A s \in Server : store[s] = After(Empty, Flatten(Done(s)))

(* The empty store is a store.                                               *)
LEMMA EmptyType == Empty \in KVStore
BY DEF Empty, KVStore

(* What a server has executed is a sequence of requests.                     *)
LEMMA DoneType ==
    ASSUME TypeInv, NEW s \in Server
    PROVE  /\ Done(s) \in ReqSeq /\ SubSeq(log, 1, currSeq[s]) \in LogSeq
           /\ log \in LogSeq /\ Len(log) \in Nat /\ currSeq[s] \in 0 .. Len(log)
<1>1. log \in LogSeq /\ Len(log) \in Nat /\ currSeq[s] \in 0 .. Len(log)
  <2>1. log \in LogSeq
    BY DEF TypeInv
  <2>2. Len(log) \in Nat
    BY <2>1 DEF LogSeq
  <2> QED BY <2>1, <2>2 DEF TypeInv
<1>2. SubSeq(log, 1, currSeq[s]) \in LogSeq
  BY <1>1 DEF LogSeq
<1> QED BY <1>1, <1>2, HistoryType DEF Done

(* It only changes when the server executes.                                 *)
LEMMA DoneKept ==
    ASSUME TypeInv, currSeq' = currSeq, log' = log \/ \E x : log' = Append(log, x)
    PROVE  \A s \in Server : Done(s)' = Done(s)
<1> SUFFICES ASSUME NEW s \in Server PROVE Done(s)' = Done(s)
  OBVIOUS
<1>1. log \in LogSeq /\ Len(log) \in Nat /\ currSeq[s] \in 0 .. Len(log)
  BY DoneType
<1>2. SubSeq(log', 1, currSeq[s]) = SubSeq(log, 1, currSeq[s])
  <2>1. CASE log' = log
    BY <2>1
  <2>2. CASE log' # log
    <3>1. PICK x : log' = Append(log, x)
      BY <2>2
    <3> QED BY <1>1, <3>1 DEF LogSeq
  <2> QED BY <2>1, <2>2
<1> QED BY <1>2 DEF Done

(* Executing a slot adds its requests.                                       *)
LEMMA DoneNext ==
    ASSUME TypeInv, NEW s \in Server, currSeq[s] < decided[s], log' = log,
           currSeq' = [currSeq EXCEPT ![s] = @ + 1]
    PROVE  /\ log[currSeq[s] + 1] \in Obj \cup {Null}
           /\ Done(s)' = Done(s) \o SlotReqs(log[currSeq[s] + 1])
           /\ \A t \in Server \ {s} : Done(t)' = Done(t)
           /\ currSeq' \in [Server -> Nat]
           /\ \A t \in Server : currSeq'[t] <= decided[t]
<1> DEFINE k == currSeq[s]
<1>1. /\ log \in LogSeq /\ Len(log) \in Nat /\ k \in 0 .. Len(log)
      /\ SubSeq(log, 1, k) \in LogSeq
  BY DoneType
<1>2. /\ currSeq \in [Server -> Nat] /\ decided \in [Server -> Nat]
      /\ k + 1 <= decided[s] /\ decided[s] <= Len(log)
      /\ \A t \in Server : currSeq[t] <= decided[t]
  BY DEF TypeInv
<1>3. currSeq'[s] = k + 1 /\ \A t \in Server \ {s} : currSeq'[t] = currSeq[t]
  BY <1>2
<1>4. currSeq' \in [Server -> Nat] /\ \A t \in Server : currSeq'[t] <= decided[t]
  BY <1>2
<1> HIDE DEF k
<1>5. /\ log[k + 1] \in Obj \cup {Null}
      /\ SubSeq(log, 1, k + 1) = Append(SubSeq(log, 1, k), log[k + 1])
  <2>1. k \in Nat /\ k + 1 <= Len(log)
    BY <1>1, <1>2 DEF k
  <2> QED BY <1>1, <2>1 DEF LogSeq
<1>6. HistoryOf(SubSeq(log, 1, k + 1)) = HistoryOf(SubSeq(log, 1, k)) \o SlotReqs(log[k + 1])
  BY <1>1, <1>5, HistoryAppend
<1>7. Done(s)' = Done(s) \o SlotReqs(log[k + 1])
  BY <1>3, <1>6 DEF Done, k
<1>8. \A t \in Server \ {s} : Done(t)' = Done(t)
  BY <1>3 DEF Done
<1> QED BY <1>4, <1>5, <1>7, <1>8 DEF k

(* So the store stays that after the executed requests.                      *)
LEMMA ExecuteStore ==
    ASSUME TypeInv, StoreInv, NEW s \in Server, ExecuteAndReply(s)
    PROVE  /\ log[currSeq[s] + 1] \in Obj /\ log[currSeq[s] + 1].reqs \in ReqSeq
           /\ Done(s)' = Done(s) \o log[currSeq[s] + 1].reqs
           /\ \A t \in Server \ {s} : Done(t)' = Done(t)
           /\ TypeInv' /\ StoreInv'
<1> DEFINE o == log[currSeq[s] + 1]
<1>1. /\ currSeq[s] < decided[s] /\ log' = log /\ o # Null
      /\ currSeq' = [currSeq EXCEPT ![s] = @ + 1]
      /\ store' = [store EXCEPT ![s] = After(store[s], ObjectCommands(o))]
      /\ UNCHANGED <<StorageMode, sent, received, batch, submitted, decided>>
  BY DEF ExecuteAndReply, proxyVars, consensusVars
<1>2. /\ o \in Obj \cup {Null}
      /\ Done(s)' = Done(s) \o SlotReqs(o)
      /\ \A t \in Server \ {s} : Done(t)' = Done(t)
      /\ currSeq' \in [Server -> Nat]
      /\ \A t \in Server : currSeq'[t] <= decided[t]
  BY <1>1, DoneNext
<1> HIDE DEF o
<1>3. o \in Obj /\ o.reqs \in ReqSeq /\ SlotReqs(o) = o.reqs
  BY <1>1, <1>2 DEF SlotReqs, Obj
<1>4. TypeInv'
  BY <1>1, <1>2 DEF TypeInv
<1>5. Done(s) \in ReqSeq /\ Flatten(o.reqs) \in Seq(Command)
  BY <1>3, DoneType, FlattenType DEF CmdSeq, SeqT
<1>6. store \in [Server -> KVStore] /\ \A t \in Server : store[t] = After(Empty, Flatten(Done(t)))
  BY DEF StoreInv
<1>7. After(store[s], Flatten(o.reqs)) \in KVStore
  <2>1. store[s] \in KVStore
    BY <1>6
  <2> QED BY <1>5, <2>1, AfterType
<1>8. After(store[s], Flatten(o.reqs)) = After(Empty, Flatten(Done(s) \o o.reqs))
  BY <1>3, <1>5, <1>6, AfterFlatten, EmptyType
<1>9. /\ store' \in [Server -> KVStore]
      /\ \A t \in Server : store'[t] = After(Empty, Flatten(Done(t)'))
  <2>1. store'[s] = After(store[s], Flatten(o.reqs)) /\ \A t \in Server \ {s} : store'[t] = store[t]
    BY <1>1, <1>6 DEF ObjectCommands
  <2>2. store' \in [Server -> KVStore]
    BY <1>1, <1>6, <1>7 DEF ObjectCommands
  <2>3. Done(s)' = Done(s) \o o.reqs
    BY <1>2, <1>3
  <2>4. store'[s] = After(Empty, Flatten(Done(s)'))
    BY ONLY <1>8, <2>1, <2>3
  <2>5. \A t \in Server \ {s} : store'[t] = After(Empty, Flatten(Done(t)'))
    BY <1>2, <1>6, <2>1
  <2> QED BY <2>2, <2>4, <2>5
<1>10. StoreInv'
  BY <1>9 DEF StoreInv
<1> QED BY <1>2, <1>3, <1>4, <1>10 DEF o

(* Results and replies in any mode.                                          *)
ResultSeq == Seq(Value \cup {Missing, "ok"})
Reply == [seq : Nat, results : ResultSeq]
ReplySeq == Seq(Reply)

(* The results of commands executed one after the other.                     *)
LEMMA ResultsType ==
    ASSUME NEW kv \in KVStore, NEW r \in ReqName
    PROVE  Results(kv, CommandsOf(r)) \in ResultSeq
<1> DEFINE cmds == CommandsOf(r)
<1>1. cmds \in Seq(Command)
  BY CommandsOfType DEF CmdSeq, SeqT
<1> HIDE DEF cmds
<1>2. ASSUME NEW j \in 1 .. Len(cmds)
      PROVE  (IF cmds[j].op = "write" THEN "ok"
              ELSE After(kv, SubSeq(cmds, 1, j - 1))[cmds[j].key]) \in Value \cup {Missing, "ok"}
  <2>1. SubSeq(cmds, 1, j - 1) \in Seq(Command) /\ cmds[j].key \in Key
    <3>1. SubSeq(cmds, 1, j - 1) \in Seq(Command) /\ cmds[j] \in Command
      BY <1>1
    <3> QED BY <3>1 DEF Command
  <2>2. After(kv, SubSeq(cmds, 1, j - 1)) \in KVStore
    BY <2>1, AfterType
  <2>3. After(kv, SubSeq(cmds, 1, j - 1))[cmds[j].key] \in Value \cup {Missing}
    BY <2>1, <2>2 DEF KVStore
  <2> QED BY <2>3
<1>3. DOMAIN cmds = 1 .. Len(cmds) /\ Len(cmds) \in Nat
  BY <1>1
<1>4. Results(kv, cmds) \in ResultSeq
  BY <1>2, <1>3 DEF Results, ResultSeq
<1> QED BY <1>4 DEF cmds

(* The results of the modes of Redis, with one value for each read.          *)
LEMMA FixedType ==
    ASSUME NEW kv \in KVStore, NEW r \in ReqName
    PROVE  /\ [j \in DOMAIN CommandsOf(r) |->
                 IF CommandsOf(r)[j].op = "write" THEN "ok" ELSE Missing] \in ResultSeq
           /\ [j \in DOMAIN CommandsOf(r) |->
                 IF CommandsOf(r)[j].op = "write" THEN "ok"
                 ELSE kv[CommandsOf(r)[j].key]] \in ResultSeq
<1> DEFINE cmds == CommandsOf(r)
<1>1. cmds \in Seq(Command)
  BY CommandsOfType DEF CmdSeq, SeqT
<1> HIDE DEF cmds
<1>2. /\ DOMAIN cmds = 1 .. Len(cmds) /\ Len(cmds) \in Nat
      /\ \A j \in 1 .. Len(cmds) : kv[cmds[j].key] \in Value \cup {Missing}
  <2>1. /\ DOMAIN cmds = 1 .. Len(cmds) /\ Len(cmds) \in Nat
        /\ \A j \in 1 .. Len(cmds) : cmds[j] \in Command
    BY <1>1
  <2>2. \A cmd \in Command : kv[cmd.key] \in Value \cup {Missing}
    BY DEF Command, KVStore
  <2> QED BY <2>1, <2>2
<1>3. [j \in DOMAIN cmds |-> IF cmds[j].op = "write" THEN "ok" ELSE Missing] \in ResultSeq
  BY <1>2 DEF ResultSeq
<1>4. [j \in DOMAIN cmds |-> IF cmds[j].op = "write" THEN "ok" ELSE kv[cmds[j].key]] \in ResultSeq
  BY <1>2 DEF ResultSeq
<1> QED BY <1>3, <1>4 DEF cmds

(* The results of an object, request by request.                             *)
LEMMA ResultsOfIs ==
    ASSUME NEW kv \in KVStore, NEW o \in Obj, StorageMode \in {0, 1, 2},
           NEW p \in 1 .. Len(o.reqs)
    PROVE  /\ ResultsOf(kv, o)[p] \in ResultSeq
           /\ StorageMode = 0 =>
                 ResultsOf(kv, o)[p] =
                    Results(After(kv, Flatten(SubSeq(o.reqs, 1, p - 1))), CommandsOf(o.reqs[p]))
           /\ StorageMode = 2 =>
                 ResultsOf(kv, o)[p] =
                    [j \in DOMAIN CommandsOf(o.reqs[p]) |->
                        IF CommandsOf(o.reqs[p])[j].op = "write" THEN "ok"
                        ELSE After(kv, Flatten(o.reqs))[CommandsOf(o.reqs[p])[j].key]]
<1> DEFINE reqs == o.reqs
           r == reqs[p]
<1>1. reqs \in ReqSeq /\ reqs \in Seq(ReqName) /\ r \in ReqName /\ p \in DOMAIN reqs
         /\ SubSeq(reqs, 1, p - 1) \in ReqSeq
  BY DEF Obj, ReqSeq
<1>2. CASE StorageMode = 0
  <2>1. ResultsOf(kv, o) = OneByOne(kv, o)
    BY <1>2 DEF ResultsOf
  <2>2. ResultsOf(kv, o)[p] = Results(After(kv, Flatten(SubSeq(reqs, 1, p - 1))), CommandsOf(r))
    BY <1>1, <2>1 DEF OneByOne
  <2>3. After(kv, Flatten(SubSeq(reqs, 1, p - 1))) \in KVStore
    <3>1. Flatten(SubSeq(reqs, 1, p - 1)) \in Seq(Command)
      BY <1>1, FlattenType DEF CmdSeq, SeqT
    <3> QED BY <3>1, AfterType
  <2>4. ResultsOf(kv, o)[p] \in ResultSeq
    BY <1>1, <2>2, <2>3, ResultsType
  <2> QED BY <1>2, <2>2, <2>4
<1>3. CASE StorageMode = 1
  <2>1. ResultsOf(kv, o) = OneByOneFixedKey(o)
    BY <1>3 DEF ResultsOf
  <2>2. ResultsOf(kv, o)[p] =
           [j \in DOMAIN CommandsOf(r) |-> IF CommandsOf(r)[j].op = "write" THEN "ok" ELSE Missing]
    BY <1>1, <2>1 DEF OneByOneFixedKey
  <2> HIDE DEF r
  <2>3. [j \in DOMAIN CommandsOf(r) |->
            IF CommandsOf(r)[j].op = "write" THEN "ok" ELSE Missing] \in ResultSeq
    BY <1>1, FixedType
  <2>4. ResultsOf(kv, o)[p] \in ResultSeq
    BY ONLY <2>2, <2>3
  <2> QED BY <1>3, <2>4
<1>4. CASE StorageMode = 2
  <2>1. ResultsOf(kv, o) = WritesFirst(kv, o)
    BY <1>4 DEF ResultsOf
  <2>2. ResultsOf(kv, o)[p] =
           [j \in DOMAIN CommandsOf(r) |->
               IF CommandsOf(r)[j].op = "write" THEN "ok"
               ELSE After(kv, Flatten(reqs))[CommandsOf(r)[j].key]]
    BY <1>1, <2>1 DEF WritesFirst, ObjectCommands
  <2>3. After(kv, Flatten(reqs)) \in KVStore
    <3>1. Flatten(reqs) \in Seq(Command)
      BY <1>1, FlattenType DEF CmdSeq, SeqT
    <3> QED BY <3>1, AfterType
  <2>4. ResultsOf(kv, o)[p] \in ResultSeq
    BY <1>1, <2>2, <2>3, FixedType
  <2> QED BY <1>4, <2>2, <2>4
<1> QED BY <1>2, <1>3, <1>4

(* The replies of an object.                                                 *)
LEMMA RepliesToIs ==
    ASSUME NEW s \in Server, NEW c \in Client, NEW o \in Obj, StorageMode \in {0, 1, 2},
           store[s] \in KVStore
    PROVE  /\ RepliesTo(s, c, o) \in ReplySeq
           /\ ProxyOf[c] # s => RepliesTo(s, c, o) = << >>
           /\ ProxyOf[c] = s =>
                 /\ Len(RepliesTo(s, c, o)) = Len(PlacesOf(c, o.reqs))
                 /\ \A n \in 1 .. Len(PlacesOf(c, o.reqs)) :
                       /\ PlacesOf(c, o.reqs)[n] \in 1 .. Len(o.reqs)
                       /\ o.reqs[PlacesOf(c, o.reqs)[n]].cli = c
                       /\ RepliesTo(s, c, o)[n] =
                             [seq |-> o.reqs[PlacesOf(c, o.reqs)[n]].seq,
                              results |-> ResultsOf(store[s], o)[PlacesOf(c, o.reqs)[n]]]
           /\ ProxyOf[c] = s /\ StorageMode = 0 =>
                 RepliesTo(s, c, o) = Answers(store[s], c, o.reqs)
<1> DEFINE reqs == o.reqs
           mine == PlacesOf(c, reqs)
           res == ResultsOf(store[s], o)
           out == RepliesTo(s, c, o)
           one(n) == [seq |-> reqs[mine[n]].seq, results |-> res[mine[n]]]
<1>1. reqs \in ReqSeq
  BY DEF Obj
<1>2. /\ mine \in Seq(Nat)
      /\ \A n \in 1 .. Len(mine) : mine[n] \in 1 .. Len(reqs) /\ reqs[mine[n]].cli = c
  BY <1>1, PlacesExact
<1>3. \A p \in 1 .. Len(reqs) : res[p] \in ResultSeq /\ reqs[p] \in ReqName
  <2>1. \A p \in 1 .. Len(reqs) : reqs[p] \in ReqName
    BY <1>1 DEF ReqSeq
  <2> QED BY <2>1, ResultsOfIs
<1>4. CASE ProxyOf[c] # s
  <2>1. out = << >>
    BY <1>4 DEF RepliesTo
  <2>2. out \in ReplySeq
    BY <2>1 DEF ReplySeq
  <2> QED BY <1>4, <2>1, <2>2
<1>5. CASE ProxyOf[c] = s
  <2>0. \A n \in 1 .. Len(mine) : one(n) \in Reply
    <3>1. \A p \in 1 .. Len(reqs) : reqs[p].seq \in Nat
      BY <1>3 DEF ReqName
    <3> QED BY <1>2, <1>3, <3>1 DEF Reply
  <2>1. out = [n \in DOMAIN mine |-> one(n)]
    BY <1>5 DEF RepliesTo
  <2> HIDE DEF one, mine, out
  <2>2. DOMAIN mine = 1 .. Len(mine) /\ Len(mine) \in Nat
    BY <1>2
  <2>3. out \in ReplySeq /\ Len(out) = Len(mine) /\ \A n \in 1 .. Len(mine) : out[n] = one(n)
    BY <2>0, <2>1, <2>2 DEF ReplySeq
  <2>4. CASE StorageMode = 0
    <3>1. \A n \in 1 .. Len(mine) : one(n) = AnswerAt(store[s], reqs, mine[n])
      <4>1. \A p \in 1 .. Len(reqs) :
               res[p] =
                  Results(After(store[s], Flatten(SubSeq(reqs, 1, p - 1))), CommandsOf(reqs[p]))
        BY <2>4, ResultsOfIs
      <4> TAKE n \in 1 .. Len(mine)
      <4> DEFINE p == mine[n]
      <4>2. p \in 1 .. Len(reqs) /\ one(n) = [seq |-> reqs[p].seq, results |-> res[p]]
        BY <1>2 DEF one
      <4> HIDE DEF p
      <4>3. one(n) = AnswerAt(store[s], reqs, p)
        BY <4>1, <4>2 DEF AnswerAt, AnswerTo
      <4> QED BY <4>3 DEF p
    <3>2. Answers(store[s], c, reqs) = [n \in 1 .. Len(mine) |-> AnswerAt(store[s], reqs, mine[n])]
      BY DEF Answers, mine
    <3>3. out = Answers(store[s], c, reqs)
      BY <2>1, <2>2, <3>1, <3>2
    <3> QED BY <1>2, <1>5, <2>3, <3>3 DEF mine, out, one
  <2>5. CASE StorageMode # 0
    BY <1>2, <1>5, <2>3, <2>5 DEF mine, out, one
  <2> QED BY <2>4, <2>5
<1> QED BY <1>4, <1>5

-----------------------------------------------------------------------------
(* Mode 2: a reply comes from a place of the history, and each of its reads  *)
(* saw the store at some point from there on.                                *)
Saw(rep, h, q, j) ==
    \E n \in Nat :
        /\ Len(Flatten(SubSeq(h, 1, q - 1))) + j - 1 <= n
        /\ n <= Len(Flatten(h))
        /\ rep.results[j] = After(Empty, SubSeq(Flatten(h), 1, n))[CommandsOf(h[q])[j].key]
(* The reply rep to c is that to the request at place q of h.                *)
FreshAt(c, rep, h, q) ==
    /\ h[q] = Request(c, rep.seq)
    /\ \A j \in 1 .. Len(CommandsOf(h[q])) :
          CommandsOf(h[q])[j].op = "read" => Saw(rep, h, q, j)
(* It is that to some request of h.                                          *)
Fresh(c, rep, h) == \E q \in 1 .. Len(h) : FreshAt(c, rep, h, q)

(* A reply that was fresh stays so when more is executed.                    *)
LEMMA FreshGrows ==
    ASSUME NEW c, NEW rep, NEW first \in ReqSeq, NEW rest \in ReqSeq, Fresh(c, rep, first)
    PROVE  Fresh(c, rep, first \o rest)
<1> DEFINE h == first \o rest
<1>1. PICK q \in 1 .. Len(first) : FreshAt(c, rep, first, q)
  BY DEF Fresh
<1>2. /\ h \in ReqSeq /\ Len(h) = Len(first) + Len(rest) /\ Len(first) \in Nat /\ Len(rest) \in Nat
      /\ h[q] = first[q] /\ SubSeq(h, 1, q - 1) = SubSeq(first, 1, q - 1)
  BY ConcatRequests
<1>3. Flatten(h) = Flatten(first) \o Flatten(rest)
  BY FlattenConcat
<1>4. Flatten(first) \in SeqT(Command) /\ Flatten(rest) \in SeqT(Command)
  BY FlattenType DEF CmdSeq
<1>5. /\ Len(Flatten(first)) \in Nat /\ Len(Flatten(first)) <= Len(Flatten(h))
      /\ Len(Flatten(h)) \in Nat
      /\ \A n \in 0 .. Len(Flatten(first)) :
            SubSeq(Flatten(h), 1, n) = SubSeq(Flatten(first), 1, n)
  <2> DEFINE x == Flatten(first)
             y == Flatten(rest)
  <2>1. x \in Seq(Command) /\ y \in Seq(Command)
    BY <1>4 DEF SeqT
  <2> HIDE DEF x, y
  <2>2. /\ Len(x) \in Nat /\ Len(x) <= Len(x \o y) /\ Len(x \o y) \in Nat
        /\ \A n \in 0 .. Len(x) : SubSeq(x \o y, 1, n) = SubSeq(x, 1, n)
    BY <2>1
  <2> QED BY <1>3, <2>2 DEF x, y
<1> HIDE DEF h
<1>6. ASSUME NEW j, Saw(rep, first, q, j) PROVE Saw(rep, h, q, j)
  <2>1. PICK n \in Nat :
           /\ Len(Flatten(SubSeq(first, 1, q - 1))) + j - 1 <= n
           /\ n <= Len(Flatten(first))
           /\ rep.results[j] =
                 After(Empty, SubSeq(Flatten(first), 1, n))[CommandsOf(first[q])[j].key]
    BY <1>6 DEF Saw
  <2>2. n \in 0 .. Len(Flatten(first)) /\ n <= Len(Flatten(h))
    BY <1>5, <2>1
  <2>3. SubSeq(Flatten(h), 1, n) = SubSeq(Flatten(first), 1, n)
    BY <1>5, <2>2
  <2> QED BY <1>2, <2>1, <2>2, <2>3 DEF Saw
<1>7. FreshAt(c, rep, h, q)
  BY <1>1, <1>2, <1>6 DEF FreshAt
<1>8. q \in 1 .. Len(h)
  BY <1>2
<1> QED BY <1>7, <1>8 DEF Fresh, h

(* A reply of mode 2 is fresh: its reads see the store after the whole       *)
(* object.                                                                   *)
LEMMA FreshNew ==
    ASSUME NEW s \in Server, NEW c \in Client, NEW h \in ReqSeq, NEW o \in Obj, StorageMode = 2,
           store[s] = After(Empty, Flatten(h)),
           NEW p \in 1 .. Len(o.reqs), o.reqs[p].cli = c
    PROVE  Fresh(c, [seq |-> o.reqs[p].seq, results |-> ResultsOf(store[s], o)[p]], h \o o.reqs)
<1> DEFINE reqs == o.reqs
           g == h \o reqs
           q == Len(h) + p
           r == reqs[p]
           rep == [seq |-> o.reqs[p].seq, results |-> ResultsOf(store[s], o)[p]]
           kv == store[s]
<1>1. reqs \in ReqSeq /\ r \in ReqName
  BY DEF Obj, ReqSeq
<1>2. g \in ReqSeq /\ Len(g) = Len(h) + Len(reqs) /\ Len(h) \in Nat /\ Len(reqs) \in Nat /\ g[q] = r
  BY <1>1, ConcatRequests
<1>3. q \in 1 .. Len(g)
  BY <1>2
<1>4. r = Request(c, rep.seq)
  BY <1>1 DEF ReqName, Request
<1>5. kv \in KVStore
  <2>1. Flatten(h) \in Seq(Command)
    BY FlattenType DEF CmdSeq, SeqT
  <2> QED BY <2>1, AfterType, EmptyType
<1>6. rep.results =
         [j \in DOMAIN CommandsOf(r) |->
             IF CommandsOf(r)[j].op = "write" THEN "ok"
             ELSE After(kv, Flatten(reqs))[CommandsOf(r)[j].key]]
  BY <1>5, ResultsOfIs
<1>7. After(Empty, Flatten(g)) = After(kv, Flatten(reqs))
  BY <1>1, AfterFlatten, EmptyType
<1> HIDE DEF rep, kv, g, q, r, reqs
<1>8. /\ Len(Flatten(SubSeq(g, 1, q - 1))) \in Nat /\ Len(Flatten(g)) \in Nat
      /\ Len(CommandsOf(r)) \in Nat
      /\ Len(Flatten(SubSeq(g, 1, q - 1))) + Len(CommandsOf(r)) <= Len(Flatten(g))
  BY <1>2, <1>3, FlattenBound
<1>9. SubSeq(Flatten(g), 1, Len(Flatten(g))) = Flatten(g)
  <2> DEFINE x == Flatten(g)
  <2>1. x \in Seq(Command)
    BY <1>2, FlattenType DEF CmdSeq, SeqT
  <2> HIDE DEF x
  <2>2. SubSeq(x, 1, Len(x)) = x
    BY <2>1
  <2> QED BY <2>2 DEF x
<1>10. DOMAIN CommandsOf(r) = 1 .. Len(CommandsOf(r))
  <2>1. CommandsOf(r) \in Seq(Command)
    BY <1>1, CommandsOfType DEF CmdSeq, SeqT
  <2> QED BY <2>1
<1>11. ASSUME NEW j \in 1 .. Len(CommandsOf(r)), CommandsOf(r)[j].op = "read"
       PROVE  Saw(rep, g, q, j)
  <2>1. rep.results[j] = After(kv, Flatten(reqs))[CommandsOf(r)[j].key]
    BY <1>6, <1>10, <1>11
  <2>2. Len(Flatten(SubSeq(g, 1, q - 1))) + j - 1 <= Len(Flatten(g))
    BY <1>8
  <2>3. rep.results[j] =
           After(Empty, SubSeq(Flatten(g), 1, Len(Flatten(g))))[CommandsOf(g[q])[j].key]
    BY <1>2, <1>7, <1>9, <2>1
  <2> QED BY <1>8, <2>2, <2>3 DEF Saw
<1>12. FreshAt(c, rep, g, q)
  BY <1>2, <1>4, <1>11 DEF FreshAt
<1>13. Fresh(c, rep, g)
  BY <1>3, <1>12 DEF Fresh
<1> QED BY <1>13 DEF rep, g, reqs

(* Each client has the answers to its requests among those that its server   *)
(* has executed: in mode 0 exactly these, in mode 2 fresh ones.              *)
ReplyInv ==
    /\ replies \in [Client -> ReplySeq]
    /\ StorageMode = 0 =>
          \A c \in Client : replies[c] = Answers(Empty, c, Done(ProxyOf[c]))
    /\ StorageMode = 2 =>
          \A c \in Client : \A i \in 1 .. Len(replies[c]) :
              Fresh(c, replies[c][i], Done(ProxyOf[c]))

(* Executing an object adds the right replies of each client of the server.  *)
LEMMA ExecuteReplies ==
    ASSUME TypeInv, StoreInv, ReplyInv, NEW s \in Server, ExecuteAndReply(s)
    PROVE  ReplyInv'
<1> DEFINE o == log[currSeq[s] + 1]
<1>1. /\ o \in Obj /\ o.reqs \in ReqSeq
      /\ Done(s)' = Done(s) \o o.reqs
      /\ \A t \in Server \ {s} : Done(t)' = Done(t)
  BY ExecuteStore
<1>2. /\ replies' = [c \in Client |-> replies[c] \o RepliesTo(s, c, o)]
      /\ StorageMode' = StorageMode
  BY DEF ExecuteAndReply
<1>3. /\ replies \in [Client -> ReplySeq] /\ StorageMode \in {0, 1, 2}
      /\ store[s] \in KVStore /\ store[s] = After(Empty, Flatten(Done(s)))
  BY DEF ReplyInv, TypeInv, StoreInv
<1>4. Done(s) \in ReqSeq
  BY DoneType
<1> HIDE DEF o
<1>5. ASSUME NEW c \in Client PROVE RepliesTo(s, c, o) \in ReplySeq
  BY <1>1, <1>3, RepliesToIs
<1>6. \A u, v \in ReplySeq : u \o v \in ReplySeq /\ u \o << >> = u
  BY DEF ReplySeq
<1>7. replies' \in [Client -> ReplySeq]
  BY <1>2, <1>3, <1>5, <1>6
<1>8. ASSUME NEW c \in Client, ProxyOf[c] # s
      PROVE  replies'[c] = replies[c] /\ Done(ProxyOf[c])' = Done(ProxyOf[c])
  <2>1. RepliesTo(s, c, o) = << >>
    BY <1>1, <1>3, <1>8, RepliesToIs
  <2>2. replies'[c] = replies[c] \o << >>
    BY <1>2, <2>1
  <2>3. << >> \in ReplySeq /\ replies[c] \in ReplySeq
    BY <1>3, <1>5, <2>1
  <2>4. ProxyOf[c] \in Server \ {s}
    BY <1>8, ProxyAssumption
  <2> QED BY <1>1, <1>6, <2>2, <2>3, <2>4
<1>9. ASSUME StorageMode = 0, NEW c \in Client
      PROVE  replies'[c] = Answers(Empty, c, Done(ProxyOf[c])')
  <2>1. replies[c] = Answers(Empty, c, Done(ProxyOf[c]))
    BY <1>9 DEF ReplyInv
  <2>2. CASE ProxyOf[c] = s
    <3>1. RepliesTo(s, c, o) = Answers(store[s], c, o.reqs)
      BY <1>1, <1>3, <1>9, <2>2, RepliesToIs
    <3>2. Answers(Empty, c, Done(s) \o o.reqs) =
             Answers(Empty, c, Done(s)) \o Answers(After(Empty, Flatten(Done(s))), c, o.reqs)
      BY <1>1, <1>4, EmptyType, AnswersConcat
    <3>3. replies'[c] = replies[c] \o RepliesTo(s, c, o)
      BY <1>2
    <3>4. replies'[c] = Answers(Empty, c, Done(s) \o o.reqs)
      <4>1. replies[c] = Answers(Empty, c, Done(s))
        BY <2>1, <2>2
      <4>2. Answers(store[s], c, o.reqs) = Answers(After(Empty, Flatten(Done(s))), c, o.reqs)
        BY <1>3
      <4> QED BY ONLY <3>1, <3>2, <3>3, <4>1, <4>2
    <3> QED BY <1>1, <2>2, <3>4
  <2>3. CASE ProxyOf[c] # s
    BY <1>8, <2>1, <2>3
  <2> QED BY <2>2, <2>3
<1>10. ASSUME StorageMode = 2, NEW c \in Client, NEW i \in 1 .. Len(replies'[c])
       PROVE  Fresh(c, replies'[c][i], Done(ProxyOf[c])')
  <2>1. \A k \in 1 .. Len(replies[c]) : Fresh(c, replies[c][k], Done(ProxyOf[c]))
    BY <1>10 DEF ReplyInv
  <2>2. CASE ProxyOf[c] = s
    <3> DEFINE old == replies[c]
               new == RepliesTo(s, c, o)
    <3>1. old \in SeqT(Reply) /\ new \in SeqT(Reply)
      BY <1>3, <1>5 DEF ReplySeq, SeqT
    <3>2. replies'[c] = old \o new
      BY <1>2
    <3>3. /\ Len(new) = Len(PlacesOf(c, o.reqs))
          /\ \A n \in 1 .. Len(PlacesOf(c, o.reqs)) :
                /\ PlacesOf(c, o.reqs)[n] \in 1 .. Len(o.reqs)
                /\ o.reqs[PlacesOf(c, o.reqs)[n]].cli = c
                /\ new[n] = [seq |-> o.reqs[PlacesOf(c, o.reqs)[n]].seq,
                             results |-> ResultsOf(store[s], o)[PlacesOf(c, o.reqs)[n]]]
      BY <1>1, <1>3, <2>2, RepliesToIs
    <3>4. \A n \in 1 .. Len(new) : Fresh(c, new[n], Done(s) \o o.reqs)
      <4> TAKE n \in 1 .. Len(new)
      <4> DEFINE p == PlacesOf(c, o.reqs)[n]
      <4>1. /\ p \in 1 .. Len(o.reqs) /\ o.reqs[p].cli = c
            /\ new[n] = [seq |-> o.reqs[p].seq, results |-> ResultsOf(store[s], o)[p]]
        BY <3>3
      <4> HIDE DEF p, new
      <4>2. Fresh(c, [seq |-> o.reqs[p].seq, results |-> ResultsOf(store[s], o)[p]],
                  Done(s) \o o.reqs)
        BY <1>1, <1>3, <1>4, <1>10, <4>1, FreshNew
      <4> QED BY <4>1, <4>2
    <3>5. \A k \in 1 .. Len(old) : Fresh(c, old[k], Done(s) \o o.reqs)
      BY <1>1, <1>4, <2>1, <2>2, FreshGrows
    <3> HIDE DEF old, new
    <3>6. /\ Len(old \o new) = Len(old) + Len(new) /\ Len(old) \in Nat /\ Len(new) \in Nat
          /\ \A k \in 1 .. Len(old) : (old \o new)[k] = old[k]
          /\ \A k \in Len(old) + 1 .. Len(old) + Len(new) : (old \o new)[k] = new[k - Len(old)]
      <4>1. Len(old) \in Nat /\ Len(new) \in Nat
        BY <3>1 DEF SeqT
      <4> QED BY <3>1, <4>1, ConcatParts
    <3>7. Fresh(c, (old \o new)[i], Done(s) \o o.reqs)
      <4>1. CASE i \in 1 .. Len(old)
        BY <3>5, <3>6, <4>1
      <4>2. CASE i \notin 1 .. Len(old)
        <5>1. i \in Len(old) + 1 .. Len(old) + Len(new) /\ i - Len(old) \in 1 .. Len(new)
          BY <3>2, <3>6, <4>2
        <5> QED BY <3>4, <3>6, <5>1
      <4> QED BY <4>1, <4>2
    <3> QED BY <1>1, <2>2, <3>2, <3>7
  <2>3. CASE ProxyOf[c] # s
    BY <1>8, <1>10, <2>1, <2>3
  <2> QED BY <2>2, <2>3
<1> QED BY <1>2, <1>7, <1>9, <1>10 DEF ReplyInv

-----------------------------------------------------------------------------
(* The invariant.                                                            *)

(* The inductive invariant.                                                  *)
IInv == TypeInv /\ ProxyInv /\ KeepInv /\ LogInv /\ StoreInv /\ ReplyInv

(* What leaves the proxies alone keeps their invariants.                     *)
LEMMA ProxyKept ==
    ASSUME ProxyInv, KeepInv, UNCHANGED proxyVars
    PROVE  ProxyInv' /\ KeepInv'
<1>1. received' = received /\ batch' = batch /\ submitted' = submitted
  BY DEF proxyVars
<1>2. ProxyInv'
  BY <1>1 DEF ProxyInv
<1>3. \A s \in Server : Taken(s)' = Taken(s)
  BY <1>1 DEF Taken
<1>4. KeepInv'
  BY <1>1, <1>3, ProxyAssumption DEF KeepInv
<1> QED BY <1>2, <1>4

(* What leaves the log and the broadcasts alone keeps the invariant of the   *)
(* log.                                                                      *)
LEMMA LogKept ==
    ASSUME LogInv, UNCHANGED <<log, submitted>>
    PROVE  LogInv'
<1>1. InLog' = InLog
  BY DEF InLog
<1> QED BY <1>1 DEF LogInv, UpTo, Broadcast

(* What leaves the executor alone keeps its invariants, also when the log    *)
(* grows.                                                                    *)
LEMMA ExecutorKept ==
    ASSUME TypeInv, StoreInv, ReplyInv, UNCHANGED <<executorVars, StorageMode>>,
           log' = log \/ \E x : log' = Append(log, x)
    PROVE  StoreInv' /\ ReplyInv'
<1>1. UNCHANGED <<currSeq, store, replies, StorageMode>>
  BY DEF executorVars
<1>2. \A s \in Server : Done(s)' = Done(s)
  BY <1>1, DoneKept
<1>3. StoreInv'
  BY <1>1, <1>2 DEF StoreInv
<1>4. ReplyInv'
  BY <1>1, <1>2, ProxyAssumption DEF ReplyInv
<1> QED BY <1>3, <1>4

(* The invariant holds at first.                                             *)
LEMMA InitHolds == Init => IInv
<1> SUFFICES ASSUME Init PROVE IInv
  OBVIOUS
<1> USE DEF Init
<1>1. << >> \in ReqSeq /\ << >> \in ObjSeq /\ << >> \in LogSeq /\ << >> \in ReplySeq
  BY DEF ReqSeq, ObjSeq, LogSeq, ReplySeq
<1>2. \A c \in Client : Len(Requests[c]) \in Nat
  <2> TAKE c \in Client
  <2>1. Requests[c] \in Seq(Seq(Command))
    BY RequestsAssumption
  <2> QED BY <2>1
<1>3. Len(<< >>) = 0 /\ SubSeq(<< >>, 1, 0) = << >> /\ DOMAIN << >> = {}
  OBVIOUS
<1>4. TypeInv
  BY <1>1, <1>2, <1>3, ModeAssumption, BatchAssumption DEF TypeInv
<1>5. ProxyInv
  BY <1>3 DEF ProxyInv, OwnClients
<1>6. KeepInv
  <2>1. \A s \in Server : Taken(s) = << >>
    <3>1. << >> \o << >> = << >>
      OBVIOUS
    <3> QED BY <3>1, HistoryEmpty DEF Taken
  <2>2. \A c : Prefix(c, 0) = << >>
    BY DEF Prefix
  <2> QED BY <2>1, <2>2, OfEmpty, ProxyAssumption DEF KeepInv
<1>7. LogInv
  <2>1. InLog = {}
    BY <1>3 DEF InLog
  <2>2. \A s \in Server : UpTo(s, 0)
    <3> TAKE s \in Server
    <3>1. submitted[s] = << >> /\ SubSeq(submitted[s], 1, 0) = log /\ Len(submitted[s]) = 0
      BY <1>3
    <3>2. \A c \in Client : Of(c, HistoryOf(log)) = Of(c, HistoryOf(SubSeq(submitted[s], 1, 0)))
      BY ONLY <3>1
    <3>3. \A i \in 1 .. Len(submitted[s]) : FALSE
      BY <3>1
    <3> QED BY <3>2, <3>3 DEF UpTo
  <2> QED BY <1>3, <2>1, <2>2 DEF LogInv
<1>8. \A s \in Server : Done(s) = << >>
  BY <1>3, HistoryEmpty DEF Done
<1>9. StoreInv
  BY <1>8, FlattenEmpty, AfterEmpty, EmptyType DEF StoreInv
<1>10. ReplyInv
  <2>1. ASSUME NEW c \in Client PROVE Answers(Empty, c, << >>) = << >>
    BY PlacesEmpty DEF Answers
  <2> QED BY <1>1, <1>3, <1>8, <2>1, ProxyAssumption DEF ReplyInv
<1> QED BY <1>4, <1>5, <1>6, <1>7, <1>9, <1>10 DEF IInv

(* A client sends a request.                                                 *)
LEMMA SendHolds == ASSUME IInv, NEW c \in Client, SendRequest(c) PROVE IInv'
<1>1. /\ sent[c] < Len(Requests[c]) /\ sent' = [sent EXCEPT ![c] = @ + 1]
      /\ UNCHANGED <<proxyVars, consensusVars, executorVars, StorageMode>>
  BY DEF SendRequest
<1>2. UNCHANGED <<received, batch, submitted, log, decided, currSeq>>
  BY <1>1 DEF proxyVars, consensusVars, executorVars
<1>3. TypeInv'
  <2>1. \A d \in Client : Len(Requests[d]) \in Nat
    <3> TAKE d \in Client
    <3>1. Requests[d] \in Seq(Seq(Command))
      BY RequestsAssumption
    <3> QED BY <3>1
  <2>2. /\ sent' \in [Client -> Nat]
        /\ \A d \in Client : received[d] <= sent'[d] /\ sent'[d] <= Len(Requests[d])
    BY <1>1, <2>1 DEF IInv, TypeInv
  <2> QED BY <1>1, <1>2, <2>2 DEF IInv, TypeInv
<1> QED BY <1>1, <1>2, <1>3, ProxyKept, LogKept, ExecutorKept DEF IInv

(* CmdReceiver takes a request.                                              *)
LEMMA ReceiveHolds == ASSUME IInv, NEW c \in Client, ReceiveRequest(c) PROVE IInv'
<1>1. UNCHANGED <<sent, log, decided, executorVars, StorageMode>>
  BY DEF ReceiveRequest, consensusVars
<1>2. TypeInv' /\ ProxyInv' /\ \A t \in Server : Broadcasts(t)
  BY ReceiveStep DEF IInv
<1>3. KeepInv'
  BY ReceiveKeeps DEF IInv
<1>4. LogInv'
  BY <1>1, <1>2, BroadcastKeepsLog DEF IInv
<1> QED BY <1>1, <1>2, <1>3, <1>4, ExecutorKept DEF IInv

(* The clock of the batches ticks.                                           *)
LEMMA TickHolds == ASSUME IInv, NEW s \in Server, BatchTick(s) PROVE IInv'
<1>1. UNCHANGED <<received, log, executorVars, StorageMode>>
  BY DEF BatchTick, consensusVars
<1>2. /\ TypeInv' /\ ProxyInv' /\ \A t \in Server : Broadcasts(t)
      /\ \A t \in Server : Taken(t)' = Taken(t)
  BY BatchTickStep DEF IInv
<1>3. KeepInv'
  BY <1>1, <1>2, ProxyAssumption DEF IInv, KeepInv
<1>4. LogInv'
  BY <1>1, <1>2, BroadcastKeepsLog DEF IInv
<1> QED BY <1>1, <1>2, <1>3, <1>4, ExecutorKept DEF IInv

(* A slot is decided: the history grows, or the slot is Null.                *)
LEMMA DecideHolds ==
    ASSUME IInv, DecideSlot
    PROVE  /\ IInv'
           /\ \/ HistoryOf(log') = HistoryOf(log)
              \/ \E more \in ReqSeq : more # << >> /\ HistoryOf(log') = HistoryOf(log) \o more
<1>1. UNCHANGED <<sent, proxyVars, decided, executorVars, StorageMode>>
  BY DEF DecideSlot
<1>2. UNCHANGED <<received, batch, submitted, decided, currSeq>>
  BY <1>1 DEF proxyVars, executorVars
<1>3. /\ log' \in LogSeq /\ Len(log') = Len(log) + 1 /\ LogInv'
      /\ \/ HistoryOf(log') = HistoryOf(log)
         \/ \E more \in ReqSeq : more # << >> /\ HistoryOf(log') = HistoryOf(log) \o more
      /\ \E x : log' = Append(log, x)
  <2>1. CASE \E o \in Decidable : log' = Append(log, o)
    <3>1. PICK o \in Decidable : log' = Append(log, o)
      BY <2>1
    <3> QED BY <1>2, <3>1, DecideStep DEF IInv
  <2>2. CASE log' = Append(log, Null)
    BY <1>2, <2>2, NullStep DEF IInv
  <2> QED BY <2>1, <2>2 DEF DecideSlot
<1>4. TypeInv'
  <2>1. log \in LogSeq /\ Len(log) \in Nat
    BY DEF IInv, TypeInv, LogSeq
  <2>2. \A s \in Server : decided'[s] <= Len(log')
    BY <1>2, <1>3, <2>1 DEF IInv, TypeInv
  <2> QED BY <1>1, <1>2, <1>3, <2>2 DEF IInv, TypeInv
<1> QED BY <1>1, <1>3, <1>4, ProxyKept, ExecutorKept DEF IInv

(* A slot of a server is done.                                               *)
LEMMA DoneHolds == ASSUME IInv, NEW s \in Server, SlotDone(s) PROVE IInv'
<1>1. /\ decided[s] < Len(log) /\ decided' = [decided EXCEPT ![s] = @ + 1]
      /\ UNCHANGED <<sent, proxyVars, log, executorVars, StorageMode>>
  BY DEF SlotDone
<1>2. UNCHANGED <<received, batch, submitted, currSeq>>
  BY <1>1 DEF proxyVars, executorVars
<1>3. TypeInv'
  <2>1. log \in LogSeq /\ Len(log) \in Nat
    BY DEF IInv, TypeInv, LogSeq
  <2>2. /\ decided' \in [Server -> Nat]
        /\ \A t \in Server : currSeq[t] <= decided'[t] /\ decided'[t] <= Len(log)
    BY <1>1, <2>1 DEF IInv, TypeInv
  <2> QED BY <1>1, <1>2, <2>2 DEF IInv, TypeInv
<1> QED BY <1>1, <1>2, <1>3, ProxyKept, LogKept, ExecutorKept DEF IInv

(* KVSExecutor skips a Null slot.                                            *)
LEMMA SkipHolds == ASSUME IInv, NEW s \in Server, SkipNull(s) PROVE IInv'
<1>1. /\ currSeq[s] < decided[s] /\ log[currSeq[s] + 1] = Null
      /\ currSeq' = [currSeq EXCEPT ![s] = @ + 1]
      /\ UNCHANGED <<sent, proxyVars, log, decided, store, replies, StorageMode>>
  BY DEF SkipNull, consensusVars
<1>2. UNCHANGED <<received, batch, submitted>>
  BY <1>1 DEF proxyVars
<1>3. /\ Done(s)' = Done(s) \o SlotReqs(Null)
      /\ \A t \in Server \ {s} : Done(t)' = Done(t)
      /\ currSeq' \in [Server -> Nat]
      /\ \A t \in Server : currSeq'[t] <= decided[t]
  BY <1>1, DoneNext DEF IInv
<1>4. Done(s)' = Done(s)
  <2>1. \A h \in ReqSeq : h \o << >> = h
    BY DEF ReqSeq
  <2> QED BY <1>3, <2>1, DoneType DEF SlotReqs, IInv
<1>5. \A t \in Server : Done(t)' = Done(t)
  BY <1>3, <1>4
<1>6. TypeInv'
  BY <1>1, <1>2, <1>3 DEF IInv, TypeInv
<1>7. StoreInv'
  BY <1>1, <1>5 DEF IInv, StoreInv
<1>8. ReplyInv'
  BY <1>1, <1>5, ProxyAssumption DEF IInv, ReplyInv
<1> QED BY <1>1, <1>2, <1>6, <1>7, <1>8, ProxyKept, LogKept DEF IInv

(* KVSExecutor executes an object and replies.                               *)
LEMMA ExecuteHolds == ASSUME IInv, NEW s \in Server, ExecuteAndReply(s) PROVE IInv'
<1>1. UNCHANGED <<proxyVars, log, submitted>>
  BY DEF ExecuteAndReply, consensusVars, proxyVars
<1>2. TypeInv' /\ StoreInv'
  BY ExecuteStore DEF IInv
<1>3. ReplyInv'
  BY ExecuteReplies DEF IInv
<1> QED BY <1>1, <1>2, <1>3, ProxyKept, LogKept DEF IInv

(* Nothing changes.                                                          *)
LEMMA StutterHolds == ASSUME IInv, UNCHANGED vars PROVE IInv'
<1>1. UNCHANGED <<StorageMode, sent, proxyVars, log, decided, executorVars, submitted>>
  BY DEF vars, consensusVars, proxyVars
<1>2. TypeInv'
  BY <1>1 DEF IInv, TypeInv, proxyVars, executorVars
<1> QED BY <1>1, <1>2, ProxyKept, LogKept, ExecutorKept DEF IInv

(* Every step keeps the invariant.                                           *)
LEMMA NextHolds == IInv /\ [Next]_vars => IInv'
<1> SUFFICES ASSUME IInv, [Next]_vars PROVE IInv'
  OBVIOUS
<1>1. ASSUME NEW c \in Client, SendRequest(c) PROVE IInv'
  BY <1>1, SendHolds
<1>2. ASSUME NEW c \in Client, ReceiveRequest(c) PROVE IInv'
  BY <1>2, ReceiveHolds
<1>3. ASSUME NEW s \in Server, BatchTick(s) PROVE IInv'
  BY <1>3, TickHolds
<1>4. CASE DecideSlot
  BY <1>4, DecideHolds
<1>5. ASSUME NEW s \in Server, SlotDone(s) PROVE IInv'
  BY <1>5, DoneHolds
<1>6. ASSUME NEW s \in Server, SkipNull(s) PROVE IInv'
  BY <1>6, SkipHolds
<1>7. ASSUME NEW s \in Server, ExecuteAndReply(s) PROVE IInv'
  BY <1>7, ExecuteHolds
<1>8. CASE UNCHANGED vars
  BY <1>8, StutterHolds
<1> QED BY <1>1, <1>2, <1>3, <1>4, <1>5, <1>6, <1>7, <1>8 DEF Next

(* The invariant holds of every behaviour.                                   *)
LEMMA Invariant == Spec => []IInv
BY InitHolds, NextHolds, PTL DEF Spec

(* The invariant implies the types.                                          *)
LEMMA TypesHold == IInv => TypeOK
<1> SUFFICES ASSUME IInv PROVE TypeOK
  OBVIOUS
<1> USE DEF IInv
<1>1. ReqSeq \subseteq Seq(RequestName)
  <2>1. ReqName \subseteq RequestName
    BY DEF ReqName, RequestName
  <2> QED BY <2>1, SeqMonotonic DEF ReqSeq
<1>2. ObjSeq \subseteq Seq(Object)
  <2>1. Obj \subseteq Object
    BY <1>1 DEF Obj, Object
  <2> QED BY <2>1, SeqMonotonic DEF ObjSeq
<1>3. /\ sent \in [Client -> Nat] /\ received \in [Client -> Nat]
      /\ batch \in [Server -> Seq(RequestName)]
      /\ submitted \in [Server -> Seq(Object)]
      /\ \A s \in Server : Len(batch[s]) < ProxyBatchSize
  BY <1>1, <1>2 DEF TypeInv
<1>4. decided \in [Server -> 0 .. Len(log)] /\ \A s \in Server : currSeq[s] \in 0 .. decided[s]
  <2>1. Len(log) \in Nat
    BY DEF TypeInv, LogSeq
  <2> QED BY <2>1 DEF TypeInv
<1>5. store \in [Server -> [Key -> Value \cup {Missing}]]
  BY DEF StoreInv, KVStore
<1>6. ASSUME NEW c \in Client, NEW i \in DOMAIN replies[c]
      PROVE  replies[c][i].seq \in Nat /\ replies[c][i].results \in Seq(Value \cup {Missing, "ok"})
  <2>1. replies[c] \in Seq(Reply)
    BY DEF ReplyInv, ReplySeq
  <2>2. replies[c][i] \in Reply
    BY <2>1
  <2> QED BY <2>2 DEF Reply, ResultSeq
<1> QED BY <1>3, <1>4, <1>5, <1>6 DEF TypeOK

(* The variables have their types, those of the Go fields they model: a      *)
(* server has executed no slot that is not done, and no batch is full        *)
(* between two steps.                                                        *)
THEOREM TypeCorrect == Spec => []TypeOK
BY Invariant, TypesHold, PTL

(* The invariant implies that the batches keep the requests.                 *)
LEMMA BatchesKeep == IInv => BatchesKeepRequests
<1> SUFFICES ASSUME IInv, NEW c \in Client
             PROVE  LET s == ProxyOf[c]
                        taken == FlattenSeq([i \in DOMAIN submitted[s] |-> submitted[s][i].reqs])
                                    \o batch[s]
                    IN  Of(c, taken) = [i \in 1 .. received[c] |-> Request(c, i - 1)]
  BY DEF BatchesKeepRequests
<1> DEFINE s == ProxyOf[c]
<1>1. submitted[s] \in ObjSeq
  BY ProxyAssumption, TakenType DEF IInv
<1>2. FlattenSeq([i \in DOMAIN submitted[s] |-> submitted[s][i].reqs]) = HistoryOf(submitted[s])
  BY <1>1, ObjectsAreSlots
<1>3. Of(c, Taken(s)) = Prefix(c, received[c])
  BY DEF IInv, KeepInv
<1> QED BY <1>2, <1>3 DEF Taken, Prefix

(* No request is lost, repeated or overtaken on its way through the batches  *)
(* of CmdReceiver, whether full batches or ticks of the clock close them.    *)
THEOREM BatchesKept == Spec => []BatchesKeepRequests
BY Invariant, BatchesKeep, PTL

-----------------------------------------------------------------------------

(* The invariant implies the order of the history.                           *)
LEMMA HistoryHolds == IInv => HistoryInv
BY HistoryInOrder DEF IInv

(* A request has one place in the history.                                   *)
LEMMA OnePlace ==
    ASSUME NEW c, NEW h \in ReqSeq, NEW n \in Nat, Of(c, h) = Prefix(c, n),
           NEW q \in 1 .. Len(h), h[q].cli = c
    PROVE  \A j \in 1 .. Len(h) : h[j] = h[q] => j = q
<1>1. /\ PlacesOf(c, h) \in Seq(Nat)
      /\ \E i \in 1 .. Len(PlacesOf(c, h)) : PlacesOf(c, h)[i] = q
  BY PlacesExact
<1>2. PICK i \in 1 .. Len(PlacesOf(c, h)) : PlacesOf(c, h)[i] = q
  BY <1>1
<1>3. Len(PlacesOf(c, h)) = n
  BY OfType, PrefixStep
<1>4. i \in 1 .. n /\ Of(c, h) = [k \in 1 .. n |-> Request(c, k - 1)]
  BY <1>2, <1>3 DEF Prefix
<1>5. /\ h[PlacesOf(c, h)[i]] = Request(c, i - 1)
      /\ \A j \in 1 .. Len(h) : h[j] = Request(c, i - 1) => j = PlacesOf(c, h)[i]
  <2>1. Of(c, h) = [k \in 1 .. n |-> Request(c, k - 1)]
    BY DEF Prefix
  <2>2. \A k \in 1 .. n :
           /\ h[PlacesOf(c, h)[k]] = Request(c, k - 1)
           /\ \A j \in 1 .. Len(h) : h[j] = Request(c, k - 1) => j = PlacesOf(c, h)[k]
    BY <2>1, PlaceOfRequest
  <2> QED BY <1>4, <2>2
<1> QED BY <1>2, <1>5

(* What a server executed is the first part of the history.                  *)
LEMMA DoneFirst ==
    ASSUME TypeInv, NEW s \in Server
    PROVE  \E rest \in ReqSeq : HistoryOf(log) = Done(s) \o rest
BY DoneType, HistoryPrefix DEF Done

(* The invariant implies that no read is stale: the place of its request is  *)
(* unique.                                                                   *)
LEMMA NoneStale == IInv => NoStaleRead
<1> SUFFICES ASSUME IInv, StorageMode = 2, NEW c \in Client, NEW i \in DOMAIN replies[c],
                    NEW j \in DOMAIN CommandsOf(Request(c, replies[c][i].seq)),
                    CommandsOf(Request(c, replies[c][i].seq))[j].op = "read"
             PROVE  LET all == Flatten(History)
                        before(r) == LET at == CHOOSE k \in DOMAIN History : History[k] = r
                                     IN  Len(Flatten(SubSeq(History, 1, at - 1)))
                        r == Request(c, replies[c][i].seq)
                        cmds == CommandsOf(r)
                    IN  \E n \in before(r) + j - 1 .. Len(all) :
                            replies[c][i].results[j] =
                                After(Empty, SubSeq(all, 1, n))[cmds[j].key]
  BY DEF NoStaleRead
<1> DEFINE h == HistoryOf(log)
           rep == replies[c][i]
           r == Request(c, rep.seq)
<1>0. ProxyOf[c] \in Server /\ log \in LogSeq
  BY ProxyAssumption DEF IInv, TypeInv
<1>1. h \in ReqSeq /\ History = h
  BY <1>0, HistoryType, HistoryIs
<1>2. Fresh(c, rep, h)
  <2>1. Fresh(c, rep, Done(ProxyOf[c]))
    <3>1. replies[c] \in Seq(Reply)
      BY DEF IInv, ReplyInv, ReplySeq
    <3>2. i \in 1 .. Len(replies[c])
      BY <3>1
    <3> QED BY <3>2 DEF IInv, ReplyInv
  <2>2. PICK rest \in ReqSeq : h = Done(ProxyOf[c]) \o rest
    BY <1>0, DoneFirst DEF IInv
  <2>3. Done(ProxyOf[c]) \in ReqSeq
    BY <1>0, DoneType DEF IInv
  <2> HIDE DEF h, rep
  <2>4. Fresh(c, rep, Done(ProxyOf[c]) \o rest)
    BY <2>1, <2>3, FreshGrows
  <2> QED BY <2>2, <2>4
<1> HIDE DEF h, rep
<1>3. PICK q \in 1 .. Len(h) : FreshAt(c, rep, h, q)
  BY <1>2 DEF Fresh
<1>4. h[q] = r /\ r.cli = c
  BY <1>3 DEF FreshAt, Request
<1>5. \A k \in 1 .. Len(h) : h[k] = r => k = q
  <2>1. PICK n \in Nat : Of(c, h) = Prefix(c, n)
    <3>1. received[c] \in Nat /\ HistoryInv
      BY HistoryHolds DEF IInv, TypeInv
    <3> QED BY <3>1 DEF HistoryInv, h
  <2>2. h[q].cli = c
    BY <1>4
  <2>3. \A k \in 1 .. Len(h) : h[k] = h[q] => k = q
    BY <1>1, <2>1, <2>2, OnePlace
  <2> QED BY <1>4, <2>3
<1>6. DOMAIN h = 1 .. Len(h)
  BY <1>1 DEF ReqSeq
<1>7. (CHOOSE k \in DOMAIN h : h[k] = r) = q
  BY <1>4, <1>5, <1>6
<1>8. CommandsOf(r) \in Seq(Command)
  <2>1. r \in ReqName
    BY <1>1, <1>4 DEF ReqSeq
  <2> QED BY <2>1, CommandsOfType DEF CmdSeq, SeqT
<1>9. j \in 1 .. Len(CommandsOf(r)) /\ CommandsOf(r)[j].op = "read"
  BY <1>8 DEF rep
<1>10. Saw(rep, h, q, j)
  BY <1>3, <1>4, <1>9 DEF FreshAt
<1>11. PICK n \in Nat :
          /\ Len(Flatten(SubSeq(h, 1, q - 1))) + j - 1 <= n
          /\ n <= Len(Flatten(h))
          /\ rep.results[j] = After(Empty, SubSeq(Flatten(h), 1, n))[CommandsOf(r)[j].key]
  BY <1>4, <1>10 DEF Saw
<1>12. /\ Len(Flatten(SubSeq(h, 1, q - 1))) \in Nat /\ Len(Flatten(h)) \in Nat
  BY <1>1, FlattenBound
<1>13. n \in Len(Flatten(SubSeq(h, 1, q - 1))) + j - 1 .. Len(Flatten(h))
  BY <1>8, <1>9, <1>11, <1>12
<1> QED BY <1>1, <1>7, <1>11, <1>13 DEF rep

(* With MGET and MSET (RedisBatchExecuteCmd) no read returns a value that    *)
(* was overwritten before its request.                                       *)
THEOREM NeverStale == Spec => []NoStaleRead
BY Invariant, NoneStale, PTL

-----------------------------------------------------------------------------
(* The same operators in the service.                                        *)

(* The places of requests.                                                   *)
LEMMA ServicePlaces == ASSUME NEW c, NEW h PROVE Service!PlacesOf(c, h) = PlacesOf(c, h)
BY DEF Service!PlacesOf, PlacesOf, Service!AddPlace, AddPlace

(* The requests of a client.                                                 *)
LEMMA ServiceOf == ASSUME NEW c, NEW h PROVE Service!Of(c, h) = Of(c, h)
BY ServicePlaces DEF Service!Of, Of

(* The store after commands.                                                 *)
LEMMA ServiceAfter == ASSUME NEW kv, NEW cmds PROVE Service!After(kv, cmds) = After(kv, cmds)
BY DEF Service!After, After, Service!Write, Write

(* The commands of requests.                                                 *)
LEMMA ServiceFlatten == ASSUME NEW reqs PROVE Service!Flatten(reqs) = Flatten(reqs)
BY DEF Service!Flatten, Flatten, Service!FlattenSeq, FlattenSeq, Service!CommandsOf, CommandsOf

(* The results of commands.                                                  *)
LEMMA ServiceResults == ASSUME NEW kv, NEW cmds PROVE Service!Results(kv, cmds) = Results(kv, cmds)
BY ServiceAfter DEF Service!Results, Results

(* The result of the request at a place of the history.                      *)
LEMMA ServiceResultAt ==
    ASSUME NEW i
    PROVE  Service!ResultAt(i) =
               Results(After(Empty, Flatten(SubSeq(History, 1, i - 1))), CommandsOf(History[i]))
<1>1. Service!Empty = Empty
  BY DEF Service!Empty, Empty
<1>2. \A r : Service!CommandsOf(r) = CommandsOf(r)
  BY DEF Service!CommandsOf, CommandsOf
<1> QED BY <1>1, <1>2, ServiceAfter, ServiceFlatten, ServiceResults DEF Service!ResultAt

(* The answers to the requests of a client are replies.                      *)
LEMMA AnswersType ==
    ASSUME NEW kv \in KVStore, NEW c, NEW h \in ReqSeq
    PROVE  Answers(kv, c, h) \in ReplySeq
<1> DEFINE P == PlacesOf(c, h)
<1>1. P \in Seq(Nat) /\ \A i \in 1 .. Len(P) : P[i] \in 1 .. Len(h)
  BY PlacesExact
<1>2. ASSUME NEW p \in 1 .. Len(h) PROVE AnswerAt(kv, h, p) \in Reply
  <2>1. h[p] \in ReqName /\ SubSeq(h, 1, p - 1) \in ReqSeq
    BY DEF ReqSeq
  <2>2. Flatten(SubSeq(h, 1, p - 1)) \in Seq(Command)
    BY <2>1, FlattenType DEF CmdSeq, SeqT
  <2>3. After(kv, Flatten(SubSeq(h, 1, p - 1))) \in KVStore
    BY <2>2, AfterType
  <2>4. Results(After(kv, Flatten(SubSeq(h, 1, p - 1))), CommandsOf(h[p])) \in ResultSeq
    BY <2>1, <2>3, ResultsType
  <2>5. h[p].seq \in Nat
    BY <2>1 DEF ReqName
  <2> QED BY <2>4, <2>5 DEF AnswerAt, AnswerTo, Reply
<1> HIDE DEF P
<1>3. /\ \A i \in 1 .. Len(P) : AnswerAt(kv, h, P[i]) \in Reply
      /\ Len(P) \in Nat
  BY <1>1, <1>2
<1>4. Answers(kv, c, h) = [i \in 1 .. Len(P) |-> AnswerAt(kv, h, P[i])]
  BY DEF Answers, P
<1> QED BY <1>3, <1>4 DEF ReplySeq

(* The answers to the first requests come first.                             *)
LEMMA AnswersPrefix ==
    ASSUME NEW c, NEW first \in ReqSeq, NEW rest \in ReqSeq
    PROVE  Service!IsPrefix(Answers(Empty, c, first), Answers(Empty, c, first \o rest))
<1> DEFINE kv == After(Empty, Flatten(first))
           u == Answers(Empty, c, first)
           v == Answers(kv, c, rest)
<1>1. Answers(Empty, c, first \o rest) = u \o v
  BY AnswersConcat, EmptyType
<1>2. kv \in KVStore
  <2>1. Flatten(first) \in Seq(Command)
    BY FlattenType DEF CmdSeq, SeqT
  <2> QED BY <2>1, AfterType, EmptyType
<1>3. u \in ReplySeq /\ v \in ReplySeq
  BY <1>2, AnswersType, EmptyType
<1> HIDE DEF kv, u, v
<1>4. Len(u) <= Len(u \o v) /\ SubSeq(u, 1, Len(u)) = SubSeq(u \o v, 1, Len(u))
  BY <1>3 DEF ReplySeq
<1> QED BY <1>1, <1>4 DEF u, Service!IsPrefix

(* The right replies are the answers to the history.                         *)
LEMMA RightAnswers ==
    ASSUME NEW c \in Client, History \in ReqSeq, NEW n \in Nat, Of(c, History) = Prefix(c, n)
    PROVE  Service!RightReplies(c) = Answers(Empty, c, History)
<1> DEFINE h == History
           P == PlacesOf(c, h)
           right(i) == LET at == CHOOSE j \in DOMAIN h : h[j] = Request(c, i - 1)
                       IN  [seq |-> i - 1, results |-> Service!ResultAt(at)]
<1>1. Len(Of(c, h)) = n /\ Len(P) = n
  BY OfType, PrefixStep
<1>2. Of(c, h) = [i \in 1 .. n |-> Request(c, i - 1)]
  BY DEF Prefix
<1>3. ASSUME NEW i \in 1 .. n PROVE right(i) = AnswerAt(Empty, h, P[i])
  <2>1. /\ P[i] \in 1 .. Len(h) /\ h[P[i]] = Request(c, i - 1)
        /\ \A j \in 1 .. Len(h) : h[j] = Request(c, i - 1) => j = P[i]
    BY <1>2, PlaceOfRequest
  <2>2. DOMAIN h = 1 .. Len(h)
    BY DEF ReqSeq
  <2> HIDE DEF h, P
  <2>3. (CHOOSE j \in DOMAIN h : h[j] = Request(c, i - 1)) = P[i]
    BY <2>1, <2>2
  <2>4. right(i) = [seq |-> i - 1, results |-> Service!ResultAt(P[i])]
    BY <2>3
  <2>5. Service!ResultAt(P[i]) =
           Results(After(Empty, Flatten(SubSeq(h, 1, P[i] - 1))), CommandsOf(h[P[i]]))
    BY ServiceResultAt DEF h
  <2>6. h[P[i]].seq = i - 1
    BY <2>1 DEF Request
  <2> QED BY <2>4, <2>5, <2>6 DEF AnswerAt, AnswerTo
<1>4. Service!RightReplies(c) = [i \in 1 .. n |-> right(i)]
  <2>1. \A x, y : Service!Request(x, y) = Request(x, y)
    BY DEF Service!Request, Request
  <2>2. Len(Service!Of(c, History)) = n
    BY <1>1, ServiceOf
  <2> QED BY <2>1, <2>2 DEF Service!RightReplies
<1>5. Answers(Empty, c, h) = [i \in 1 .. n |-> AnswerAt(Empty, h, P[i])]
  BY <1>1 DEF Answers
<1> HIDE DEF right, P
<1> QED BY <1>3, <1>4, <1>5

(* The initial states are those of the service.                              *)
LEMMA ServiceInit == Init => Service!Init
<1> SUFFICES ASSUME Init PROVE Service!Init
  OBVIOUS
<1>1. History = << >>
  BY HistoryIs, HistoryEmpty DEF Init
<1> QED BY <1>1 DEF Init, Service!Init

(* A decided object takes effect; a Null slot changes nothing.               *)
LEMMA ServiceDecide ==
    ASSUME IInv, HistoryInv', DecideSlot
    PROVE  Service!TakeEffect \/ UNCHANGED Service!vars
<1>1. UNCHANGED <<sent, replies, received>>
  BY DEF DecideSlot, executorVars, proxyVars
<1>2. History = HistoryOf(log) /\ History' = HistoryOf(log')
  BY HistoryIs DEF History, HistoryOf, SlotReqs
<1>3. HistoryOf(log) \in ReqSeq
  BY HistoryType DEF IInv, TypeInv
<1>4. CASE HistoryOf(log') = HistoryOf(log)
  BY <1>1, <1>2, <1>4 DEF Service!vars
<1>5. CASE \E more \in ReqSeq : more # << >> /\ HistoryOf(log') = HistoryOf(log) \o more
  <2>1. PICK more \in ReqSeq : more # << >> /\ HistoryOf(log') = HistoryOf(log) \o more
    BY <1>5
  <2>2. Service!IsStrictPrefix(History, History')
    <3> DEFINE h == HistoryOf(log)
    <3>1. h \in Seq(ReqName) /\ more \in Seq(ReqName)
      BY <1>3 DEF ReqSeq
    <3> HIDE DEF h
    <3>2. Len(h) <= Len(h \o more) /\ SubSeq(h, 1, Len(h)) = SubSeq(h \o more, 1, Len(h))
      BY <3>1
    <3>3. h # h \o more
      <4>1. Len(more) \in Nat \ {0} /\ Len(h) \in Nat /\ Len(h \o more) = Len(h) + Len(more)
        BY <2>1, <3>1
      <4> QED BY <4>1
    <3>4. History = h /\ History' = h \o more
      BY <1>2, <2>1 DEF h
    <3> QED BY <3>2, <3>3, <3>4 DEF Service!IsStrictPrefix, Service!IsPrefix
  <2>3. ASSUME NEW c \in Client
        PROVE  LET n == Len(Service!Of(c, History'))
               IN  /\ n <= sent[c]
                   /\ Service!Of(c, History') = [i \in 1 .. n |-> Service!Request(c, i - 1)]
    <3>1. PICK n \in 0 .. received'[c] : Of(c, HistoryOf(log')) = Prefix(c, n)
      BY DEF HistoryInv
    <3>2. received[c] \in Nat /\ sent[c] \in Nat /\ received[c] <= sent[c]
      BY DEF IInv, TypeInv
    <3>3. n \in Nat /\ n <= sent[c]
      BY <1>1, <3>1, <3>2
    <3>4. Service!Of(c, History') = Prefix(c, n)
      <4>1. Service!Of(c, HistoryOf(log')) = Prefix(c, n)
        BY <3>1, ServiceOf
      <4> QED BY <1>2, <4>1
    <3>5. Len(Prefix(c, n)) = n
      BY <3>3, PrefixStep
    <3>6. \A x, y : Service!Request(x, y) = Request(x, y)
      BY DEF Service!Request, Request
    <3>7. Prefix(c, n) = [i \in 1 .. n |-> Service!Request(c, i - 1)]
      BY <3>6 DEF Prefix
    <3> QED BY <3>3, <3>4, <3>5, <3>7
  <2> QED BY <1>1, <2>2, <2>3 DEF Service!TakeEffect
<1> QED BY <1>4, <1>5, DecideHolds

(* Executing a slot answers requests that took effect before.                *)
LEMMA ServiceAnswer ==
    ASSUME IInv, IInv', StorageMode = 0, NEW s \in Server, ExecuteAndReply(s)
    PROVE  Service!Answer
<1>1. UNCHANGED <<sent, log, StorageMode>>
  BY DEF ExecuteAndReply, consensusVars
<1>2. History = HistoryOf(log) /\ History' = History /\ HistoryOf(log) \in ReqSeq
  <2>1. HistoryOf(log) \in ReqSeq
    BY HistoryType DEF IInv, TypeInv
  <2> QED BY <1>1, <2>1, HistoryIs DEF History
<1>3. ASSUME NEW c \in Client
      PROVE  /\ Service!IsPrefix(replies[c], replies'[c])
             /\ Service!IsPrefix(replies'[c], Service!RightReplies(c))
  <2> DEFINE p == ProxyOf[c]
             o == log[currSeq[s] + 1]
  <2>1. p \in Server
    BY ProxyAssumption
  <2>2. /\ replies[c] = Answers(Empty, c, Done(p))
        /\ replies'[c] = Answers(Empty, c, Done(p)')
    BY <1>1 DEF IInv, ReplyInv
  <2>3. Done(p) \in ReqSeq /\ \E more \in ReqSeq : Done(p)' = Done(p) \o more
    <3>1. /\ o.reqs \in ReqSeq /\ Done(s)' = Done(s) \o o.reqs
          /\ \A t \in Server \ {s} : Done(t)' = Done(t)
      BY ExecuteStore DEF IInv
    <3>2. << >> \in ReqSeq /\ \A h \in ReqSeq : h \o << >> = h
      BY DEF ReqSeq
    <3>3. Done(p) \in ReqSeq
      BY <2>1, DoneType DEF IInv
    <3>4. CASE p = s
      BY <3>1, <3>3, <3>4
    <3>5. CASE p # s
      <4>1. Done(p)' = Done(p) \o << >>
        BY <2>1, <3>1, <3>2, <3>3, <3>5
      <4> QED BY <3>2, <3>3, <4>1
    <3> QED BY <3>4, <3>5
  <2>4. PICK more \in ReqSeq : Done(p)' = Done(p) \o more
    BY <2>3
  <2>5. Done(p)' \in ReqSeq /\ \E rest \in ReqSeq : HistoryOf(log) = Done(p)' \o rest
    <3>1. log \in LogSeq /\ currSeq'[p] \in 0 .. Len(log)
      <4>1. log \in LogSeq /\ Len(log) \in Nat
        BY DEF IInv, TypeInv, LogSeq
      <4>2. currSeq'[p] \in Nat /\ currSeq'[p] <= Len(log)
        <5>1. currSeq'[p] \in Nat /\ decided'[p] \in Nat /\ currSeq'[p] <= decided'[p]
                 /\ decided'[p] <= Len(log')
          BY <2>1 DEF IInv, TypeInv
        <5> QED BY <1>1, <4>1, <5>1
      <4> QED BY <4>1, <4>2
    <3>2. Done(p)' = HistoryOf(SubSeq(log, 1, currSeq'[p]))
      BY <1>1 DEF Done
    <3> QED BY <3>1, <3>2, HistoryPrefix, HistoryType
  <2>6. PICK rest \in ReqSeq : HistoryOf(log) = Done(p)' \o rest
    BY <2>5
  <2>7. PICK n \in Nat : Of(c, History) = Prefix(c, n)
    <3>1. received[c] \in Nat /\ HistoryInv
      BY HistoryHolds DEF IInv, TypeInv
    <3> QED BY <1>2, <3>1 DEF HistoryInv
  <2>8. Service!RightReplies(c) = Answers(Empty, c, History)
    BY <1>2, <2>7, RightAnswers
  <2> HIDE DEF p
  <2>9. Service!IsPrefix(Answers(Empty, c, Done(p)), Answers(Empty, c, Done(p) \o more))
    BY <2>3, AnswersPrefix
  <2>10. Service!IsPrefix(Answers(Empty, c, Done(p)'), Answers(Empty, c, Done(p)' \o rest))
    BY <2>5, AnswersPrefix
  <2> QED BY <1>2, <2>2, <2>4, <2>6, <2>8, <2>9, <2>10
<1> QED BY <1>1, <1>2, <1>3 DEF Service!Answer

(* Every step in dictionary mode is one of the service, or none.             *)
LEMMA ServiceStep ==
    ASSUME IInv, IInv', HistoryInv', [Next]_vars
    PROVE  [StorageMode = 0 => Service!Next]_(Service!vars)
<1> SUFFICES ASSUME StorageMode = 0
             PROVE  Service!Next \/ UNCHANGED Service!vars
  OBVIOUS
<1>1. ASSUME UNCHANGED <<sent, log, replies>> PROVE UNCHANGED Service!vars
  BY <1>1 DEF Service!vars, History
<1>2. ASSUME NEW c \in Client, SendRequest(c) PROVE Service!Next
  <2>1. sent' = [sent EXCEPT ![c] = @ + 1] /\ log' = log /\ replies' = replies
    BY <1>2 DEF SendRequest, consensusVars, executorVars
  <2>2. Service!Send(c)
    BY <2>1 DEF Service!Send, History
  <2> QED BY <2>2 DEF Service!Next
<1>3. ASSUME NEW c \in Client, ReceiveRequest(c) PROVE UNCHANGED Service!vars
  BY <1>1, <1>3 DEF ReceiveRequest, consensusVars, executorVars
<1>4. ASSUME NEW s \in Server, BatchTick(s) \/ SlotDone(s) \/ SkipNull(s)
      PROVE  UNCHANGED Service!vars
  BY <1>1, <1>4 DEF BatchTick, SlotDone, SkipNull, consensusVars, executorVars
<1>5. CASE DecideSlot
  BY <1>5, ServiceDecide DEF Service!Next
<1>6. ASSUME NEW s \in Server, ExecuteAndReply(s) PROVE Service!Next
  BY <1>6, ServiceAnswer DEF Service!Next
<1>7. CASE UNCHANGED vars
  BY <1>1, <1>7 DEF vars, consensusVars, executorVars
<1> QED BY <1>2, <1>3, <1>4, <1>5, <1>6, <1>7 DEF Next

(* In dictionary mode the proxies and executors of all servers are one key-  *)
(* value store: requests take effect once and in the order of their client,  *)
(* and every reply of KVSExecutor is the right one, in order.                *)
THEOREM OneStore == Spec => ImplementsKVService
<1>1. Spec => []IInv
  BY Invariant
<1>2. IInv => HistoryInv
  BY HistoryHolds
<1>3. Init => (StorageMode = 0 => Service!Init)
  BY ServiceInit
<1>4. IInv /\ IInv' /\ HistoryInv' /\ [Next]_vars =>
         [StorageMode = 0 => Service!Next]_(Service!vars)
  BY ServiceStep
<1> QED BY <1>1, <1>2, <1>3, <1>4, PTL DEF Spec, ImplementsKVService
=============================================================================
