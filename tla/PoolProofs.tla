----------------------------- MODULE PoolProofs -----------------------------
(***************************************************************************)
(* Proofs about Pool for any number of programs and resources.             *)
(*                                                                         *)
(* LinkInv is inductive: that a release loses no resource (Pooled) rests   *)
(* on the links being those of a list (Linked), and both on the types.     *)
(***************************************************************************)
EXTENDS Pool, TLAPS

Res == [next : Created \cup {NULL}, prev : Created \cup {NULL},
        owner : Pids, used : BOOLEAN, prot : BOOLEAN,
        kind : {RAW, LIBRARY, IMAGE}]

LinkInv == TypeOK /\ Linked /\ Pooled

(* The two resource tables have the same links. *)
SameLinks(f, g) ==
  \A q \in Rids : f[q].next = g[q].next /\ f[q].prev = g[q].prev

-----------------------------------------------------------------------------
(* There are rids for all that is created. *)
LEMMA RidsCover ==
  /\ \A c \in 1 .. MaxRids : 0 .. c - 1 \subseteq Rids
  /\ FB \in Rids
  /\ \A c \in 1 .. MaxRids - 1 : c \in Rids
<1>1. MaxRids \in Nat \ {0}
  BY PoolAssumption
<1>2. QED BY <1>1 DEF Rids, FB

(* What the search finds has been created. *)
LEMMA ListedCreated == ASSUME TypeOK PROVE Listed \subseteq Created
<1>1. Created \in SUBSET Rids
  BY PoolAssumption DEF TypeOK, Created, Rids
<1>2. Follows(Created)
  <2>1. first \in Created
    BY DEF TypeOK
  <2>2. \A r \in Created : res[r].next \in Created \cup {NULL}
    BY <1>1 DEF TypeOK
  <2>3. QED BY <2>1, <2>2 DEF Follows
<1>3. QED BY <1>1, <1>2 DEF Listed

(* Listed, put as a property of all sets that the links do not leave. *)
LEMMA PooledMeans ==
  ASSUME TypeOK
  PROVE Pooled <=> \A S \in SUBSET Rids : Follows(S) => Created \subseteq S
<1>1. Created \subseteq Rids
  BY PoolAssumption DEF TypeOK, Created, Rids
<1>2. Listed \subseteq Created
  BY ListedCreated
<1>3. QED BY <1>1, <1>2 DEF Pooled, Listed

(* The same in the next state. *)
LEMMA PooledMeansNext ==
  ASSUME TypeOK'
  PROVE Pooled' <=>
          \A S \in SUBSET Rids :
            first' \in S /\ (\A r \in S : res'[r].next \in S \cup {NULL})
              => Created' \subseteq S
<1>1. Created' \subseteq Rids
  <2>1. counter' \in 1 .. MaxRids
    BY DEF TypeOK
  <2>2. QED BY <2>1, RidsCover DEF Created
<1>2. \A r \in Created' : res'[r].next \in Created' \cup {NULL}
  BY <1>1 DEF TypeOK
<1>3. first' \in Created'
  BY DEF TypeOK
<1>4. Listed' = {r \in Rids : \A S \in SUBSET Rids :
        first' \in S /\ (\A q \in S : res'[q].next \in S \cup {NULL}) => r \in S}
  BY DEF Listed, Follows
<1>5. Created' \in SUBSET Rids
  BY <1>1
<1>6. Listed' \subseteq Created'
  BY <1>2, <1>3, <1>4, <1>5
<1>7. QED BY <1>1, <1>4, <1>6 DEF Pooled

(* A step that leaves every link alone leaves the list alone. *)
LEMMA LinksKept ==
  ASSUME LinkInv, TypeOK', counter' = counter, first' = first,
         SameLinks(res', res)
  PROVE Linked' /\ Pooled'
<1>1. Created' = Created /\ Created \subseteq Rids
  BY PoolAssumption DEF TypeOK, LinkInv, Created, Rids
<1>2. \A q \in Created : res'[q].next = res[q].next /\ res'[q].prev = res[q].prev
  BY <1>1 DEF SameLinks
<1>3. first \in Created
  BY DEF LinkInv, TypeOK
<1>4. Linked'
  <2>1. \A r \in Created : res[r].prev # NULL => res[r].prev \in Created
    BY <1>1 DEF LinkInv, TypeOK
  <2>2. QED BY <1>1, <1>2, <1>3, <2>1 DEF Linked, LinkInv
<1>5. Pooled'
  <2>1. SUFFICES ASSUME NEW S \in SUBSET Rids, first' \in S,
                        \A r \in S : res'[r].next \in S \cup {NULL}
                 PROVE Created' \subseteq S
    BY PooledMeansNext
  <2>2. \A r \in S : res[r].next \in S \cup {NULL}
    BY <2>1 DEF SameLinks
  <2>3. Follows(S)
    BY <2>1, <2>2 DEF Follows
  <2>4. QED BY <1>1, <2>3, PooledMeans DEF LinkInv
<1>6. QED BY <1>4, <1>5

(* ResourceCreateK puts the new resource before the first. *)
LEMMA CreateKLinks ==
  ASSUME LinkInv, TypeOK', NEW p \in Pids, NEW kind, NEW prot,
         CreateK(p, kind, prot)
  PROVE Linked' /\ Pooled'
<1>1. /\ counter \in 1 .. MaxRids - 1 /\ counter' = counter + 1
      /\ first' = counter
  BY PoolAssumption DEF LinkInv, TypeOK, CreateK
<1>2. /\ Created' = Created \cup {counter} /\ counter \notin Created
      /\ NULL \notin Created' /\ Created' \subseteq Rids /\ counter \in Rids
  <2>1. Created' = Created \cup {counter} /\ counter \notin Created /\ NULL \notin Created'
    BY <1>1 DEF Created, NULL
  <2>2. Created \subseteq Rids
    BY RidsCover DEF LinkInv, TypeOK, Created
  <2>3. QED BY <1>1, <2>1, <2>2, RidsCover
<1>3. first \in Created /\ first # counter
  BY <1>2 DEF LinkInv, TypeOK
<1>4. /\ res'[counter].next = first /\ res'[counter].prev = NULL
      /\ \A q \in Created : res'[q].next = res[q].next
      /\ res'[first].prev = counter
      /\ \A q \in Created \ {first} : res'[q].prev = res[q].prev
  <2>1. \A q \in Rids :
          res'[q] = CASE q = counter -> Resource(p, kind, prot, first)
                      [] q = first /\ q # counter -> [res[q] EXCEPT !.prev = counter]
                      [] q # counter /\ q # first -> res[q]
    BY DEF CreateK
  <2>2. res'[counter] = Resource(p, kind, prot, first)
    BY <1>2, <2>1
  <2>3. res'[first] = [res[first] EXCEPT !.prev = counter] /\ res[first] \in Res
    BY <1>2, <1>3, <2>1 DEF LinkInv, TypeOK, Res
  <2>4. \A q \in Created \ {first} : res'[q] = res[q]
    BY <1>2, <2>1
  <2>5. QED BY <2>2, <2>3, <2>4 DEF Resource, Res
<1>5. \A q \in Created : /\ res[q].next \in Created \cup {NULL}
                         /\ res[q].prev \in Created \cup {NULL}
  BY <1>2 DEF LinkInv, TypeOK
<1>6. Linked'
  <2>1. \A q, r \in Created' :
          res'[q].next = res'[r].next /\ res'[q].next # NULL => q = r
    BY <1>2, <1>3, <1>4, <1>5 DEF LinkInv, Linked
  <2>2. \A q \in Created' : res'[q].next # first'
    <3>1. \A q \in Created : res'[q].next # counter
      BY <1>2, <1>4, <1>5 DEF NULL
    <3>2. res'[counter].next # counter
      BY <1>3, <1>4
    <3>3. QED BY <1>1, <1>2, <3>1, <3>2
  <2>3. res'[first'].prev = NULL
    BY <1>1, <1>4
  <2>4. \A r \in Created' : res'[r].prev # NULL => res'[res'[r].prev].next = r
    BY <1>2, <1>3, <1>4, <1>5 DEF LinkInv, Linked
  <2>5. QED BY <2>1, <2>2, <2>3, <2>4 DEF Linked
<1>7. Pooled'
  <2>1. SUFFICES ASSUME NEW S \in SUBSET Rids, first' \in S,
                        \A r \in S : res'[r].next \in S \cup {NULL}
                 PROVE Created' \subseteq S
    BY PooledMeansNext
  <2>2. counter \in S /\ first \in S
    BY <1>1, <1>2, <1>3, <1>4, <2>1
  <2> DEFINE T == S \cap Created
  <2>3. Follows(T)
    BY <1>2, <1>3, <1>4, <1>5, <2>1, <2>2 DEF Follows
  <2>4. Created \subseteq T
    BY <2>3, PooledMeans DEF LinkInv
  <2>5. QED BY <1>2, <2>2, <2>4
<1>8. QED BY <1>6, <1>7

(* ResourceUnlinkK moves a resource it does not refuse to the front.       *)
LEMMA UnlinkLinks ==
  ASSUME LinkInv, TypeOK', NEW f, SameLinks(f, res), f \in [Rids -> Res],
         NEW r \in Created, ~Refused(r), Unlink(f, r), counter' = counter
  PROVE Linked' /\ Pooled'
<1> DEFINE p == res[r].prev
           n == res[r].next
           head == IF first = r THEN n ELSE first
<1>1. /\ Created' = Created /\ Created \subseteq Rids
      /\ NULL \notin Created /\ first \in Created /\ r \in Rids
  <2>1. Created' = Created /\ NULL \notin Created
    BY DEF Created, NULL
  <2>2. Created \subseteq Rids /\ first \in Created
    BY RidsCover DEF LinkInv, TypeOK, Created
  <2>3. QED BY <2>1, <2>2
<1>2. \A q \in Created : /\ res[q].next \in Created \cup {NULL}
                         /\ res[q].prev \in Created \cup {NULL}
  BY <1>1 DEF LinkInv, TypeOK
<1>3. /\ first' = r /\ res'[r].next = head /\ res'[r].prev = NULL
      /\ \A q \in Created \ {r} :
           /\ res'[q].next = IF q = p THEN n ELSE res[q].next
           /\ res'[q].prev = IF q = n THEN p ELSE res[q].prev
  <2>1. \A q \in Rids : f[q].next = res[q].next /\ f[q].prev = res[q].prev /\ f[q] \in Res
    BY DEF SameLinks
  <2>2. \A q \in Rids : res'[q] =
          IF q = r
            THEN [f[r] EXCEPT !.next = head, !.prev = NULL]
            ELSE [f[q] EXCEPT !.next = IF q = p THEN n ELSE f[q].next,
                              !.prev = IF q = n THEN p ELSE f[q].prev]
    BY <1>1, <2>1 DEF Unlink
  <2>3. first' = r
    BY DEF Unlink
  <2>4. res'[r] = [f[r] EXCEPT !.next = head, !.prev = NULL]
    BY <1>1, <2>2
  <2>5. \A q \in Created \ {r} : res'[q] =
          [f[q] EXCEPT !.next = IF q = p THEN n ELSE f[q].next,
                       !.prev = IF q = n THEN p ELSE f[q].prev]
    BY <1>1, <2>2
  <2>6. res'[r].next = head /\ res'[r].prev = NULL
    <3>1. f[r] \in Res
      BY <1>1, <2>1
    <3>2. QED BY <2>4, <3>1 DEF Res
  <2>7. \A q \in Created \ {r} :
          /\ res'[q].next = IF q = p THEN n ELSE res[q].next
          /\ res'[q].prev = IF q = n THEN p ELSE res[q].prev
    <3>1. SUFFICES ASSUME NEW q \in Created \ {r}
                   PROVE /\ res'[q].next = IF q = p THEN n ELSE res[q].next
                         /\ res'[q].prev = IF q = n THEN p ELSE res[q].prev
      OBVIOUS
    <3>2. /\ f[q] \in Res
          /\ f[q].next = res[q].next /\ f[q].prev = res[q].prev
      BY <1>1, <2>1
    <3> HIDE DEF p, n
    <3>3. QED BY <2>5, <3>2 DEF Res
  <2>8. QED BY <2>3, <2>6, <2>7
<1>4. CASE first = r
  <2>1. p = NULL /\ head = n
    BY <1>4 DEF LinkInv, Linked
  <2>2. /\ \A q \in Created : res'[q].next = res[q].next
        /\ \A q \in Created : res'[q].prev # NULL => res'[q].prev = res[q].prev
        /\ first' = first
    BY <1>1, <1>2, <1>3, <1>4, <2>1
  <2>3. Linked'
    BY <1>1, <1>2, <1>3, <1>4, <2>2 DEF LinkInv, Linked
  <2>4. Pooled'
    <3>1. SUFFICES ASSUME NEW S \in SUBSET Rids, first' \in S,
                          \A q \in S : res'[q].next \in S \cup {NULL}
                   PROVE Created' \subseteq S
      BY PooledMeansNext
    <3> DEFINE T == S \cap Created
    <3>2. Follows(T)
      BY <1>1, <1>2, <2>2, <3>1 DEF Follows
    <3>3. QED BY <1>1, <3>2, PooledMeans DEF LinkInv
  <2>5. QED BY <2>3, <2>4
<1>5. CASE first # r
  <2>1. p \in Created /\ res[p].next = r /\ head = first
    BY <1>2, <1>5 DEF Refused, LinkInv, Linked
  <2>2. Linked'
    <3>1. \A q, t \in Created :
            res'[q].next = res'[t].next /\ res'[q].next # NULL => q = t
      BY <1>1, <1>2, <1>3, <2>1 DEF LinkInv, Linked
    <3>2. \A q \in Created : res'[q].next # r
      BY <1>1, <1>2, <1>3, <1>5, <2>1 DEF LinkInv, Linked
    <3>3. \A q \in Created : res'[q].prev # NULL => res'[res'[q].prev].next = q
      BY <1>1, <1>2, <1>3, <1>5, <2>1 DEF LinkInv, Linked
    <3>4. QED BY <1>1, <1>3, <3>1, <3>2, <3>3 DEF Linked
  <2>3. Pooled'
    <3>1. SUFFICES ASSUME NEW S \in SUBSET Rids, first' \in S,
                          \A q \in S : res'[q].next \in S \cup {NULL}
                   PROVE Created' \subseteq S
      BY PooledMeansNext
    <3>2. r \in S /\ first \in S
      BY <1>1, <1>3, <2>1, <3>1
    <3>3. CASE p \in S
      <4> DEFINE T == S \cap Created
      <4>1. Follows(T)
        <5>1. \A q \in T : res[q].next \in T \cup {NULL}
          BY <1>1, <1>2, <1>3, <2>1, <3>1, <3>2, <3>3
        <5>2. QED BY <1>1, <3>2, <5>1 DEF Follows
      <4>2. QED BY <1>1, <4>1, PooledMeans DEF LinkInv
    <3>4. CASE p \notin S
      <4> DEFINE T == (S \cap Created) \ {r}
      <4>1. Follows(T)
        <5>1. \A q \in T : res[q].next \in T \cup {NULL}
          BY <1>1, <1>2, <1>3, <2>1, <3>1, <3>4 DEF LinkInv, Linked
        <5>2. QED BY <1>1, <1>5, <3>2, <5>1 DEF Follows
      <4>2. r \in T
        BY <1>1, <4>1, PooledMeans DEF LinkInv
      <4>3. QED BY <4>2
    <3>5. QED BY <3>3, <3>4
  <2>4. QED BY <2>2, <2>3
<1>6. QED BY <1>4, <1>5

-----------------------------------------------------------------------------
(* What each operation does to the types. *)

LEMMA InitTyped == Init => TypeOK
<1> SUFFICES ASSUME Init PROVE TypeOK
  OBVIOUS
<1>1. /\ counter \in 1 .. MaxRids /\ first \in Created /\ Created = {FB}
      /\ FB \in Rids
  <2>1. MaxRids \in Nat \ {0}
    BY PoolAssumption
  <2>2. QED BY <2>1, RidsCover DEF Init, Created, FB
<1>2. /\ KERNEL \in live /\ live \subseteq Pids
      /\ giving \in BOOLEAN
  BY PoolAssumption DEF Init, Pids
<1>3. res \in [Rids -> Res]
  <2>1. PICK prot \in BOOLEAN :
          res = [r \in Rids |-> IF r = FB THEN Resource(KERNEL, IMAGE, prot, NULL)
                                          ELSE Unborn]
    BY DEF Init
  <2>2. Resource(KERNEL, IMAGE, prot, NULL) \in Res /\ Unborn \in Res
    BY DEF Resource, Unborn, Res, Pids
  <2>3. QED BY <2>1, <2>2
<1>4. QED BY <1>1, <1>2, <1>3 DEF TypeOK, Res

(* The resource table is typed if its entries are. *)
LEMMA TableTyped ==
  ASSUME TypeOK, counter' = counter, first' \in Created,
         res' \in [Rids -> Res], live' = live, giving' = giving
  PROVE TypeOK'
<1>1. Created' = Created
  BY DEF Created
<1>2. QED BY <1>1 DEF TypeOK, Res

LEMMA CreateKTyped ==
  ASSUME TypeOK, NEW p \in Pids, NEW kind \in {RAW, LIBRARY}, NEW prot \in BOOLEAN,
         CreateK(p, kind, prot), live' = live, giving' = giving
  PROVE TypeOK'
<1>1. /\ counter \in 1 .. MaxRids - 1 /\ counter' = counter + 1
      /\ first' = counter
  BY PoolAssumption DEF TypeOK, CreateK
<1>2. /\ counter' \in 1 .. MaxRids /\ Created' = Created \cup {counter}
      /\ first' \in Created'
  <2>1. MaxRids \in Nat
    BY PoolAssumption
  <2>2. QED BY <1>1, <2>1 DEF Created
<1>3. \A q \in Rids : /\ res[q].next \in Created' \cup {NULL}
                      /\ res[q].prev \in Created' \cup {NULL}
  BY <1>2 DEF TypeOK
<1>4. res' \in [Rids -> Res']
  <2>1. res' = [q \in Rids |->
          CASE q = counter -> Resource(p, kind, prot, first)
            [] q = first /\ q # counter -> [res[q] EXCEPT !.prev = counter]
            [] q # counter /\ q # first -> res[q]]
    BY DEF CreateK
  <2>2. Resource(p, kind, prot, first) \in Res'
    BY <1>2 DEF Resource, Res, TypeOK
  <2>3. \A q \in Rids : res[q] \in Res'
    BY <1>2 DEF TypeOK, Res
  <2>4. \A q \in Rids : [res[q] EXCEPT !.prev = counter] \in Res'
    BY <1>1, <1>2, <2>3 DEF Res
  <2>5. QED BY <2>1, <2>2, <2>3, <2>4
<1>5. QED BY <1>2, <1>4 DEF TypeOK, Res, CreateK

(* Release keeps the types and the list. *)
LEMMA ReleaseKeeps ==
  ASSUME LinkInv, NEW r \in Listed, Release(r),
         counter' = counter, live' = live, giving' = giving
  PROVE LinkInv'
<1> DEFINE g == [res EXCEPT ![r].owner = KERNEL, ![r].used = FALSE]
<1>1. r \in Created /\ r \in Rids /\ Created' = Created
  BY ListedCreated DEF LinkInv, Created, Listed
<1>2. ~Refused(r) /\ Unlink(g, r)
  BY DEF Release
<1>3. g \in [Rids -> Res] /\ SameLinks(g, res)
  <2>1. res \in [Rids -> Res]
    BY DEF LinkInv, TypeOK, Res
  <2>2. QED BY <1>1, <2>1 DEF Res, Pids, SameLinks
<1> HIDE DEF g
<1>4. first' = r
  BY <1>2 DEF Unlink
<1>5. res' \in [Rids -> Res]
  <2> DEFINE head == IF first = r THEN g[r].next ELSE first
  <2>1. head \in Created \cup {NULL}
    BY <1>1, <1>3 DEF LinkInv, TypeOK, Res
  <2> HIDE DEF head
  <2>2. \A q \in Rids : g[q] \in Res
    BY <1>3
  <2>3. [g[r] EXCEPT !.next = head, !.prev = NULL] \in Res
    BY <1>1, <2>1, <2>2 DEF Res
  <2>4. g[r].next \in Created \cup {NULL} /\ g[r].prev \in Created \cup {NULL}
    BY <1>1, <2>2 DEF Res
  <2>5. \A q \in Rids :
          [g[q] EXCEPT !.next = IF q = g[r].prev THEN g[r].next ELSE g[q].next,
                       !.prev = IF q = g[r].next THEN g[r].prev ELSE g[q].prev] \in Res
    BY <2>2, <2>4 DEF Res
  <2>6. res' = [q \in Rids |->
          IF q = r
            THEN [g[r] EXCEPT !.next = head, !.prev = NULL]
            ELSE [g[q] EXCEPT
                    !.next = IF q = g[r].prev THEN g[r].next ELSE g[q].next,
                    !.prev = IF q = g[r].next THEN g[r].prev ELSE g[q].prev]]
    BY <1>2 DEF Unlink, head
  <2>7. QED BY <2>3, <2>5, <2>6
<1>6. TypeOK'
  BY <1>1, <1>4, <1>5, TableTyped DEF LinkInv
<1>7. QED BY <1>1, <1>2, <1>3, <1>6, UnlinkLinks DEF LinkInv

(* A step that changes no more of the table than owners, marks and the     *)
(* like of one resource.                                                   *)
LEMMA MarkKeeps ==
  ASSUME LinkInv, counter' = counter, first' = first, live' = live,
         giving' \in BOOLEAN,
         res' \in [Rids -> Res], SameLinks(res', res)
  PROVE LinkInv'
<1>1. Created' = Created
  BY DEF Created
<1>2. TypeOK'
  BY <1>1 DEF LinkInv, TypeOK, Res
<1>3. QED BY <1>2, LinksKept DEF LinkInv

(* The forms of such changes. *)
LEMMA MarkNothing == ASSUME TypeOK PROVE res \in [Rids -> Res] /\ SameLinks(res, res)
BY DEF TypeOK, Res, SameLinks

LEMMA MarkOwner ==
  ASSUME TypeOK, NEW r \in Rids, NEW owner \in Pids
  PROVE [res EXCEPT ![r].owner = owner] \in [Rids -> Res] /\ SameLinks([res EXCEPT ![r].owner = owner], res)
<1>1. res \in [Rids -> Res]
  BY DEF TypeOK, Res
<1>2. QED BY <1>1 DEF Res, SameLinks

LEMMA MarkGiven ==
  ASSUME TypeOK, NEW r \in Rids, NEW owner \in Pids
  PROVE [res EXCEPT ![r].owner = owner, ![r].used = TRUE] \in [Rids -> Res] /\ SameLinks([res EXCEPT ![r].owner = owner, ![r].used = TRUE], res)
<1>1. res \in [Rids -> Res]
  BY DEF TypeOK, Res
<1>2. QED BY <1>1, ZenonT(40) DEF Res, SameLinks

LEMMA MarkProt ==
  ASSUME TypeOK, NEW r \in Rids, NEW prot \in BOOLEAN
  PROVE [res EXCEPT ![r].prot = prot] \in [Rids -> Res] /\ SameLinks([res EXCEPT ![r].prot = prot], res)
<1>1. res \in [Rids -> Res]
  BY DEF TypeOK, Res
<1>2. QED BY <1>1 DEF Res, SameLinks

LEMMA NextKeeps == LinkInv /\ [Next]_vars => LinkInv'
<1> SUFFICES ASSUME LinkInv, [Next]_vars PROVE LinkInv'
  OBVIOUS
<1>0. TypeOK /\ Created \subseteq Rids /\ Programs \subseteq Pids
  BY RidsCover DEF LinkInv, TypeOK, Created, Pids
<1>1. CASE UNCHANGED vars
  BY <1>0, <1>1, MarkNothing, MarkKeeps DEF vars, TypeOK
<1>2. ASSUME NEW p \in Programs, NEW prot \in BOOLEAN, NEW kind \in {RAW, LIBRARY},
             CreateK(p, kind, prot), UNCHANGED <<live, giving>>
      PROVE LinkInv'
  <2>1. TypeOK'
    BY <1>0, <1>2, CreateKTyped
  <2>2. QED BY <1>0, <1>2, <2>1, CreateKLinks DEF LinkInv
<1>3. ASSUME NEW p \in Programs, Rnew(p) PROVE LinkInv'
  BY <1>2, <1>3 DEF Rnew
<1>4. ASSUME NEW p \in Programs, Dload(p) PROVE LinkInv'
  BY <1>2, <1>4 DEF Dload
<1>5. ASSUME NEW p \in Programs, NEW r \in Rids, Rreq(p, r) PROVE LinkInv'
  <2>1. res' \in [Rids -> Res] /\ SameLinks(res', res)
    BY <1>0, <1>5, MarkOwner DEF Rreq
  <2>2. QED BY <1>0, <1>5, <2>1, MarkKeeps DEF Rreq, TypeOK
<1>6. ASSUME NEW p \in Programs, NEW r \in Rids, NEW prot \in BOOLEAN, Rprot(p, r, prot)
      PROVE LinkInv'
  <2>1. res' \in [Rids -> Res] /\ SameLinks(res', res)
    BY <1>0, <1>6, MarkProt DEF Rprot
  <2>2. QED BY <1>0, <1>6, <2>1, MarkKeeps DEF Rprot, TypeOK
<1>7. ASSUME NEW p \in Programs, NEW r \in Rids, NEW dest \in Pids, Rgive(p, r, dest)
      PROVE LinkInv'
  <2>1. res' \in [Rids -> Res] /\ SameLinks(res', res)
    BY <1>0, <1>7, MarkGiven DEF Rgive
  <2>2. QED BY <1>0, <1>7, <2>1, MarkKeeps DEF Rgive, TypeOK
<1>8. ASSUME NEW p \in Programs, NEW r \in Rids, Rdel(p, r) PROVE LinkInv'
  BY <1>8, ReleaseKeeps DEF Rdel, Finds
<1>9. ASSUME NEW p \in Programs, NEW r \in Rids, Dunload(p, r) PROVE LinkInv'
  BY <1>9, ReleaseKeeps DEF Dunload, Finds
<1>10. CASE KernelTests
  <2>1. res' \in [Rids -> Res] /\ SameLinks(res', res)
    BY <1>0, <1>10, MarkNothing DEF KernelTests
  <2>2. QED BY <1>0, <1>10, <2>1, MarkKeeps DEF KernelTests, TypeOK
<1>11. CASE KernelGives
  <2>1. WM \in Pids
    BY PoolAssumption DEF Pids
  <2>2. res' \in [Rids -> Res] /\ SameLinks(res', res)
    BY <1>0, <1>11, <2>1, MarkGiven, RidsCover DEF KernelGives
  <2>3. QED BY <1>0, <1>11, <2>2, MarkKeeps DEF KernelGives, TypeOK
<1>12. ASSUME NEW p \in Programs, Begin(p) \/ End(p) PROVE LinkInv'
  <2>1. KERNEL \in live' /\ live' \subseteq Pids
    BY <1>0, <1>12, PoolAssumption DEF TypeOK, Begin, End, KERNEL
  <2>2. /\ UNCHANGED <<counter, first, res, giving>> /\ Created' = Created
    BY <1>12 DEF Begin, End, Created
  <2>3. TypeOK'
    BY <1>0, <2>1, <2>2 DEF TypeOK
  <2>4. SameLinks(res', res)
    BY <2>2 DEF SameLinks
  <2>5. QED BY <2>2, <2>3, <2>4, LinksKept DEF LinkInv
<1>13. QED
  BY <1>1, <1>3, <1>4, <1>5, <1>6, <1>7, <1>8, <1>9, <1>10, <1>11, <1>12 DEF Next

LEMMA InitLinked == Init => LinkInv
<1> SUFFICES ASSUME Init PROVE LinkInv
  OBVIOUS
<1>1. TypeOK
  BY InitTyped
<1>2. Created = {FB} /\ first = FB /\ res[FB].next = NULL /\ res[FB].prev = NULL
  <2>1. PICK prot \in BOOLEAN :
          res = [r \in Rids |-> IF r = FB THEN Resource(KERNEL, IMAGE, prot, NULL)
                                          ELSE Unborn]
    BY DEF Init
  <2>2. res[FB] = Resource(KERNEL, IMAGE, prot, NULL)
    BY <2>1, RidsCover
  <2>3. QED BY <2>2 DEF Init, Created, Resource, FB
<1>3. Linked
  BY <1>2 DEF Linked, NULL, FB
<1>4. Pooled
  <2>1. \A S \in SUBSET Rids : Follows(S) => Created \subseteq S
    BY <1>2 DEF Follows
  <2>2. QED BY <1>1, <2>1, PooledMeans
<1>5. QED BY <1>1, <1>3, <1>4 DEF LinkInv

LEMMA LinkInvHolds == Spec => []LinkInv
<1>1. QED BY InitLinked, NextKeeps, PTL DEF Spec

(* Every variable keeps its type, for any number of programs and resources *)
(* (resource/main.c, isr/system.c 317-459).                                *)
THEOREM PoolTyped == Spec => []TypeOK
<1>1. LinkInv => TypeOK
  BY DEF LinkInv
<1>2. QED BY LinkInvHolds, <1>1, PTL

(* "Resources MUST ALWAYS be at least in the pool" (resource/main.c 412):  *)
(* whatever is created, released and released again, the search by rid     *)
(* reaches every resource ever created.                                    *)
THEOREM NothingLost == Spec => []Pooled
<1>1. LinkInv => Pooled
  BY DEF LinkInv
<1>2. QED BY LinkInvHolds, <1>1, PTL

(* ResourceUnlinkK leaves back pointers out, but never wrong (resource/    *)
(* main.c 470-487): the list stays a list.                                 *)
THEOREM ListStaysList == Spec => []Linked
<1>1. LinkInv => Linked
  BY DEF LinkInv
<1>2. QED BY LinkInvHolds, <1>1, PTL

-----------------------------------------------------------------------------
(* A protected resource other than the framebuffer leaves its owner only   *)
(* by being deleted: RREQ and RGIVE look at Protected (isr/system.c        *)
(* 317-382), and the kernel's loop gives only the framebuffer away.        *)
THEOREM ProtectedStay == Spec => ProtectedHeld
<1> DEFINE Held == \A r \in Created \ {FB} :
                     res[r].prot /\ res'[r].owner # res[r].owner
                       => res'[r].owner = KERNEL /\ ~res'[r].used
<1>1. ASSUME LinkInv, [Next]_vars PROVE Held
  <2>1. SUFFICES ASSUME NEW q \in Created \ {FB}, res[q].prot,
                        res'[q].owner # res[q].owner
                 PROVE res'[q].owner = KERNEL /\ ~res'[q].used
    OBVIOUS
  <2>2. /\ q \in Rids /\ q # counter /\ q # FB /\ res \in [Rids -> Res]
        /\ \A t \in Rids : res[t] \in Res
    BY <1>1, <2>1, RidsCover DEF LinkInv, TypeOK, Created, Res
  <2>3. ASSUME NEW p, NEW kind, NEW prot, CreateK(p, kind, prot) PROVE FALSE
    <3>1. res'[q] = CASE q = counter -> Resource(p, kind, prot, first)
                      [] q = first /\ q # counter -> [res[q] EXCEPT !.prev = counter]
                      [] q # counter /\ q # first -> res[q]
      BY <2>2, <2>3 DEF CreateK
    <3>2. res'[q].owner = res[q].owner
      BY <2>2, <3>1 DEF Res
    <3>3. QED BY <2>1, <3>2
  <2>4. ASSUME NEW r \in Rids, Release(r)
        PROVE res'[q].owner = KERNEL /\ ~res'[q].used
    <3> DEFINE g == [res EXCEPT ![r].owner = KERNEL, ![r].used = FALSE]
    <3>1. Unlink(g, r)
      BY <2>4 DEF Release
    <3>2. g[q] \in Res
      <4>1. CASE q # r
        BY <2>2, <4>1
      <4>2. CASE q = r
        <5>1. g[q] = [res[q] EXCEPT !.owner = KERNEL, !.used = FALSE]
          BY <2>2, <4>2
        <5> HIDE DEF g
        <5>2. QED BY <2>2, <5>1 DEF Res, Pids
      <4>3. QED BY <4>1, <4>2
    <3>3. g[q].owner = (IF q = r THEN KERNEL ELSE res[q].owner) /\ (q = r => ~g[q].used)
      BY <2>2, <2>4 DEF Res
    <3> HIDE DEF g
    <3>4. res'[q].owner = g[q].owner /\ res'[q].used = g[q].used
      <4>1. \/ \E head : res'[q] = [g[q] EXCEPT !.next = head, !.prev = NULL]
            \/ \E n, b : res'[q] = [g[q] EXCEPT !.next = n, !.prev = b]
        BY <2>2, <3>1 DEF Unlink
      <4>2. QED BY <3>2, <4>1 DEF Res
    <3>5. QED BY <2>1, <3>3, <3>4
  <2>5. CASE UNCHANGED vars
    BY <2>1, <2>5 DEF vars
  <2>6. ASSUME NEW p \in Programs, Rnew(p) \/ Dload(p) PROVE FALSE
    BY <2>1, <2>3, <2>6 DEF Rnew, Dload
  <2>7. ASSUME NEW p \in Programs, NEW r \in Rids, Rreq(p, r) PROVE FALSE
    BY <2>1, <2>2, <2>7 DEF Rreq
  <2>8. ASSUME NEW p \in Programs, NEW r \in Rids, NEW prot \in BOOLEAN, Rprot(p, r, prot)
        PROVE FALSE
    <3>1. [res EXCEPT ![r].prot = prot][q].owner = res[q].owner
      BY <2>2 DEF Res
    <3>2. QED BY <2>1, <2>8, <3>1 DEF Rprot
  <2>9. ASSUME NEW p \in Programs, NEW r \in Rids, NEW dest \in Pids, Rgive(p, r, dest)
        PROVE FALSE
    BY <2>1, <2>2, <2>9 DEF Rgive
  <2>10. ASSUME NEW p \in Programs, NEW r \in Rids, Rdel(p, r) \/ Dunload(p, r)
         PROVE res'[q].owner = KERNEL /\ ~res'[q].used
    BY <2>4, <2>10 DEF Rdel, Dunload
  <2>11. CASE KernelTests \/ KernelGives
    BY <2>1, <2>2, <2>11 DEF KernelTests, KernelGives
  <2>12. ASSUME NEW p \in Programs, Begin(p) \/ End(p) PROVE FALSE
    BY <2>1, <2>12 DEF Begin, End
  <2>13. QED
    BY <1>1, <2>5, <2>6, <2>7, <2>8, <2>9, <2>10, <2>11, <2>12 DEF Next
<1>2. LinkInv /\ [Next]_vars => [Held]_vars
  BY <1>1
<1>3. Spec => [][Held]_vars
  BY LinkInvHolds, <1>2, PTL DEF Spec
<1>4. QED BY <1>3 DEF ProtectedHeld
=============================================================================
