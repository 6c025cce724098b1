-------------------------------- MODULE Pool --------------------------------
(***************************************************************************)
(* The resource pool of DekOS (resource/main.c): named blocks of memory    *)
(* with an owner, on one doubly linked list, and the calls on them (RREQ,  *)
(* RNEW, RDEL, RGIVE, RPROT, DLOAD and DUNLOAD of isr/system.c).  A call   *)
(* runs with interrupts off; the kernel's own handover of the framebuffer  *)
(* (arch/x86/init.c) runs with interrupts on.                              *)
(*                                                                         *)
(* Nothing in the kernel as it is built gives a resource children, and     *)
(* ResourceCleanupK is never called: the list is flat and only grows.  The *)
(* contents of the blocks are left out.                                    *)
(***************************************************************************)
EXTENDS Integers

CONSTANTS
  Programs,  \* pids of programs
  WM,        \* the window manager's
  MaxRids,   \* bound: resources ever created
  Kinds      \* bound: kinds of resources created

KERNEL == 0
Pids   == {KERNEL} \cup Programs
Rids   == 0 .. MaxRids - 1
FB     == 0                \* the framebuffer's resource, the first created
NULL   == -1
RAW    == "raw"
LIBRARY == "library"      \* RESOURCE_TYPE_MODULE
IMAGE  == "image"          \* RESOURCE_TYPE_BITMAP_IMAGE

ASSUME PoolAssumption ==
  /\ Programs \subseteq Nat \ {0} /\ WM \in Programs
  /\ MaxRids \in Nat \ {0}

VARIABLES
  live,     \* pids that schedValidatePid accepts
  counter,  \* the next rid
  first,    \* grResources.FirstChild
  res,      \* the resources, by rid
  giving    \* the kernel is past ResourceHandoverK's tests

vars == <<live, counter, first, res, giving>>

Created == 0 .. counter - 1

Resource(owner, kind, prot, after) ==
  [next |-> after, prev |-> NULL, owner |-> owner, used |-> TRUE,
   prot |-> prot, kind |-> kind]

Unborn == Resource(KERNEL, RAW, FALSE, NULL)

(* Protected is never initialised: it is whatever malloc's memory held.    *)
Init ==
  /\ live = {KERNEL, WM}
  /\ counter = 1
  /\ first = FB
  /\ \E prot \in BOOLEAN :
       res = [r \in Rids |-> IF r = FB THEN Resource(KERNEL, IMAGE, prot, NULL)
                                       ELSE Unborn]
  /\ giving = FALSE

-----------------------------------------------------------------------------
(* ResourceGetFromRID: the search follows NextSibling from the first and   *)
(* reaches the least set that holds the first and, with a resource, the    *)
(* next one.                                                               *)

Follows(S) == first \in S /\ \A r \in S : res[r].next \in S \cup {NULL}

Listed == {r \in Rids : \A S \in SUBSET Rids : Follows(S) => r \in S}

Finds(p, r, override) == r \in Listed /\ (override \/ res[r].owner = p)

(* A call that finds nothing, or refuses, answers so and changes nothing:  *)
(* the actions below are the calls that are accepted.                      *)

(* ResourceCreateK, at the front of the list. *)
CreateK(p, kind, prot) ==
  LET r == counter IN
  /\ kind \in Kinds /\ counter < MaxRids
  /\ counter' = counter + 1
  /\ first' = r
  /\ res' = [q \in Rids |->
       CASE q = r                -> Resource(p, kind, prot, first)
         [] q = first /\ q # r   -> [res[q] EXCEPT !.prev = r]
         [] q # r /\ q # first   -> res[q]]

(* RNEW. *)
Rnew(p) ==
  /\ p \in live
  /\ \E prot \in BOOLEAN : CreateK(p, RAW, prot)
  /\ UNCHANGED <<live, giving>>

(* DLOAD of a file that loads: the module takes the place of the block     *)
(* that ResourceCreateK mapped.                                            *)
Dload(p) ==
  /\ p \in live
  /\ CreateK(p, LIBRARY, TRUE)
  /\ UNCHANGED <<live, giving>>

(* Mutant of Rreq: Protected is not looked at. *)
RreqAnyway(p, r) ==
  /\ p \in live
  /\ Finds(p, r, TRUE)
  /\ res' = [res EXCEPT ![r].owner = p]
  /\ UNCHANGED <<live, counter, first, giving>>

(* RREQ: whoever asks becomes the owner. *)
Rreq(p, r) ==
  /\ p \in live
  /\ Finds(p, r, TRUE)
  /\ ~res[r].prot
  /\ res' = [res EXCEPT ![r].owner = p]
  /\ UNCHANGED <<live, counter, first, giving>>

(* RPROT. *)
Rprot(p, r, prot) ==
  /\ p \in live
  /\ Finds(p, r, FALSE)
  /\ res' = [res EXCEPT ![r].prot = prot]
  /\ UNCHANGED <<live, counter, first, giving>>

(* RGIVE.  It answers 0 to the owner whatever ResourceHandoverK says, also *)
(* where this action is not possible because the receiver is gone.         *)
Rgive(p, r, dest) ==
  /\ p \in live
  /\ Finds(p, r, FALSE)
  /\ ~res[r].prot
  /\ dest # p /\ dest \in live
  /\ res' = [res EXCEPT ![r].owner = dest, ![r].used = TRUE]
  /\ UNCHANGED <<live, counter, first, giving>>

(* Mutant of Unlink: the resource does not go back into the list.          *)
UnlinkForGood(f, r) ==
  /\ first' = IF first = r THEN f[r].next ELSE first
  /\ res' = [q \in Rids |->
       IF q = r
         THEN [f[r] EXCEPT !.next = NULL, !.prev = NULL]
         ELSE [f[q] EXCEPT !.next = IF q = f[r].prev THEN f[r].next ELSE @,
                           !.prev = IF q = f[r].next THEN f[r].prev ELSE @]]

(* Mutant of Unlink: the sibling behind keeps pointing at the one removed. *)
UnlinkForward(f, r) ==
  LET head == IF first = r THEN f[r].next ELSE first IN
  /\ first' = r
  /\ res' = [q \in Rids |->
       IF q = r
         THEN [f[r] EXCEPT !.next = head, !.prev = NULL]
         ELSE [f[q] EXCEPT !.next = IF q = f[r].prev THEN f[r].next ELSE @]]

(* ResourceUnlinkK takes a resource out of the list and puts it back at    *)
(* the front.  The old front's PreviousSibling stays as it is.             *)
Unlink(f, r) ==
  LET head == IF first = r THEN f[r].next ELSE first IN
  /\ first' = r
  /\ res' = [q \in Rids |->
       IF q = r
         THEN [f[r] EXCEPT !.next = head, !.prev = NULL]
         ELSE [f[q] EXCEPT !.next = IF q = f[r].prev THEN f[r].next ELSE @,
                           !.prev = IF q = f[r].next THEN f[r].prev ELSE @]]

(* What is refused before it: the framebuffer, which lies outside the      *)
(* heap, and a resource that is not the first and has none before it.      *)
Refused(r) == res[r].kind = IMAGE \/ (first # r /\ res[r].prev = NULL)

(* Mutant of Release: the owner is cleared, not set to the kernel. *)
ReleaseToNobody(r) ==
  ~Refused(r) /\ Unlink([res EXCEPT ![r].owner = NULL, ![r].used = FALSE], r)

(* ResourceReleaseK gives it to the kernel, unused. *)
Release(r) ==
  ~Refused(r) /\ Unlink([res EXCEPT ![r].owner = KERNEL, ![r].used = FALSE], r)

(* RDEL. *)
Rdel(p, r) ==
  /\ p \in live
  /\ Finds(p, r, FALSE)
  /\ Release(r)
  /\ UNCHANGED <<live, counter, giving>>

(* DUNLOAD.  It has freed the module by then, and has so as well when the  *)
(* release is refused.                                                     *)
Dunload(p, r) ==
  /\ p \in live
  /\ Finds(p, r, FALSE) /\ res[r].kind = LIBRARY
  /\ Release(r)
  /\ UNCHANGED <<live, counter, giving>>

-----------------------------------------------------------------------------
(* Mutant of KernelTests: only a framebuffer marked unused is handed over. *)
KernelTestsUnused ==
  /\ ~giving
  /\ res[FB].owner = KERNEL /\ ~res[FB].used /\ WM \in live
  /\ giving' = TRUE
  /\ UNCHANGED <<live, counter, first, res>>

(* The kernel's loop hands the framebuffer to the window manager's pid     *)
(* whenever it finds it its own: the tests, of the loop and of             *)
(* ResourceHandoverK, and the change of owner, with interrupts on.         *)
KernelTests ==
  /\ ~giving
  /\ res[FB].owner = KERNEL /\ WM \in live
  /\ giving' = TRUE
  /\ UNCHANGED <<live, counter, first, res>>

KernelGives ==
  /\ giving
  /\ giving' = FALSE
  /\ res' = [res EXCEPT ![FB].owner = WM, ![FB].used = TRUE]
  /\ UNCHANGED <<live, counter, first>>

(* A process begins in a slot, or ends.  ResourceCleanupK is never called: *)
(* what a process owned stays with its slot.                               *)
Begin(p) ==
  /\ p \notin live
  /\ live' = live \cup {p}
  /\ UNCHANGED <<counter, first, res, giving>>

End(p) ==
  /\ p \in live
  /\ live' = live \ {p}
  /\ UNCHANGED <<counter, first, res, giving>>

Next ==
  \/ \E p \in Programs :
       \/ Rnew(p) \/ Dload(p) \/ Begin(p) \/ End(p)
       \/ \E r \in Rids :
            \/ Rreq(p, r) \/ Rdel(p, r) \/ Dunload(p, r)
            \/ \E prot \in BOOLEAN : Rprot(p, r, prot)
            \/ \E dest \in Pids : Rgive(p, r, dest)
  \/ KernelTests \/ KernelGives

(* The kernel's process gets the CPU again and again.                      *)
Fairness == WF_vars(KernelTests) /\ WF_vars(KernelGives)

Spec == Init /\ [][Next]_vars /\ Fairness

-----------------------------------------------------------------------------
(* Properties.                                                             *)

(* Every variable has its type. *)
TypeOK ==
  /\ KERNEL \in live /\ live \subseteq Pids
  /\ counter \in 1 .. MaxRids
  /\ first \in Created
  /\ res \in [Rids -> [next : Created \cup {NULL}, prev : Created \cup {NULL},
                       owner : Pids, used : BOOLEAN, prot : BOOLEAN,
                       kind : {RAW, LIBRARY, IMAGE}]]
  /\ giving \in BOOLEAN

(* "Resources MUST ALWAYS be at least in the pool": following NextSibling  *)
(* from the first reaches every resource ever created, so a rid always     *)
(* names its resource, although back pointers go missing.                  *)
Pooled == Listed = Created

(* No resource follows two others, none precedes the first, and a back     *)
(* pointer is right or absent: a wrong one would let the next release cut  *)
(* other resources off.                                                    *)
Linked ==
  /\ \A q, r \in Created : res[q].next = res[r].next /\ res[q].next # NULL => q = r
  /\ \A q \in Created : res[q].next # first
  /\ res[first].prev = NULL
  /\ \A r \in Created : res[r].prev # NULL => res[res[r].prev].next = r

(* A protected resource leaves its owner only by being deleted.            *)
(* The framebuffer aside, which the kernel's loop gives away.              *)
ProtectedHeld ==
  [][\A r \in Created \ {FB} :
       res[r].prot /\ res'[r].owner # res[r].owner
         => res'[r].owner = KERNEL /\ ~res'[r].used]_vars

(* The framebuffer does not stay with the kernel while there is a window   *)
(* manager.                                                                *)
DisplayServed ==
  (res[FB].owner = KERNEL /\ WM \in live)
    ~> (res[FB].owner # KERNEL \/ WM \notin live)
=============================================================================
