--------------------------- MODULE AMXCalls_proofs ---------------------------
(***************************************************************************)
(* AMXRuntime implements ScriptCalls: what the helpers do with two stacks  *)
(* and a handful of registers is, for scripts, natives and the server, the *)
(* nesting of calls that ScriptCalls describes.                            *)
(* Also: every activation of Exec keeps its reset_* words.                 *)
(***************************************************************************)
EXTENDS AMXStack_proofs, DataLemmas

-----------------------------------------------------------------------------
(* The return addresses that the stack holds, as a function of the stack.   *)

FrmCells(m) == {a \in DOMAIN m : m[a].kind = "frm"}

\* One more step outwards from the FRM cell a, where R knows the rest.
Outwards(m, R, a) ==
  IF m[a + 1].val = CallReturn THEN <<>> ELSE <<m[a + 1].val>> \o R[m[a].val]

SitesOf(m) == CHOOSE R : R = [a \in FrmCells(m) |-> Outwards(m, R, a)]

LEMMA SitesOfMem == ReturnSites = SitesOf(mem)
BY DEF ReturnSites, SitesOf, FrmCells, Outwards

\* Frames lead upwards, within the stack.
Linked(m) ==
  /\ DOMAIN m = Cell
  /\ \A a \in FrmCells(m) :
       /\ a \in Nat /\ a < STP /\ m[a + 1].val \in Sites \cup {CallReturn}
       /\ m[a + 1].val # CallReturn => m[a].val \in FrmCells(m) /\ a < m[a].val

LEMMA LayoutLinked ==
  ASSUME NEW m, DOMAIN m = Cell, Layout(m)
  PROVE  Linked(m)
<1> STP \in Nat /\ HLW \in Nat
  BY LayoutAssumption
<1> SUFFICES ASSUME NEW a \in FrmCells(m)
             PROVE  /\ a \in Nat /\ a < STP /\ m[a + 1].val \in Sites \cup {CallReturn}
                    /\ m[a + 1].val # CallReturn => m[a].val \in FrmCells(m) /\ a < m[a].val
  BY DEF Linked
<1>1. a \in Cell /\ m[a].kind = "frm" /\ a \in Nat /\ a < STP
  BY DEF FrmCells, Cell
<1>2. LinkOK(m, a)
  BY <1>1 DEF Layout
<1>3. m[a + 1].val # CallReturn => m[a].val \in Cell /\ m[m[a].val].kind = "frm" /\ a < m[a].val
  BY <1>1, <1>2 DEF LinkOK, Cell
<1> QED
  BY <1>1, <1>2, <1>3 DEF LinkOK, FrmCells

\* What is proved of the frames from the top of the stack downwards holds of all.
LEMMA Downwards ==
  ASSUME NEW m, Linked(m), NEW G,
         \A a \in FrmCells(m) :
           (m[a + 1].val # CallReturn => m[a].val \in G) => a \in G
  PROVE  FrmCells(m) \subseteq G
<1> DEFINE T == {n \in Nat : \A a \in FrmCells(m) : a + n >= STP => a \in G}
<1>0. STP \in Nat
  BY LayoutAssumption
<1>1. 0 \in T
  BY <1>0 DEF Linked
<1>2. ASSUME NEW n \in T PROVE n + 1 \in T
  <2> SUFFICES ASSUME NEW a \in FrmCells(m), a + (n + 1) >= STP PROVE a \in G
    OBVIOUS
  <2>1. a \in Nat /\ (m[a + 1].val # CallReturn => m[a].val \in FrmCells(m) /\ a < m[a].val)
    BY DEF Linked
  <2>2. ASSUME m[a + 1].val # CallReturn PROVE m[a].val \in G
    <3>1. m[a].val \in FrmCells(m) /\ a < m[a].val /\ m[a].val \in Nat
      BY <2>1, <2>2 DEF Linked
    <3>2. m[a].val + n >= STP
      BY <1>0, <2>1, <3>1
    <3> QED
      BY <3>1, <3>2
  <2> QED
    BY <2>2
<1>3. T = Nat
  <2>1. T \in SUBSET Nat
    OBVIOUS
  <2> HIDE DEF T
  <2> QED
    BY <1>1, <1>2, <2>1, InductiveSet
<1>4. STP \in T
  BY <1>0, <1>3
<1> QED
  BY <1>0, <1>4 DEF Linked

\* The recursion of ReturnSites is well founded.
LEMMA SitesExist ==
  ASSUME NEW m, Linked(m)
  PROVE  \A a \in FrmCells(m) : SitesOf(m)[a] = Outwards(m, SitesOf(m), a)
<1> DEFINE Good(R, n) == \A a \in FrmCells(m) : a + n >= STP => R[a] = Outwards(m, R, a)
           T == {n \in Nat : \E R : R = [a \in FrmCells(m) |-> R[a]] /\ Good(R, n)}
<1>0. STP \in Nat
  BY LayoutAssumption
<1>1. 0 \in T
  <2> DEFINE R == [a \in FrmCells(m) |-> <<>>]
  <2>1. R = [a \in FrmCells(m) |-> R[a]]
    OBVIOUS
  <2>2. Good(R, 0)
    BY <1>0 DEF Linked
  <2> QED
    BY <2>1, <2>2
<1>2. ASSUME NEW n \in T PROVE n + 1 \in T
  <2>1. PICK R : R = [a \in FrmCells(m) |-> R[a]] /\ Good(R, n)
    OBVIOUS
  <2> DEFINE Q == [a \in FrmCells(m) |-> Outwards(m, R, a)]
  <2>2. ASSUME NEW a \in FrmCells(m), a + (n + 1) >= STP PROVE Q[a] = Outwards(m, Q, a)
    <3>1. a \in Nat /\ (m[a + 1].val # CallReturn => m[a].val \in FrmCells(m) /\ a < m[a].val)
      BY DEF Linked
    <3>2. m[a + 1].val # CallReturn => Q[m[a].val] = R[m[a].val]
      <4> SUFFICES ASSUME m[a + 1].val # CallReturn PROVE Q[m[a].val] = R[m[a].val]
        OBVIOUS
      <4>1. PICK b \in FrmCells(m) : b = m[a].val
        BY <3>1
      <4>2. b \in Nat /\ b + n >= STP
        BY <1>0, <2>2, <3>1, <4>1 DEF Linked
      <4>3. R[b] = Outwards(m, R, b)
        BY <2>1, <4>2
      <4> QED
        BY <4>1, <4>3
    <3>3. Q[a] = Outwards(m, R, a)
      OBVIOUS
    <3> HIDE DEF Q
    <3> QED
      BY <3>2, <3>3 DEF Outwards
  <2>3. Good(Q, n + 1)
    BY <2>2
  <2>4. Q = [a \in FrmCells(m) |-> Q[a]]
    OBVIOUS
  <2> HIDE DEF Q, Good
  <2> QED
    BY <2>3, <2>4
<1>3. STP \in T
  <2>1. T \in SUBSET Nat
    OBVIOUS
  <2> HIDE DEF T
  <2> QED
    BY <1>0, <1>1, <1>2, <2>1, InductiveSet
<1>4. PICK R : R = [a \in FrmCells(m) |-> R[a]] /\ Good(R, STP)
  BY <1>3
<1>5. R = [a \in FrmCells(m) |-> Outwards(m, R, a)]
  <2>1. \A a \in FrmCells(m) : a \in Nat
    BY DEF Linked
  <2>2. \A a \in FrmCells(m) : R[a] = Outwards(m, R, a)
    BY <1>0, <1>4, <2>1
  <2>3. [a \in FrmCells(m) |-> R[a]] = [a \in FrmCells(m) |-> Outwards(m, R, a)]
    BY <2>2
  <2> QED
    BY <1>4, <2>3
<1>6. SitesOf(m) = [a \in FrmCells(m) |-> Outwards(m, SitesOf(m), a)]
  BY <1>5 DEF SitesOf
<1> QED
  BY <1>6

LEMMA SitesTyped ==
  ASSUME NEW m, Linked(m)
  PROVE  \A a \in FrmCells(m) : SitesOf(m)[a] \in Seq(Sites)
<1> DEFINE G == {a \in FrmCells(m) : SitesOf(m)[a] \in Seq(Sites)}
<1>1. ASSUME NEW a \in FrmCells(m), m[a + 1].val # CallReturn => m[a].val \in G
      PROVE  a \in G
  <2>1. SitesOf(m)[a] = Outwards(m, SitesOf(m), a)
    BY SitesExist
  <2>2. CASE m[a + 1].val = CallReturn
    <3>1. SitesOf(m)[a] = <<>>
      BY <2>1, <2>2 DEF Outwards
    <3>2. <<>> \in Seq(Sites)
      OBVIOUS
    <3> QED
      BY <3>1, <3>2
  <2>3. CASE m[a + 1].val # CallReturn
    <3>1. m[a + 1].val \in Sites
      BY <2>3 DEF Linked
    <3>2. SitesOf(m)[m[a].val] \in Seq(Sites)
      BY <1>1, <2>3
    <3>3. <<m[a + 1].val>> \in Seq(Sites)
      BY <3>1
    <3>4. Outwards(m, SitesOf(m), a) \in Seq(Sites)
      BY <2>3, <3>2, <3>3 DEF Outwards
    <3> QED
      BY <2>1, <3>4
  <2> QED
    BY <2>2, <2>3
<1> HIDE DEF G
<1>2. FrmCells(m) \subseteq G
  BY <1>1, Downwards
<1> QED
  BY <1>2 DEF G

\* What happens below t does not change the calls above it.
LEMMA SitesKept ==
  ASSUME NEW m, NEW n, Linked(m), Linked(n), NEW t \in Int,
         \A a \in Cell : a >= t => n[a] = m[a],
         \A a \in FrmCells(m) : a + 1 \in Cell
  PROVE  \A a \in FrmCells(m) : a >= t => a \in FrmCells(n) /\ SitesOf(n)[a] = SitesOf(m)[a]
<1> DEFINE G == {a \in FrmCells(m) : a >= t => SitesOf(n)[a] = SitesOf(m)[a]}
<1>1. ASSUME NEW a \in FrmCells(m), a >= t
      PROVE  a \in FrmCells(n) /\ n[a] = m[a] /\ n[a + 1] = m[a + 1]
  <2>1. a \in Cell /\ a \in Nat /\ a + 1 \in Cell /\ m[a].kind = "frm" /\ DOMAIN n = Cell
    BY DEF Linked, FrmCells
  <2>2. n[a] = m[a] /\ n[a + 1] = m[a + 1]
    BY <1>1, <2>1
  <2> QED
    BY <2>1, <2>2 DEF FrmCells
<1>2. ASSUME NEW a \in FrmCells(m), m[a + 1].val # CallReturn => m[a].val \in G, a >= t
      PROVE  SitesOf(n)[a] = SitesOf(m)[a]
  <2>1. SitesOf(m)[a] = Outwards(m, SitesOf(m), a)
    BY SitesExist
  <2>2. SitesOf(n)[a] = Outwards(n, SitesOf(n), a)
    BY <1>1, <1>2, SitesExist
  <2>3. n[a] = m[a] /\ n[a + 1] = m[a + 1]
    BY <1>1, <1>2
  <2>4. m[a + 1].val # CallReturn => SitesOf(n)[m[a].val] = SitesOf(m)[m[a].val]
    <3> HAVE m[a + 1].val # CallReturn
    <3>1. m[a].val \in FrmCells(m) /\ m[a].val \in Nat /\ a < m[a].val /\ a \in Nat
      BY DEF Linked
    <3> QED
      BY <1>2, <3>1
  <2> QED
    BY <2>1, <2>2, <2>3, <2>4 DEF Outwards
<1>3. FrmCells(m) \subseteq G
  <2>1. \A a \in FrmCells(m) : (m[a + 1].val # CallReturn => m[a].val \in G) => a \in G
    BY <1>2
  <2> HIDE DEF G
  <2> QED
    BY <2>1, Downwards
<1> QED
  BY <1>1, <1>3

-----------------------------------------------------------------------------
(* Activations: three frames each, of which the innermost may lack the last. *)

LEMMA Thirds ==
  ASSUME NativeInv
  PROVE  \A k \in Nat : /\ 3 * k + 1 \in DOMAIN nstack => nstack[3 * k + 1].kind = "exec"
                        /\ 3 * k + 2 \in DOMAIN nstack => nstack[3 * k + 2].kind = "helper"
                        /\ 3 * k + 3 \in DOMAIN nstack => nstack[3 * k + 3].kind = "native"
<1> DEFINE Kinds(i) == /\ i + 1 \in DOMAIN nstack => nstack[i + 1].kind = "exec"
                       /\ i + 2 \in DOMAIN nstack => nstack[i + 2].kind = "helper"
                       /\ i + 3 \in DOMAIN nstack => nstack[i + 3].kind = "native"
           T == {k \in Nat : Kinds(3 * k)}
<1>0. Len(nstack) \in Nat /\ DOMAIN nstack = 1..Len(nstack)
  BY PileShape
<1>1. ASSUME NEW i \in DOMAIN nstack
      PROVE  IF i = 1 THEN nstack[i].kind = "exec" ELSE Above(nstack[i].kind, nstack[i - 1].kind)
  BY DEF NativeInv, NativeStackOK, FramesOK
<1>2. ASSUME NEW i \in Nat, i + 1 \in DOMAIN nstack => nstack[i + 1].kind = "exec"
      PROVE  Kinds(i)
  <2>1. i + 2 \in DOMAIN nstack => nstack[i + 2].kind = "helper"
    <3> HAVE i + 2 \in DOMAIN nstack
    <3>1. i + 1 \in DOMAIN nstack /\ (i + 2) - 1 = i + 1 /\ i + 2 # 1
      BY <1>0
    <3> QED
      BY <1>1, <1>2, <3>1 DEF Above
  <2>2. i + 3 \in DOMAIN nstack => nstack[i + 3].kind = "native"
    <3> HAVE i + 3 \in DOMAIN nstack
    <3>1. i + 2 \in DOMAIN nstack /\ (i + 3) - 1 = i + 2 /\ i + 3 # 1
      BY <1>0
    <3> QED
      BY <1>1, <2>1, <3>1 DEF Above
  <2> QED
    BY <1>2, <2>1, <2>2
<1>3. 0 \in T
  <2>1. 0 + 1 \in DOMAIN nstack => nstack[0 + 1].kind = "exec"
    BY <1>1
  <2>2. Kinds(0)
    BY <1>2, <2>1
  <2>3. 3 * 0 = 0 /\ 0 \in Nat
    OBVIOUS
  <2> QED
    BY <2>2, <2>3
<1>4. ASSUME NEW k \in T PROVE k + 1 \in T
  <2>1. k \in Nat /\ Kinds(3 * k)
    OBVIOUS
  <2>2. PICK i \in Nat : i = 3 * (k + 1)
    BY <2>1
  <2>3. i = 3 * k + 3 /\ i # 0
    BY <2>1, <2>2
  <2>4. i + 1 \in DOMAIN nstack => nstack[i + 1].kind = "exec"
    <3> HAVE i + 1 \in DOMAIN nstack
    <3>1. i \in DOMAIN nstack /\ (i + 1) - 1 = i /\ i + 1 # 1
      BY <1>0, <2>3
    <3>2. nstack[i].kind = "native"
      BY <2>1, <2>3, <3>1
    <3> QED
      BY <1>1, <3>1, <3>2 DEF Above
  <2>5. Kinds(i)
    BY <1>2, <2>4
  <2> QED
    BY <2>1, <2>2, <2>5
<1>5. T = Nat
  <2>1. T \in SUBSET Nat
    OBVIOUS
  <2> HIDE DEF T
  <2> QED
    BY <1>3, <1>4, <2>1, InductiveSet
<1> QED
  BY <1>5

LEMMA Depths ==
  ASSUME NativeInv
  PROVE  /\ Depth \in Nat /\ Len(nstack) \in Nat /\ DOMAIN nstack = 1..Len(nstack)
         /\ running = "native" => Len(nstack) = 3 * Depth
         /\ running = "amx" => Len(nstack) + 1 = 3 * Depth /\ Depth >= 1
         /\ \A k \in Nat \ {0} : 3 * k \in DOMAIN nstack => 3 * k \in Waiting
<1>0. PICK n \in Nat : n = Len(nstack) /\ DOMAIN nstack = 1..n
  BY PileShape
<1>1. PICK k \in Nat, r \in 0..2 : n = 3 * k + r
  <2>1. n = 3 * (n \div 3) + (n % 3) /\ n \div 3 \in Nat /\ n % 3 \in 0..2
    OBVIOUS
  <2> QED
    BY <2>1
<1>2. /\ running = "native" => n = 0 \/ (n \in DOMAIN nstack /\ nstack[n].kind = "native")
      /\ running = "amx" => n \in DOMAIN nstack /\ nstack[n].kind = "helper"
  <2>1. nstack = <<>> <=> n = 0
    BY <1>0, PileShape
  <2>2. n # 0 => n \in DOMAIN nstack
    BY <1>0
  <2>3. TopOK
    BY DEF NativeInv, NativeStackOK
  <2>4. running = "native" => nstack = <<>> \/ nstack[n].kind = "native"
    BY <1>0, <2>3 DEF TopOK
  <2>5. running = "amx" => nstack # <<>> /\ nstack[n].kind = "helper"
    BY <1>0, <2>3 DEF TopOK
  <2> QED
    BY <2>1, <2>2, <2>4, <2>5
<1>3. n \in DOMAIN nstack => /\ r = 1 => nstack[n].kind = "exec"
                             /\ r = 2 => nstack[n].kind = "helper"
                             /\ r = 0 => nstack[n].kind = "native"
  <2>1. r = 1 \/ r = 2 => (n \in DOMAIN nstack => nstack[n].kind = IF r = 1 THEN "exec" ELSE "helper")
    BY <1>1, Thirds
  <2>2. ASSUME r = 0, n \in DOMAIN nstack PROVE nstack[n].kind = "native"
    <3>1. k - 1 \in Nat /\ n = 3 * (k - 1) + 3
      BY <1>0, <1>1, <2>2
    <3> QED
      BY <2>2, <3>1, Thirds
  <2> QED
    BY <2>1, <2>2
<1>4. running = "native" => r = 0
  BY <1>1, <1>2, <1>3
<1>5. running = "amx" => r = 2
  BY <1>1, <1>2, <1>3
<1>6. Depth \in Nat /\ (r = 0 => Depth = k) /\ (r = 2 => Depth = k + 1)
  <2>1. Depth = (3 * k + r + 1) \div 3
    BY <1>0, <1>1 DEF Depth
  <2>2. r = 0 => (3 * k + r + 1) \div 3 = k
    OBVIOUS
  <2>3. r = 2 => (3 * k + r + 1) \div 3 = k + 1
    OBVIOUS
  <2>4. (3 * k + r + 1) \div 3 \in Nat
    OBVIOUS
  <2> QED
    BY <2>1, <2>2, <2>3, <2>4
<1>7. \A j \in Nat \ {0} : 3 * j \in DOMAIN nstack => 3 * j \in Waiting
  <2> TAKE j \in Nat \ {0}
  <2> HAVE 3 * j \in DOMAIN nstack
  <2>1. j - 1 \in Nat /\ 3 * j = 3 * (j - 1) + 3
    OBVIOUS
  <2>2. nstack[3 * j].kind = "native"
    BY <2>1, Thirds
  <2> QED
    BY <2>2 DEF Waiting
<1>8. running = "amx" => Len(nstack) + 1 = 3 * Depth /\ Depth >= 1
  BY <1>0, <1>1, <1>5, <1>6
<1> QED
  BY <1>0, <1>1, <1>4, <1>6, <1>7, <1>8

LEMMA DepthFacts ==
  NativeInv => /\ Depth \in Nat /\ Len(nstack) \in Nat /\ DOMAIN nstack = 1..Len(nstack)
               /\ running = "native" => Len(nstack) = 3 * Depth
               /\ running = "amx" => Len(nstack) + 1 = 3 * Depth /\ Depth >= 1
               /\ \A k \in Nat \ {0} : 3 * k \in DOMAIN nstack => 3 * k \in Waiting
BY Depths

LEMMA DepthFactsNext ==
  NativeInv' => /\ Depth' \in Nat /\ Len(nstack') \in Nat /\ DOMAIN nstack' = 1..Len(nstack')
                /\ running' = "native" => Len(nstack') = 3 * Depth'
                /\ running' = "amx" => Len(nstack') + 1 = 3 * Depth' /\ Depth' >= 1
                /\ \A k \in Nat \ {0} : 3 * k \in DOMAIN nstack' => 3 * k \in Waiting'
<1>1. (NativeInv =>
         /\ Depth \in Nat /\ Len(nstack) \in Nat /\ DOMAIN nstack = 1..Len(nstack)
         /\ running = "native" => Len(nstack) = 3 * Depth
         /\ running = "amx" => Len(nstack) + 1 = 3 * Depth /\ Depth >= 1
         /\ \A k \in Nat \ {0} : 3 * k \in DOMAIN nstack => 3 * k \in Waiting)'
  BY DepthFacts, PTL
<1> QED
  BY <1>1

-----------------------------------------------------------------------------
(* The reset_* words of each activation. *)

FourWords(r) ==
  [reset_ebp |-> r.reset_ebp, reset_esp |-> r.reset_esp,
   reset_stk |-> r.reset_stk, reset_hea |-> r.reset_hea]

LEMMA ResetWordsAt ==
  ASSUME NEW k
  PROVE  /\ ResetWords(k) = FourWords(IF k = Depth THEN rib ELSE nstack[3 * k + 1])
         /\ ResetWords(k)' = FourWords(IF k = Depth' THEN rib' ELSE nstack'[3 * k + 1])
BY DEF ResetWords, FourWords

\* The words of an activation that is not the innermost, before and after.
LEMMA SavedWordsKept ==
  ASSUME Keeps, NEW k \in Nat, k # Depth, k # Depth',
         3 * k + 1 \in DOMAIN nstack, 3 * k + 1 \in DOMAIN nstack'
  PROVE  ResetWords(k)' = ResetWords(k)
<1>1. nstack'[3 * k + 1] = nstack[3 * k + 1]
  BY DEF Keeps
<1> QED
  BY <1>1, ResetWordsAt

LEMMA ResetWordsStep ==
  ASSUME ~SleepEnabled, NativeInv, [Next]_vars,
         NEW k \in 0..Depth, k <= Depth'
  PROVE  ResetWords(k)' = ResetWords(k)
<1>0. NativeInv'
  BY NativeInvStep
<1>1. PICK d \in Nat : d = Depth /\ k \in 0..d /\ k \in Nat
  BY DepthFacts
<1>2. PICK e \in Nat : e = Depth' /\ k <= e
  BY <1>0, DepthFactsNext
<1>3. PICK n \in Nat, m \in Nat :
        /\ n = Len(nstack) /\ DOMAIN nstack = 1..n
        /\ m = Len(nstack') /\ DOMAIN nstack' = 1..m
        /\ running = "native" => n = 3 * d
        /\ running = "amx" => n + 1 = 3 * d
        /\ running' = "native" => m = 3 * e
        /\ running' = "amx" => m + 1 = 3 * e
  BY <1>0, <1>1, <1>2, DepthFacts, DepthFactsNext
<1>4. CASE Enters
  <2>1. nstack' = nstack \o <<ExecFrame(rib), HelperFrame>>
    BY <1>4 DEF Enters
  <2>2. Keeps /\ m = n + 2 /\ nstack'[n + 1] = ExecFrame(rib)
    BY <1>3, <2>1, EnterFrames
  <2>3. n = 3 * d /\ e = d + 1
    <3>1. n = 3 * d /\ m + 1 = 3 * e
      BY <1>3, <1>4 DEF Enters
    <3> QED
      BY <2>2, <3>1
  <2>4. CASE k = d
    <3>1. 3 * k + 1 = n + 1 /\ k # e
      BY <2>3, <2>4
    <3>2. FourWords(ExecFrame(rib)) = FourWords(rib)
      BY DEF FourWords, ExecFrame
    <3> QED
      BY <1>1, <1>2, <2>2, <2>4, <3>1, <3>2, ResetWordsAt
  <2>5. CASE k # d
    <3>1. k # e /\ 3 * k + 1 \in 1..n /\ 3 * k + 1 \in 1..m
      BY <1>1, <2>2, <2>3, <2>5
    <3> QED
      BY <1>1, <1>2, <1>3, <2>2, <2>5, <3>1, SavedWordsKept
  <2> QED
    BY <2>4, <2>5
<1>5. CASE CallsNative
  <2>1. Keeps /\ m = n + 1
    BY <1>3, <1>5, CallFrames
  <2>2. n + 1 = 3 * d /\ e = d
    <3>1. n + 1 = 3 * d /\ m = 3 * e
      BY <1>3, <1>5 DEF CallsNative
    <3> QED
      BY <2>1, <3>1
  <2>3. CASE k = d
    <3>1. FourWords(rib') = FourWords(rib)
      BY <1>5 DEF CallsNative, FourWords
    <3> QED
      BY <1>1, <1>2, <2>2, <2>3, <3>1, ResetWordsAt
  <2>4. CASE k # d
    <3>1. 3 * k + 1 \in 1..n /\ 3 * k + 1 \in 1..m
      BY <1>1, <2>1, <2>2, <2>4
    <3> QED
      BY <1>1, <1>2, <1>3, <2>1, <2>2, <2>4, <3>1, SavedWordsKept
  <2> QED
    BY <2>3, <2>4
<1>6. CASE Resumes
  <2>1. Keeps /\ rib' = rib
    BY <1>6, ResumeFrames DEF Resumes
  <2>2. cpu.esp = n
    BY <1>3, <1>6, ResumeFrames
  <2>3. n = 3 * d /\ m + 1 = 3 * e
    BY <1>3, <1>6 DEF Resumes
  <2>4. m = n - 1
    <3>1. n >= 1 /\ n - 1 \in 0..n
      BY <1>3, <1>6, PileShape DEF Resumes
    <3>2. PICK S : nstack \in Seq(S)
      BY DEF NativeInv, IsPile
    <3>3. nstack' = SubSeq(nstack, 1, n - 1)
      BY <1>6, <2>2 DEF Resumes
    <3> QED
      BY <1>3, <3>1, <3>2, <3>3, Cut
  <2>5. e = d
    BY <2>3, <2>4
  <2>6. CASE k = d
    BY <1>1, <1>2, <2>1, <2>5, <2>6, ResetWordsAt
  <2>7. CASE k # d
    <3>1. 3 * k + 1 \in 1..n /\ 3 * k + 1 \in 1..m
      BY <1>1, <2>3, <2>4, <2>7
    <3> QED
      BY <1>1, <1>2, <1>3, <2>1, <2>5, <2>7, <3>1, SavedWordsKept
  <2> QED
    BY <2>6, <2>7
<1>7. CASE LeavesScript
  <2>1. Keeps /\ rib.ebp = m + 1 /\ m + 2 \in 1..n
    BY <1>3, <1>7, LeaveFrames
  <2>2. m = 3 * e
    BY <1>3, <1>7 DEF LeavesScript
  <2>3. e < d
    <3>1. running \in {"native", "amx"}
      BY DEF NativeInv, NativeStackOK, TopOK
    <3> QED
      BY <1>3, <2>1, <2>2, <3>1
  <2>4. CASE k = e
    <3>1. 3 * k + 1 = rib.ebp /\ k # d
      BY <2>1, <2>2, <2>3, <2>4
    <3>2. FourWords(rib') = FourWords(nstack[rib.ebp])
      BY <1>7 DEF LeavesScript, FourWords
    <3> QED
      BY <1>1, <1>2, <2>4, <3>1, <3>2, ResetWordsAt
  <2>5. CASE k # e
    <3>1. k # d /\ 3 * k + 1 \in 1..n /\ 3 * k + 1 \in 1..m
      <4>1. k \in Nat /\ k < e /\ m <= n
        BY <1>1, <1>2, <2>1, <2>5
      <4> QED
        BY <2>2, <2>3, <4>1
    <3> QED
      BY <1>1, <1>2, <1>3, <2>1, <2>5, <3>1, SavedWordsKept
  <2> QED
    BY <2>4, <2>5
<1>8. CASE Stays
  <2>1. Depth' = Depth
    BY <1>8 DEF Depth, Stays
  <2> QED
    BY <1>8, <2>1, ResetWordsAt DEF Stays
<1> QED
  BY <1>4, <1>5, <1>6, <1>7, <1>8, StepKinds

\* Without sleep support each activation of Exec keeps its reset_* words, which
\* a halt and the return need, from its entry to its end, through every nested
\* Exec and however that ends.
THEOREM ResetWordsSurvive ==
  ASSUME ~SleepEnabled
  PROVE  Spec => ResetWordsRestored
<1> DEFINE Kept == \A k \in 0..Depth : k <= Depth' => ResetWords(k)' = ResetWords(k)
<1>1. NativeInv /\ [Next]_vars => [Kept]_vars
  BY ResetWordsStep
<1> QED
  BY <1>1, NativeInvariant, PTL DEF Spec, ResetWordsRestored

-----------------------------------------------------------------------------
(* What activations are to ScriptCalls. *)

\* The activations as a sequence.
LEMMA ActsShape ==
  ASSUME NativeInv
  PROVE  /\ \E S : CallActs \in Seq(S)
         /\ Len(CallActs) = Depth /\ (CallActs = <<>> <=> Depth = 0)
         /\ \A k \in 1..Depth : CallActs[k] = Activation(k)
<1>1. Depth \in Nat
  BY Depths
<1>2. CallActs = [k \in 1..Depth |-> Activation(k)]
  BY DEF CallActs, Depth
<1> DEFINE S == {Activation(k) : k \in 1..Depth}
<1>3. CallActs \in Seq(S) /\ Len(CallActs) = Depth
  BY <1>1, <1>2
<1>4. CallActs = <<>> <=> Depth = 0
  BY <1>3, EmptySeq
<1> QED
  BY <1>2, <1>3, <1>4

-----------------------------------------------------------------------------
(* Sequences that agree but for their ends. *)

LEMMA SeqGrown ==
  ASSUME NEW S, NEW s \in Seq(S), NEW S2, NEW t \in Seq(S2), Len(t) = Len(s) + 1,
         \A i \in 1..Len(s) : t[i] = s[i]
  PROVE  t = Append(s, t[Len(t)])
<1> DEFINE U == S \cup S2
           x == t[Len(t)]
<1>1. s \in Seq(U) /\ t \in Seq(U) /\ Len(s) \in Nat
  OBVIOUS
<1>2. x \in U
  BY <1>1, ElementOfSeq
<1> HIDE DEF U, x
<1>3. /\ Append(s, x) \in Seq(U) /\ Len(Append(s, x)) = Len(s) + 1
      /\ \A i \in 1..Len(s) : Append(s, x)[i] = s[i]
      /\ Append(s, x)[Len(s) + 1] = x
  BY <1>1, <1>2, AppendOne
<1>4. \A i \in 1..Len(t) : t[i] = Append(s, x)[i]
  BY <1>1, <1>3 DEF x
<1>5. t = Append(s, x)
  BY <1>1, <1>3, <1>4, SeqEqual
<1> QED
  BY <1>5 DEF x

LEMMA SeqCut ==
  ASSUME NEW S, NEW s \in Seq(S), NEW S2, NEW t \in Seq(S2), s # <<>>, Len(t) + 1 = Len(s),
         \A i \in 1..Len(t) : t[i] = s[i]
  PROVE  t = SubSeq(s, 1, Len(s) - 1)
<1> DEFINE U == S \cup S2
           r == SubSeq(s, 1, Len(s) - 1)
<1>1. s \in Seq(U) /\ t \in Seq(U) /\ Len(s) \in Nat /\ Len(t) \in Nat
  OBVIOUS
<1>2. r \in Seq(U) /\ Len(r) = Len(s) - 1 /\ \A i \in 1..(Len(s) - 1) : r[i] = s[i]
  BY <1>1, PopOne
<1> HIDE DEF U, r
<1>3. t = r
  BY <1>1, <1>2, SeqEqual
<1> QED
  BY <1>3 DEF r

LEMMA SeqTop ==
  ASSUME NEW S, NEW s \in Seq(S), NEW S2, NEW t \in Seq(S2), s # <<>>, Len(t) = Len(s),
         \A i \in 1..(Len(s) - 1) : t[i] = s[i]
  PROVE  t = Append(SubSeq(s, 1, Len(s) - 1), t[Len(t)])
<1>1. /\ SubSeq(s, 1, Len(s) - 1) \in Seq(S) /\ Len(SubSeq(s, 1, Len(s) - 1)) = Len(s) - 1
      /\ \A i \in 1..(Len(s) - 1) : SubSeq(s, 1, Len(s) - 1)[i] = s[i]
      /\ Len(s) \in Nat \ {0}
  BY PopOne
<1>2. PICK r \in Seq(S) : r = SubSeq(s, 1, Len(s) - 1)
  BY <1>1
<1>3. Len(t) = Len(r) + 1 /\ \A i \in 1..Len(r) : t[i] = r[i]
  BY <1>1, <1>2
<1>4. t = Append(r, t[Len(t)])
  BY <1>3, SeqGrown
<1> QED
  BY <1>2, <1>4

LEMMA OnFront ==
  ASSUME NEW S, NEW x \in S, NEW s \in Seq(S)
  PROVE  /\ <<x>> \o s # <<>> /\ Head(<<x>> \o s) = x /\ Tail(<<x>> \o s) = s
<1> DEFINE t == <<x>> \o s
<1>1. <<x>> \in Seq(S) /\ Len(<<x>>) = 1 /\ <<x>>[1] = x
  OBVIOUS
<1>2. /\ t \in Seq(S) /\ Len(t) = 1 + Len(s) /\ Len(s) \in Nat
      /\ \A i \in 1..(1 + Len(s)) : t[i] = IF i <= 1 THEN <<x>>[i] ELSE s[i - 1]
  BY <1>1, ConcatProperties, LenProperties
<1> HIDE DEF t
<1>3. t # <<>> /\ t[1] = x
  <2>1. Len(t) # 0 /\ 1 \in 1..(1 + Len(s))
    BY <1>2
  <2> QED
    BY <1>1, <1>2, <2>1, EmptySeq
<1>4. /\ Head(t) = t[1] /\ Tail(t) \in Seq(S) /\ Len(Tail(t)) = Len(t) - 1
      /\ \A i \in 1..Len(Tail(t)) : Tail(t)[i] = t[i + 1]
  BY <1>2, <1>3, HeadTailProperties
<1>5. Tail(t) = s
  <2>1. Len(Tail(t)) = Len(s)
    BY <1>2, <1>4
  <2>2. \A i \in 1..Len(s) : Tail(t)[i] = s[i]
    <3> TAKE i \in 1..Len(s)
    <3>1. i + 1 \in 1..(1 + Len(s)) /\ ~(i + 1 <= 1) /\ (i + 1) - 1 = i /\ i \in 1..Len(Tail(t))
      BY <1>2, <2>1
    <3> QED
      BY <1>2, <1>4, <3>1
  <2> QED
    BY <1>4, <2>1, <2>2, SeqEqual
<1> QED
  BY <1>3, <1>4, <1>5 DEF t

\* CallActs of the state before and after a step.
LEMMA ActsFacts ==
  NativeInv => /\ Depth \in Nat
               /\ \E S : CallActs \in Seq(S)
               /\ Len(CallActs) = Depth /\ (CallActs = <<>> <=> Depth = 0)
               /\ \A k \in 1..Depth : CallActs[k] = Activation(k)
BY ActsShape, Depths

LEMMA ActsFactsNext ==
  NativeInv' => /\ Depth' \in Nat
                /\ \E S : CallActs' \in Seq(S)
                /\ Len(CallActs') = Depth' /\ (CallActs' = <<>> <=> Depth' = 0)
                /\ \A k \in 1..Depth' : CallActs'[k] = Activation(k)'
<1>1. (NativeInv => /\ Depth \in Nat
                    /\ \E S : CallActs \in Seq(S)
                    /\ Len(CallActs) = Depth /\ (CallActs = <<>> <=> Depth = 0)
                    /\ \A k \in 1..Depth : CallActs[k] = Activation(k))'
  BY ActsFacts, PTL
<1> QED
  BY <1>1

-----------------------------------------------------------------------------
(* What a step keeps of the activations below the one it is about.          *)

LEMMA MemFacts == StackInv => Linked(mem) /\ \A a \in FrmCells(mem) : a + 1 \in Cell
<1> SUFFICES ASSUME StackInv PROVE Linked(mem) /\ \A a \in FrmCells(mem) : a + 1 \in Cell
  OBVIOUS
<1>1. DOMAIN mem = Cell
  BY DEF StackInv, TypeInv, TypeOK, Cell
<1>2. Layout(mem)
  BY DEF StackInv, LayoutInv
<1>3. ASSUME NEW a \in FrmCells(mem) PROVE a + 1 \in Cell
  <2>1. a \in Cell /\ LinkOK(mem, a)
    BY <1>1, <1>2 DEF FrmCells, Layout
  <2> QED
    BY <2>1, LayoutAssumption DEF LinkOK, Cell
<1> QED
  BY <1>1, <1>2, <1>3, LayoutLinked

LEMMA MemFactsNext == StackInv' => Linked(mem') /\ \A a \in FrmCells(mem') : a + 1 \in Cell
<1>1. (StackInv => Linked(mem) /\ \A a \in FrmCells(mem) : a + 1 \in Cell)'
  BY MemFacts, PTL
<1> QED
  BY <1>1

LEMMA SitesOfMemNext == ReturnSites' = SitesOf(mem')
BY DEF ReturnSites, SitesOf, FrmCells, Outwards

\* A step that keeps the cells from t upwards keeps the return addresses there.
LEMMA SitesStay ==
  ASSUME StackInv, StackInv', NEW t \in Int, \A a \in Cell : a >= t => mem'[a] = mem[a],
         NEW a \in FrmCells(mem), a >= t
  PROVE  ReturnSites'[a] = ReturnSites[a]
<1>1. PICK m, n : m = mem /\ n = mem'
  OBVIOUS
<1>2. Linked(m) /\ Linked(n) /\ \A b \in FrmCells(m) : b + 1 \in Cell
  BY <1>1, MemFacts, MemFactsNext
<1>3. SitesOf(n)[a] = SitesOf(m)[a]
  BY <1>1, <1>2, SitesKept
<1> QED
  BY <1>1, <1>3, SitesOfMem, SitesOfMemNext

\* Where the script with the CPU is, and the one that waits for the native.
Runner ==
  [at |-> cpu.ip, back |-> IF cpu.ip = CallReturn THEN <<>> ELSE ReturnSites[cpu.ebp],
   waits |-> FALSE]
Waiter ==
  [at |-> cpu.esi, back |-> ReturnSites[nstack[Len(nstack)].amx_ebp], waits |-> TRUE]

LEMMA TopFacts ==
  NativeInv =>
    /\ running = "amx" => CallActs # <<>> /\ CallActs[Len(CallActs)] = Runner
    /\ (running = "native" /\ nstack # <<>>) =>
         CallActs # <<>> /\ CallActs[Len(CallActs)] = Waiter
    /\ nstack = <<>> => CallActs = <<>>
<1> SUFFICES ASSUME NativeInv
             PROVE  /\ running = "amx" => CallActs # <<>> /\ CallActs[Len(CallActs)] = Runner
                    /\ (running = "native" /\ nstack # <<>>) =>
                         CallActs # <<>> /\ CallActs[Len(CallActs)] = Waiter
                    /\ nstack = <<>> => CallActs = <<>>
  OBVIOUS
<1>1. PICK d \in Nat : d = Depth
  BY Depths
<1>2. /\ Len(nstack) \in Nat /\ DOMAIN nstack = 1..Len(nstack)
      /\ running = "native" => Len(nstack) = 3 * d
      /\ running = "amx" => Len(nstack) + 1 = 3 * d /\ d >= 1
  BY <1>1, Depths
<1>3. Len(CallActs) = d /\ (CallActs = <<>> <=> d = 0) /\ \A k \in 1..d : CallActs[k] = Activation(k)
  BY <1>1, ActsShape
<1>4. nstack = <<>> <=> Len(nstack) = 0
  BY PileShape
<1>5. ASSUME running = "amx" PROVE CallActs # <<>> /\ CallActs[Len(CallActs)] = Runner
  <2>1. d \in 1..d /\ 3 * d \notin DOMAIN nstack
    BY <1>2, <1>5
  <2>2. Activation(d) = Runner
    BY <2>1 DEF Activation, Runner
  <2> QED
    BY <1>3, <2>1, <2>2
<1>6. ASSUME running = "native", nstack # <<>>
      PROVE  CallActs # <<>> /\ CallActs[Len(CallActs)] = Waiter
  <2>1. d \in 1..d /\ 3 * d \in DOMAIN nstack /\ 3 * d = Len(nstack)
    BY <1>2, <1>4, <1>6
  <2>2. ReturnSite(3 * d) = cpu.esi
    <3>1. PICK n \in Nat : n = Len(nstack) /\ n = 3 * d
      BY <1>2, <2>1
    <3>2. ~(n < n)
      OBVIOUS
    <3> QED
      BY <3>1, <3>2 DEF ReturnSite
  <2>3. Activation(d) = [at |-> ReturnSite(3 * d), back |-> ReturnSites[nstack[3 * d].amx_ebp],
                         waits |-> TRUE]
    BY <2>1 DEF Activation
  <2>4. Activation(d) = Waiter
    BY <2>1, <2>2, <2>3 DEF Waiter
  <2> QED
    BY <1>3, <2>1, <2>4
<1>7. ASSUME nstack = <<>> PROVE CallActs = <<>>
  <2>1. Len(nstack) = 0
    BY <1>4, <1>7
  <2>2. d = (0 + 1) \div 3
    BY <1>1, <2>1 DEF Depth
  <2>3. d = 0
    BY <2>2
  <2> QED
    BY <1>3, <2>3
<1> QED
  BY <1>5, <1>6, <1>7

LEMMA TopFactsNext ==
  NativeInv' =>
    /\ running' = "amx" => CallActs' # <<>> /\ CallActs'[Len(CallActs')] = Runner'
    /\ (running' = "native" /\ nstack' # <<>>) =>
         CallActs' # <<>> /\ CallActs'[Len(CallActs')] = Waiter'
<1>1. (NativeInv =>
         /\ running = "amx" => CallActs # <<>> /\ CallActs[Len(CallActs)] = Runner
         /\ (running = "native" /\ nstack # <<>>) =>
              CallActs # <<>> /\ CallActs[Len(CallActs)] = Waiter
         /\ nstack = <<>> => CallActs = <<>>)'
  BY TopFacts, PTL
<1> QED
  BY <1>1

\* What every step of the code is known to do by now.
Step == StackInv /\ StackInv' /\ Untouched /\ SuspendedStep

LEMMA WaiterFrame ==
  ASSUME StackInv, NEW i \in Waiting
  PROVE  /\ nstack[i].amx_ebp \in FrmCells(mem) /\ nstack[i].amx_esp \in Int
         /\ nstack[i].amx_ebp >= nstack[i].amx_esp
<1>1. Context(mem, nstack[i].amx_esp, nstack[i].amx_ebp) /\ DOMAIN mem = Cell
  BY DEF StackInv, LayoutInv, WaitingOK, TypeInv, TypeOK, Cell
<1> QED
  BY <1>1, LayoutAssumption DEF Context, FrmCells, Cell

\* A script that waits before and after a step waits at the same place.
LEMMA KeptActivation ==
  ASSUME Step, NEW k \in Nat \ {0}, 3 * k \in DOMAIN nstack, 3 * k \in DOMAIN nstack'
  PROVE  Activation(k)' = Activation(k)
<1>1. PICK i : i = 3 * k
  OBVIOUS
<1>2. NativeInv /\ NativeInv'
  BY DEF Step, StackInv
<1>3. i \in Waiting
  BY <1>1, <1>2, Depths
<1>4. i \in Waiting'
  BY <1>1, <1>2, DepthFactsNext
<1>5. i \in DOMAIN Suspended /\ i \in DOMAIN Suspended'
  BY <1>3, <1>4, SuspendedFrames, SuspendedFramesNext DEF Waiting
<1>6. Suspended'[i] = Suspended[i]
  BY <1>5 DEF Step, SuspendedStep
<1>7. nstack'[i].amx_ebp = nstack[i].amx_ebp /\ ReturnSite(i)' = ReturnSite(i)
  <2>1. Suspended[i] = [ip |-> ReturnSite(i), esp |-> nstack[i].amx_esp,
                        ebp |-> nstack[i].amx_ebp, alt |-> nstack[i].alt]
    BY <1>5, SuspendedFrames
  <2>2. Suspended'[i] = [ip |-> ReturnSite(i)', esp |-> nstack'[i].amx_esp,
                         ebp |-> nstack'[i].amx_ebp, alt |-> nstack'[i].alt]
    BY <1>5, SuspendedFramesNext
  <2> QED
    BY <1>6, <2>1, <2>2
<1>8. PICK a, t : a = nstack[i].amx_ebp /\ t = nstack[i].amx_esp
  OBVIOUS
<1>9. a \in FrmCells(mem) /\ t \in Int /\ a >= t
  BY <1>3, <1>8, WaiterFrame DEF Step
<1>10. \A b \in Cell : b >= t => mem'[b] = mem[b]
  BY <1>3, <1>4, <1>8 DEF Step, Untouched
<1>11. ReturnSites'[a] = ReturnSites[a]
  BY <1>9, <1>10, SitesStay DEF Step
<1>12. Activation(k) = [at |-> ReturnSite(i), back |-> ReturnSites[a], waits |-> TRUE]
  BY <1>1, <1>8 DEF Activation
<1>13. Activation(k)' = [at |-> ReturnSite(i)', back |-> ReturnSites'[a], waits |-> TRUE]
  BY <1>1, <1>7, <1>8 DEF Activation
<1> QED
  BY <1>7, <1>11, <1>12, <1>13

-----------------------------------------------------------------------------
(* What each kind of step does to the activations.                          *)

\* All activations but the one at the top, before and after a step.
LEMMA KeptBelow ==
  ASSUME Step, NEW k \in Nat \ {0}, 3 * k <= Len(nstack), 3 * k <= Len(nstack')
  PROVE  Activation(k)' = Activation(k)
<1>1. DOMAIN nstack = 1..Len(nstack) /\ DOMAIN nstack' = 1..Len(nstack')
      /\ Len(nstack) \in Nat /\ Len(nstack') \in Nat
  BY DepthFacts, DepthFactsNext DEF Step, StackInv
<1>2. 3 * k \in DOMAIN nstack /\ 3 * k \in DOMAIN nstack'
  BY <1>1
<1> QED
  BY <1>2, KeptActivation

LEMMA EnterActs ==
  ASSUME Step, Enters
  PROVE  CallActs' = Append(CallActs, Runner')
<1>0. NativeInv /\ NativeInv' /\ running = "native" /\ running' = "amx"
  BY DEF Step, StackInv, Enters
<1>1. PICK d \in Nat : d = Depth /\ Len(nstack) = 3 * d
  BY <1>0, DepthFacts
<1>2. PICK e \in Nat : e = Depth' /\ Len(nstack') + 1 = 3 * e
  BY <1>0, DepthFactsNext
<1>3. Len(nstack') = Len(nstack) + 2 /\ Len(nstack) \in Nat /\ Len(nstack') \in Nat
  <2>1. PICK reset : nstack' = nstack \o <<ExecFrame(reset), HelperFrame>>
    BY DEF Enters
  <2>2. Len(nstack') = Len(nstack) + 2 /\ Len(nstack) \in Nat
    BY <1>0, <2>1, EnterFrames
  <2> QED
    BY <2>2
<1>4. e = d + 1
  <2>1. PICK n \in Nat : n = Len(nstack) /\ Len(nstack') = n + 2
    BY <1>3
  <2>2. n = 3 * d /\ n + 2 + 1 = 3 * e
    BY <1>1, <1>2, <2>1
  <2> QED
    BY <2>2
<1>5. /\ \E S : CallActs \in Seq(S)
      /\ \E S : CallActs' \in Seq(S)
      /\ Len(CallActs) = d /\ Len(CallActs') = e
      /\ \A k \in 1..d : CallActs[k] = Activation(k)
      /\ \A k \in 1..e : CallActs'[k] = Activation(k)'
  BY <1>0, <1>1, <1>2, ActsFacts, ActsFactsNext
<1>6. \A k \in 1..d : CallActs'[k] = CallActs[k]
  <2> TAKE k \in 1..d
  <2>1. Activation(k)' = Activation(k)
    BY <1>1, <1>3, KeptBelow
  <2> QED
    BY <1>4, <1>5, <2>1
<1>7. CallActs' = Append(CallActs, CallActs'[Len(CallActs')])
  BY <1>4, <1>5, <1>6, SeqGrown
<1> QED
  BY <1>0, <1>7, TopFactsNext

\* Steps after which as many activations are there, and the top one is changed.
LEMMA SameDepthActs ==
  ASSUME Step, CallActs # <<>>, Depth' = Depth
  PROVE  CallActs' = Append(Calls!Below, CallActs'[Len(CallActs')])
<1>0. NativeInv /\ NativeInv' /\ running \in {"native", "amx"} /\ running' \in {"native", "amx"}
  BY DEF Step, StackInv, NativeInv, NativeStackOK, TopOK
<1>1. PICK d \in Nat : d = Depth /\ d = Depth'
  BY <1>0, DepthFacts
<1>2. /\ Len(nstack) = 3 * d \/ Len(nstack) + 1 = 3 * d
      /\ Len(nstack') = 3 * d \/ Len(nstack') + 1 = 3 * d
      /\ Len(nstack) \in Nat /\ Len(nstack') \in Nat
  BY <1>0, <1>1, DepthFacts, DepthFactsNext
<1>5. /\ \E S : CallActs \in Seq(S)
      /\ \E S : CallActs' \in Seq(S)
      /\ Len(CallActs) = d /\ Len(CallActs') = d
      /\ \A k \in 1..d : CallActs[k] = Activation(k)
      /\ \A k \in 1..d : CallActs'[k] = Activation(k)'
  BY <1>0, <1>1, ActsFacts, ActsFactsNext
<1>6. \A k \in 1..(d - 1) : CallActs'[k] = CallActs[k]
  <2> TAKE k \in 1..(d - 1)
  <2>1. 3 * k <= Len(nstack) /\ 3 * k <= Len(nstack') /\ k \in 1..d
    BY <1>2
  <2>2. Activation(k)' = Activation(k)
    BY <2>1, KeptBelow
  <2> QED
    BY <1>5, <2>1, <2>2
<1>7. CallActs' = Append(SubSeq(CallActs, 1, Len(CallActs) - 1), CallActs'[Len(CallActs')])
  BY <1>5, <1>6, SeqTop
<1> QED
  BY <1>7 DEF Calls!Below

LEMMA CallActsStep ==
  ASSUME Step, CallsNative
  PROVE  CallActs' = Append(Calls!Below, Waiter')
<1>0. NativeInv /\ NativeInv' /\ running = "amx" /\ running' = "native"
  BY DEF Step, StackInv, CallsNative
<1>1. PICK d \in Nat, e \in Nat : d = Depth /\ Len(nstack) + 1 = 3 * d
                                  /\ e = Depth' /\ Len(nstack') = 3 * e
  BY <1>0, DepthFacts, DepthFactsNext
<1>2. Len(nstack') = Len(nstack) + 1 /\ nstack' # <<>> /\ Len(nstack) \in Nat
  BY <1>0, CallFrames
<1>3. Depth' = Depth
  BY <1>1, <1>2
<1>4. CallActs # <<>> /\ CallActs'[Len(CallActs')] = Waiter'
  BY <1>0, <1>2, TopFacts, TopFactsNext
<1> QED
  BY <1>3, <1>4, SameDepthActs

LEMMA ResumeActs ==
  ASSUME Step, Resumes
  PROVE  CallActs' = Append(Calls!Below, Runner')
<1>0. NativeInv /\ NativeInv' /\ running = "native" /\ running' = "amx" /\ nstack # <<>>
  BY DEF Step, StackInv, Resumes
<1>1. PICK d \in Nat, e \in Nat : d = Depth /\ Len(nstack) = 3 * d
                                  /\ e = Depth' /\ Len(nstack') + 1 = 3 * e
  BY <1>0, DepthFacts, DepthFactsNext
<1>2. Len(nstack') + 1 = Len(nstack)
  <2>1. cpu.esp = Len(nstack) /\ nstack' = SubSeq(nstack, 1, Len(nstack) - 1)
    BY <1>0, ResumeFrames DEF Resumes
  <2>2. PICK S : nstack \in Seq(S)
    BY <1>0 DEF NativeInv, IsPile
  <2> QED
    BY <1>0, <2>1, <2>2, PopOne
<1>3. Depth' = Depth
  BY <1>1, <1>2
<1>4. CallActs # <<>> /\ CallActs'[Len(CallActs')] = Runner'
  BY <1>0, TopFacts, TopFactsNext
<1> QED
  BY <1>3, <1>4, SameDepthActs

LEMMA LeaveActs ==
  ASSUME Step, LeavesScript
  PROVE  CallActs # <<>> /\ CallActs' = Calls!Below
<1>0. NativeInv /\ NativeInv' /\ running \in {"native", "amx"} /\ running' = "native" /\ nstack # <<>>
  BY DEF Step, StackInv, LeavesScript, NativeInv, NativeStackOK, TopOK
<1>1. PICK d \in Nat, e \in Nat :
        /\ d = Depth /\ e = Depth' /\ Len(nstack') = 3 * e
        /\ running = "native" => Len(nstack) = 3 * d
        /\ running = "amx" => Len(nstack) + 1 = 3 * d
  BY <1>0, DepthFacts, DepthFactsNext
<1>2. PICK m \in 0..Len(nstack) : /\ running = "amx" => Len(nstack) = m + 2
                                  /\ running = "native" => Len(nstack) = m + 3
                                  /\ rib.ebp = m + 1
  BY <1>0, Innermost
<1>3. Len(nstack') = m /\ Len(nstack) \in Nat
  <2>1. nstack' = SubSeq(nstack, 1, m)
    BY <1>2 DEF LeavesScript
  <2>2. PICK S : nstack \in Seq(S)
    BY <1>0 DEF NativeInv, IsPile
  <2> QED
    BY <2>1, <2>2, Cut
<1>4. e + 1 = d /\ 3 * e <= Len(nstack)
  <2>1. PICK n \in Nat : n = Len(nstack)
    BY <1>3
  <2>2. 3 * e = m /\ ((n = m + 2 /\ n + 1 = 3 * d) \/ (n = m + 3 /\ n = 3 * d))
    BY <1>0, <1>1, <1>2, <1>3, <2>1
  <2> QED
    BY <2>1, <2>2
<1>5. /\ \E S : CallActs \in Seq(S)
      /\ \E S : CallActs' \in Seq(S)
      /\ Len(CallActs) = d /\ Len(CallActs') = e /\ CallActs # <<>>
      /\ \A k \in 1..d : CallActs[k] = Activation(k)
      /\ \A k \in 1..e : CallActs'[k] = Activation(k)'
  BY <1>0, <1>1, <1>4, ActsFacts, ActsFactsNext
<1>6. \A k \in 1..e : CallActs'[k] = CallActs[k]
  <2> TAKE k \in 1..e
  <2>1. 3 * k <= 3 * e /\ k \in 1..d /\ 3 * e = Len(nstack')
    <3>1. e + 1 = d /\ 3 * e = Len(nstack')
      BY <1>1, <1>4
    <3>2. k <= e /\ k \in Nat /\ k >= 1
      OBVIOUS
    <3>3. k \in 1..d
      BY <3>1, <3>2
    <3>4. 3 * k <= 3 * e
      BY <3>2
    <3> QED
      BY <3>1, <3>3, <3>4
  <2>2. 3 * k <= Len(nstack) /\ 3 * k <= Len(nstack')
    <3>1. PICK n \in Nat : n = Len(nstack) /\ 3 * e <= n
      BY <1>3, <1>4
    <3>2. 3 * k <= n
      BY <2>1, <3>1
    <3> QED
      BY <2>1, <3>1, <3>2
  <2>3. Activation(k)' = Activation(k)
    BY <2>2, KeptBelow
  <2> QED
    BY <1>5, <2>1, <2>3
<1>7. CallActs' = SubSeq(CallActs, 1, Len(CallActs) - 1)
  BY <1>4, <1>5, <1>6, SeqCut
<1> QED
  BY <1>5, <1>7 DEF Calls!Below

LEMMA StayActs ==
  ASSUME Step, Stays
  PROVE  /\ running = "native" => CallActs' = CallActs
         /\ running = "amx" => CallActs' = Append(Calls!Below, Runner')
<1>0. NativeInv /\ NativeInv' /\ running \in {"native", "amx"} /\ running' = running
      /\ nstack' = nstack
  BY DEF Step, StackInv, Stays, NativeInv, NativeStackOK, TopOK
<1>1. Depth' = Depth
  BY <1>0 DEF Depth
<1>2. ASSUME running = "amx" PROVE CallActs' = Append(Calls!Below, Runner')
  <2>1. CallActs # <<>> /\ CallActs'[Len(CallActs')] = Runner'
    BY <1>0, <1>2, TopFacts, TopFactsNext
  <2> QED
    BY <1>1, <2>1, SameDepthActs
<1>3. ASSUME running = "native" PROVE CallActs' = CallActs
  <2>1. PICK d \in Nat : d = Depth /\ Len(nstack) = 3 * d
    BY <1>0, <1>3, DepthFacts
  <2>2. \A k \in 1..d : Activation(k)' = Activation(k)
    <3> TAKE k \in 1..d
    <3>1. 3 * k <= Len(nstack) /\ 3 * k <= Len(nstack')
      BY <1>0, <2>1
    <3> QED
      BY <3>1, KeptBelow
  <2>3. CallActs = [k \in 1..d |-> Activation(k)] /\ CallActs' = [k \in 1..d |-> Activation(k)']
    BY <1>0, <2>1 DEF CallActs, Depth
  <2> QED
    BY <2>2, <2>3
<1> QED
  BY <1>2, <1>3

-----------------------------------------------------------------------------
(* Steps that scripts and callers do not see.                               *)

Seen == Calls!Next \/ UNCHANGED <<CallActs, CallSleeper>>

\* Nobody sleeps while a script runs.
LEMMA AwakeFacts == StackInv => (running = "amx" => CallSleeper = Nobody)
BY DEF StackInv, LayoutInv, SleeperOK, CallSleeper

LEMMA AwakeFactsNext == StackInv' => (running' = "amx" => CallSleeper' = Nobody)
<1>1. (StackInv => (running = "amx" => CallSleeper = Nobody))'
  BY AwakeFacts, PTL
<1> QED
  BY <1>1

LEMMA CallerSees ==
  ASSUME StackInv, running = "native"
  PROVE  /\ Calls!InCaller
         /\ nstack # <<>> => CallActs # <<>> /\ Calls!Top = Waiter
<1>1. NativeInv
  BY DEF StackInv
<1>2. nstack = <<>> => CallActs = <<>>
  BY <1>1, TopFacts
<1>3. nstack # <<>> => CallActs # <<>> /\ Calls!Top = Waiter
  BY <1>1, TopFacts DEF Calls!Top
<1>4. Waiter.waits
  BY DEF Waiter
<1> QED
  BY <1>2, <1>3, <1>4 DEF Calls!InCaller

LEMMA ScriptSees ==
  ASSUME StackInv, running = "amx"
  PROVE  /\ Calls!InScript /\ Calls!Top = Runner /\ CallActs # <<>> /\ CallSleeper = Nobody
         /\ cpu.ip # CallReturn => cpu.ebp \in FrmCells(mem)
<1>1. NativeInv
  BY DEF StackInv
<1>2. CallActs # <<>> /\ Calls!Top = Runner
  BY <1>1, TopFacts DEF Calls!Top
<1>3. ~Runner.waits
  BY DEF Runner
<1>4. CallSleeper = Nobody
  BY AwakeFacts
<1>5. cpu.ip # CallReturn => cpu.ebp \in FrmCells(mem)
  <2> HAVE cpu.ip # CallReturn
  <2>1. Context(mem, cpu.esp, cpu.ebp) /\ DOMAIN mem = Cell
    BY DEF StackInv, LayoutInv, RegistersOK, TypeInv, TypeOK, Cell
  <2> QED
    BY <2>1 DEF Context, FrmCells
<1> QED
  BY <1>2, <1>3, <1>4, <1>5 DEF Calls!InScript

LEMMA WorkSeen ==
  ASSUME Step, NEW t \in Int, Works(t)
  PROVE  Seen
<1>0. StackInv /\ StackInv' /\ NativeInv /\ running = "amx" /\ running' = "amx" /\ cpu.ip # CallReturn
  BY DEF Step, StackInv, Works, Script
<1>1. Stays
  BY <1>0 DEF Works, Stays
<1>2. CallActs' = Append(Calls!Below, Runner')
  BY <1>0, <1>1, StayActs
<1>3. Runner' = Runner
  <2>1. PICK a : a = cpu.ebp
    OBVIOUS
  <2>2. a \in FrmCells(mem) /\ a >= t
    BY <1>0, <2>1, ScriptSees DEF Works
  <2>3. \A b \in Cell : b >= t => mem'[b] = mem[b]
    BY LayoutAssumption DEF Works, CutAt, Cell
  <2>4. ReturnSites'[a] = ReturnSites[a]
    BY <1>0, <2>2, <2>3, SitesStay
  <2>5. cpu'.ip = cpu.ip /\ cpu'.ebp = a
    BY <2>1 DEF Works
  <2> QED
    BY <2>1, <2>4, <2>5 DEF Runner
<1>4. CallActs = Append(Calls!Below, Runner)
  <2>1. PICK S : CallActs \in Seq(S)
    BY <1>0, ActsFacts
  <2>2. CallActs # <<>> /\ CallActs[Len(CallActs)] = Runner
    BY <1>0, TopFacts
  <2>3. CallActs = Append(SubSeq(CallActs, 1, Len(CallActs) - 1), CallActs[Len(CallActs)])
    BY <2>1, <2>2, SeqTop
  <2> QED
    BY <2>2, <2>3 DEF Calls!Below
<1>5. CallSleeper = Nobody /\ CallSleeper' = Nobody
  BY <1>0, AwakeFacts, AwakeFactsNext
<1> QED
  BY <1>2, <1>3, <1>4, <1>5 DEF Seen

LEMMA RegisterSeen ==
  ASSUME Step, RegisterNatives
  PROVE  Seen
<1>1. /\ running = "native" /\ UNCHANGED <<rib, cpu, nstack, mem, running, last>>
      /\ amx' = [amx EXCEPT !.ntvreg = TRUE]
  BY DEF RegisterNatives
<1>2. CallActs' = CallActs
  BY <1>1, StayActs DEF Stays
<1>3. ReturnSites' = ReturnSites
  BY <1>1, SitesOfMem, SitesOfMemNext
<1>4. amx'.cip = amx.cip /\ amx'.frm = amx.frm
  BY <1>1 DEF Step, StackInv, TypeInv, TypeOK
<1>5. CallSleeper' = CallSleeper
  BY <1>1, <1>3, <1>4 DEF CallSleeper
<1> QED
  BY <1>2, <1>5 DEF Seen

LEMMA ParamSeen ==
  ASSUME Step, NEW v \in Values, PushParam(v)
  PROVE  Seen
<1>1. /\ running = "native" /\ UNCHANGED <<rib, cpu, nstack, running, last>>
      /\ last.error # "SLEEP"
  BY DEF PushParam
<1>2. CallActs' = CallActs
  BY <1>1, StayActs DEF Stays
<1>3. CallSleeper = Nobody /\ CallSleeper' = Nobody
  BY <1>1 DEF CallSleeper, Nobody
<1> QED
  BY <1>2, <1>3 DEF Seen

LEMMA RefusalSeen ==
  ASSUME Step, NEW b \in BOOLEAN, ExecRefused(b)
  PROVE  Seen
<1>1. running = "native" /\ UNCHANGED <<rib, cpu, nstack, mem, running>>
  BY DEF ExecRefused
<1>2. CallActs' = CallActs
  BY <1>1, StayActs DEF Stays
<1>3. last'.error # "SLEEP"
  BY DEF ExecRefused, EntryError
<1>4. CallSleeper' = Nobody
  BY <1>3 DEF CallSleeper, Nobody
<1>5. Calls!InCaller
  BY <1>1, CallerSees DEF Step
<1> QED
  BY <1>2, <1>4, <1>5 DEF Seen, Calls!Next, Calls!Refuse

-----------------------------------------------------------------------------
(* Calls and returns of functions, and Exec.                                *)

LEMMA SitesNow ==
  ASSUME StackInv, NEW a \in FrmCells(mem)
  PROVE  ReturnSites[a] = Outwards(mem, ReturnSites, a) /\ ReturnSites[a] \in Seq(Sites)
<1>1. Linked(mem)
  BY MemFacts
<1>2. SitesOf(mem)[a] = Outwards(mem, SitesOf(mem), a) /\ SitesOf(mem)[a] \in Seq(Sites)
  BY <1>1, SitesExist, SitesTyped
<1> QED
  BY <1>2, SitesOfMem

LEMMA SitesNext ==
  ASSUME StackInv', NEW a \in FrmCells(mem')
  PROVE  ReturnSites'[a] = Outwards(mem', ReturnSites', a)
<1>1. PICK n : n = mem'
  OBVIOUS
<1>2. Linked(n) /\ a \in FrmCells(n)
  BY <1>1, MemFactsNext
<1>3. SitesOf(n)[a] = Outwards(n, SitesOf(n), a)
  BY <1>2, SitesExist
<1> QED
  BY <1>1, <1>3, SitesOfMemNext

\* The frame of a function that has just been called.
LEMMA NewFrame ==
  ASSUME Step, NEW p \in Int, NEW k \in Nat, NEW s, NEW link, CallsFunction(p, k, s, link)
  PROVE  ReturnSites'[p - 3] = IF s = CallReturn THEN <<>> ELSE <<s>> \o ReturnSites'[link]
<1>1. /\ mem'[p - 3] = Frm(link) /\ mem'[p - 2] = Ret(s) /\ p - 3 >= HLW /\ p + k <= STP
      /\ cpu'.ebp = p - 3
  BY DEF CallsFunction
<1>2. (p - 3) + 1 = p - 2
  OBVIOUS
<1>3. p - 3 \in FrmCells(mem')
  <2>1. DOMAIN mem' = Cell
    BY DEF Step, StackInv, TypeInv, TypeOK, Cell
  <2>2. mem'[p - 3].kind = "frm"
    BY <1>1 DEF Frm
  <2>3. p - 3 \in Cell
    BY <1>1, LayoutAssumption DEF Cell
  <2> QED
    BY <2>1, <2>2, <2>3 DEF FrmCells
<1>4. ReturnSites'[p - 3] = Outwards(mem', ReturnSites', p - 3)
  BY <1>3, SitesNext DEF Step
<1> QED
  BY <1>1, <1>2, <1>4 DEF Outwards, Frm, Ret

LEMMA PublicSeen ==
  ASSUME Step, NEW f \in Functions, ExecPublic(f)
  PROVE  Seen
<1>1. StackInv /\ StackInv' /\ running = "native" /\ running' = "amx"
  BY DEF Step, ExecPublic
<1>2. Enters
  <2>1. rib'.ebp = cpu.esp + 1 /\ rib'.esp = cpu.esp + 2
    BY DEF ExecPublic
  <2>2. nstack' = nstack \o <<ExecFrame(rib), HelperFrame>>
    BY DEF ExecPublic
  <2> QED
    BY <1>1, <2>1, <2>2 DEF Enters
<1>3. CallActs' = Append(CallActs, Runner')
  BY <1>2, EnterActs
<1>4. PICK p \in Int : p = amx.stk /\ amx.paramcount \in Nat
  BY <1>1, Typed
<1>5. CallsFunction(p, amx.paramcount, CallReturn, amx.frm)
  BY <1>1, <1>4, PublicKeeps
<1>6. ReturnSites'[p - 3] = <<>> /\ cpu'.ebp = p - 3
  <2>1. ReturnSites'[p - 3] = <<>>
    BY <1>4, <1>5, NewFrame
  <2> QED
    BY <1>5, <2>1 DEF CallsFunction
<1>7. cpu'.ip = f
  <2>1. cpu \in Registers
    BY <1>1 DEF StackInv, TypeInv, TypeOK, Registers
  <2> QED
    BY <2>1 DEF ExecPublic, Registers
<1>8. Runner' = Calls!At(f, <<>>)
  BY <1>6, <1>7 DEF Runner, Calls!At
<1>9. CallSleeper' = Nobody
  BY <1>1, AwakeFactsNext
<1>10. Calls!InCaller
  BY <1>1, CallerSees
<1>11. Calls!Enter
  BY <1>3, <1>8, <1>9, <1>10 DEF Calls!Enter
<1> QED
  BY <1>11 DEF Seen, Calls!Next

LEMMA ContSeen ==
  ASSUME Step, ExecCont
  PROVE  Seen
<1>1. /\ StackInv /\ StackInv' /\ running = "native" /\ running' = "amx" /\ mem' = mem
      /\ SleepEnabled /\ last.error = "SLEEP"
  BY DEF Step, ExecCont
<1>2. Enters
  BY DEF ExecCont, Enters
<1>3. CallActs' = Append(CallActs, Runner')
  BY <1>2, EnterActs
<1>4. amx.cip \in Sites /\ amx.cip # CallReturn /\ amx.cip # Null
  BY <1>1, WordAssumption DEF StackInv, LayoutInv, SleeperOK
<1>5. cpu'.ip = amx.cip /\ cpu'.ebp = amx.frm
  <2>1. cpu \in Registers
    BY <1>1 DEF StackInv, TypeInv, TypeOK, Registers
  <2> QED
    BY <2>1 DEF ExecCont, Registers
<1>6. CallSleeper = [at |-> amx.cip, back |-> ReturnSites[amx.frm], waits |-> FALSE]
  BY <1>1 DEF CallSleeper
<1>7. Runner' = CallSleeper
  <2>1. ReturnSites' = ReturnSites
    BY <1>1, SitesOfMem, SitesOfMemNext
  <2>2. Runner' = [at |-> amx.cip, back |-> ReturnSites[amx.frm], waits |-> FALSE]
    BY <1>4, <1>5, <2>1 DEF Runner
  <2> QED
    BY <1>6, <2>2
<1>8. CallSleeper # Nobody
  <2>1. CallSleeper.at = amx.cip
    BY <1>6
  <2>2. Nobody.at = Null
    BY DEF Nobody
  <2> QED
    BY <1>4, <2>1, <2>2
<1>9. CallSleeper' = Nobody
  BY <1>1, AwakeFactsNext
<1>10. Calls!InCaller
  BY <1>1, CallerSees
<1>11. Calls!Continue
  BY <1>3, <1>7, <1>8, <1>9, <1>10 DEF Calls!Continue
<1> QED
  BY <1>11 DEF Seen, Calls!Next

LEMMA CallSeen ==
  ASSUME Step, NEW f \in Functions, NEW s \in Sites, NEW n \in 0..MaxParams, OpCall(f, s, n)
  PROVE  Seen
<1>1. /\ StackInv /\ StackInv' /\ Script /\ running = "amx" /\ running' = "amx"
      /\ cpu.ip # CallReturn /\ UNCHANGED <<amx, rib, nstack, running, last>>
  BY DEF Step, OpCall, Script
<1>2. CallActs' = Append(Calls!Below, Runner')
  BY <1>1, StayActs DEF Stays
<1>3. PICK p \in Int, b \in Int : p = cpu.esp /\ b = cpu.ebp
  BY <1>1, Typed
<1>4. CallsFunction(p, n, s, b)
  BY <1>1, <1>3, CallKeepsStack
<1>5. b \in FrmCells(mem) /\ b >= p
  BY <1>1, <1>3, ScriptSees, ScriptRuns
<1>6. \A a \in Cell : a >= p => mem'[a] = mem[a]
  BY <1>4, LayoutAssumption DEF CallsFunction, Pushed, Cell
<1>7. ReturnSites'[b] = ReturnSites[b]
  BY <1>1, <1>5, <1>6, SitesStay
<1>8. s # CallReturn /\ f # CallReturn
  BY WordAssumption
<1>9. ReturnSites'[p - 3] = <<s>> \o ReturnSites[b] /\ cpu'.ebp = p - 3
  <2>1. ReturnSites'[p - 3] = <<s>> \o ReturnSites[b]
    <3>1. n \in Nat
      BY LayoutAssumption
    <3>2. ReturnSites'[p - 3] = IF s = CallReturn THEN <<>> ELSE <<s>> \o ReturnSites'[b]
      BY <1>4, <3>1, NewFrame
    <3> QED
      BY <1>7, <1>8, <3>2
  <2> QED
    BY <1>4, <2>1 DEF CallsFunction
<1>10. cpu'.ip = f
  <2>1. cpu \in Registers
    BY <1>1 DEF StackInv, TypeInv, TypeOK, Registers
  <2> QED
    BY <2>1 DEF OpCall, Registers
<1>11. Calls!InScript /\ Calls!Top = Runner /\ CallSleeper = Nobody
  BY <1>1, ScriptSees
<1>12. Calls!Top.at = cpu.ip /\ Calls!Top.back = ReturnSites[b]
  BY <1>1, <1>3, <1>11 DEF Runner
<1>13. Runner' = Calls!At(f, <<s>> \o Calls!Top.back)
  BY <1>8, <1>9, <1>10, <1>12 DEF Runner, Calls!At
<1>14. CallSleeper' = CallSleeper
  BY <1>1, <1>11, AwakeFactsNext
<1>15. Calls!Call
  BY <1>1, <1>2, <1>11, <1>12, <1>13, <1>14 DEF Calls!Call, Calls!Now
<1> QED
  BY <1>15 DEF Seen, Calls!Next

LEMMA RetnSeen ==
  ASSUME Step, OpRetn
  PROVE  Seen
<1>1. /\ StackInv /\ StackInv' /\ Script /\ running = "amx" /\ running' = "amx"
      /\ cpu.ip # CallReturn /\ UNCHANGED <<rib, nstack, running, last>> /\ cpu.esp = cpu.ebp
  BY DEF Step, OpRetn, Script
<1>2. CallActs' = Append(Calls!Below, Runner')
  BY <1>1, StayActs DEF Stays
<1>3. PICK p \in Int : p = cpu.ebp
  BY <1>1, Typed
<1> DEFINE sp == p + 3 + mem[p + 2].val
<1>4. Returns(p, sp)
  BY <1>1, <1>3, RetnKeeps
<1>5. /\ p \in FrmCells(mem) /\ LinkOK(mem, p) /\ p \in Cell
      /\ mem[p + 1].val \in Sites \cup {CallReturn}
  BY <1>1, <1>3, ScriptSees, ScriptRuns DEF LinkOK, Cell
<1>6. Calls!InScript /\ Calls!Top = Runner /\ CallSleeper = Nobody
  BY <1>1, ScriptSees
<1>7. Calls!Top.at = cpu.ip /\ Calls!Top.back = ReturnSites[p]
  BY <1>1, <1>3, <1>6 DEF Runner
<1>8. ReturnSites[p] = Outwards(mem, ReturnSites, p)
  BY <1>1, <1>5, SitesNow
<1>9. cpu'.ip = mem[p + 1].val /\ cpu'.ebp = mem[p].val
  BY <1>4 DEF Returns
<1>10. CallSleeper' = CallSleeper
  BY <1>1, <1>6, AwakeFactsNext
<1>11. Runner' = IF Calls!Top.back = <<>> THEN Calls!At(CallReturn, <<>>)
                 ELSE Calls!At(Head(Calls!Top.back), Tail(Calls!Top.back))
  <2>1. CASE mem[p + 1].val = CallReturn
    <3>1. Calls!Top.back = <<>>
      BY <1>7, <1>8, <2>1 DEF Outwards
    <3>2. Runner' = Calls!At(CallReturn, <<>>)
      BY <1>9, <2>1 DEF Runner, Calls!At
    <3> QED
      BY <3>1, <3>2
  <2>2. CASE mem[p + 1].val # CallReturn
    <3>1. PICK s \in Sites : s = mem[p + 1].val
      BY <1>5, <2>2
    <3> DEFINE link == mem[p].val
    <3>2. link \in FrmCells(mem) /\ link >= sp /\ sp \in Int
      <4>1. link \in (p + 3 + mem[p + 2].val)..(STP - 1) /\ mem[link].kind = "frm"
            /\ mem[p + 2].val \in Nat /\ DOMAIN mem = Cell
        BY <1>1, <1>5, <2>2, <3>1 DEF LinkOK, StackInv, TypeInv, TypeOK, Cell
      <4>2. PICK v \in Nat : v = mem[p + 2].val
        BY <4>1
      <4> PICK k : k = link
        OBVIOUS
      <4>3. p >= HLW /\ k \in (p + 3 + v)..(STP - 1) /\ sp = p + 3 + v
        BY <1>3, <1>5, <4>1, <4>2, LayoutAssumption DEF Cell
      <4>4. sp \in Int /\ k \in Int /\ k >= HLW /\ k <= STP - 1 /\ k >= sp
        BY <1>3, <4>2, <4>3, LayoutAssumption
      <4>5. k \in Cell
        BY <4>4, LayoutAssumption DEF Cell
      <4> QED
        BY <4>1, <4>2, <4>4, <4>5 DEF FrmCells
    <3>3. PICK rest \in Seq(Sites) : rest = ReturnSites[link]
      BY <1>1, <3>2, SitesNow
    <3>4. Calls!Top.back = <<s>> \o rest
      BY <1>7, <1>8, <2>2, <3>1, <3>3 DEF Outwards
    <3>5. <<s>> \o rest # <<>> /\ Head(<<s>> \o rest) = s /\ Tail(<<s>> \o rest) = rest
      BY OnFront
    <3>6. \A a \in Cell : a >= sp => mem'[a] = mem[a]
      BY <1>4, <3>2, LayoutAssumption DEF Returns, CutAt, Cell
    <3>7. ReturnSites'[link] = rest
      BY <1>1, <3>2, <3>3, <3>6, SitesStay
    <3>8. Runner' = Calls!At(s, rest)
      BY <1>9, <2>2, <3>1, <3>7 DEF Runner, Calls!At
    <3> QED
      BY <3>4, <3>5, <3>8
  <2> QED
    BY <2>1, <2>2
<1>12. Calls!Return
  BY <1>1, <1>2, <1>6, <1>7, <1>10, <1>11 DEF Calls!Return, Calls!Now
<1> QED
  BY <1>12 DEF Seen, Calls!Next

-----------------------------------------------------------------------------
(* Calls of natives, and the ways out of Exec.                              *)

LEMMA SysreqSeen ==
  ASSUME Step, NEW s \in Sites, OpSysreq(s)
  PROVE  Seen
<1>1. /\ StackInv /\ StackInv' /\ NativeInv /\ running = "amx" /\ running' = "native"
      /\ cpu.ip # CallReturn /\ mem' = mem /\ last' = last
      /\ nstack' = Append(SubSeq(nstack, 1, rib.esp), NativeFrame)
      /\ rib' = [rib EXCEPT !.amx_esp = cpu.esp, !.amx_ebp = cpu.ebp]
      /\ cpu' = [cpu EXCEPT !.eax = Garbage, !.ecx = Garbage, !.esi = s, !.edi = cpu.esp,
                            !.esp = rib.esp + 1, !.ebp = rib.ebp, !.ip = Null]
  BY DEF Step, StackInv, OpSysreq, Script
<1>2. /\ rib \in [ebp : Nat, esp : Nat, amx_ebp : Word, amx_esp : Word, reset_ebp : Word,
                  reset_esp : Word, reset_stk : Word, reset_hea : Word]
      /\ cpu \in Registers
  BY <1>1 DEF StackInv, TypeInv, TypeOK, Registers
<1>3. cpu'.esi = s /\ cpu'.esp = rib.esp + 1 /\ cpu'.ebp = rib.ebp
  BY <1>1, <1>2 DEF Registers
<1>4. CallsNative
  <2>1. rib'.ebp = rib.ebp /\ rib'.esp = rib.esp
        /\ rib'.reset_stk = rib.reset_stk /\ rib'.reset_ebp = rib.reset_ebp
        /\ rib'.reset_esp = rib.reset_esp /\ rib'.reset_hea = rib.reset_hea
    BY <1>1, <1>2
  <2> QED
    BY <1>1, <1>3, <2>1 DEF CallsNative
<1>5. CallActs' = Append(Calls!Below, Waiter')
  BY <1>4, CallActsStep
<1>6. Calls!InScript /\ Calls!Top = Runner /\ CallSleeper = Nobody
  BY <1>1, ScriptSees
<1>7. Calls!Top.at = cpu.ip /\ Calls!Top.back = ReturnSites[cpu.ebp]
  BY <1>1, <1>6 DEF Runner
<1>8. nstack'[Len(nstack')].amx_ebp = cpu.ebp
  <2>1. PICK n \in Nat : Len(nstack') = n + 1 /\ nstack'[n + 1] = NativeFrame
    BY <1>1, <1>4, CallFrames
  <2>2. nstack'[Len(nstack')] = NativeFrame
    BY <2>1
  <2> QED
    BY <2>2 DEF NativeFrame
<1>9. Waiter' = [at |-> s, back |-> Calls!Top.back, waits |-> TRUE]
  <2>1. ReturnSites' = ReturnSites
    BY <1>1, SitesOfMem, SitesOfMemNext
  <2> QED
    BY <1>3, <1>7, <1>8, <2>1 DEF Waiter
<1>10. CallSleeper' = Nobody
  <2>1. ~(SleepEnabled /\ last.error = "SLEEP")
    BY <1>1 DEF StackInv, LayoutInv, SleeperOK
  <2> QED
    BY <1>1, <2>1 DEF CallSleeper
<1>11. Calls!CallNative
  BY <1>1, <1>5, <1>6, <1>7, <1>9, <1>10 DEF Calls!CallNative, Calls!Now
<1> QED
  BY <1>11 DEF Seen, Calls!Next

\* The script that waits for the native that runs.
LEMMA WaiterSees ==
  ASSUME StackInv, running = "native", nstack # <<>>
  PROVE  /\ CallActs # <<>> /\ Calls!Top = Waiter
         /\ cpu.esp \in Waiting /\ cpu.esp = Len(nstack)
         /\ cpu.esi \in Sites /\ cpu.esi # CallReturn
<1>1. CallActs # <<>> /\ Calls!Top = Waiter
  BY CallerSees
<1>2. cpu.esp = Len(nstack)
  BY DEF StackInv, NativeInv, NativeStackOK, CallerEbpOK
<1>3. Len(nstack) \in Waiting
  <2>1. nstack[Len(nstack)].kind = "native"
    BY DEF StackInv, NativeInv, NativeStackOK, TopOK
  <2>2. Len(nstack) \in DOMAIN nstack
    BY PileShape DEF StackInv
  <2> QED
    BY <2>1, <2>2 DEF Waiting
<1>4. cpu.esi \in Sites /\ cpu.esi # CallReturn
  BY CallerRuns, WordAssumption
<1> QED
  BY <1>1, <1>2, <1>3, <1>4

\* Its calls are not touched when the stack below it is cut off.
LEMMA WaiterKept ==
  ASSUME StackInv, StackInv', running = "native", nstack # <<>>,
         mem' = Popped(mem, HLW, nstack[cpu.esp].amx_esp)
  PROVE  ReturnSites'[nstack[cpu.esp].amx_ebp] = ReturnSites[nstack[cpu.esp].amx_ebp]
<1> PICK b : b = nstack[cpu.esp].amx_ebp
  OBVIOUS
<1>1. PICK t \in Int : t = nstack[cpu.esp].amx_esp /\ b = nstack[cpu.esp].amx_ebp
  BY WaiterSees, WaiterFrame
<1>2. b \in FrmCells(mem) /\ b >= t
  BY <1>1, WaiterSees, WaiterFrame
<1>3. \A a \in Cell : a >= t => mem'[a] = mem[a]
  <2>1. mem' = Popped(mem, HLW, t) /\ DOMAIN mem = Cell
    BY <1>1 DEF StackInv, TypeInv, TypeOK, Cell
  <2> QED
    BY <2>1, LayoutAssumption DEF Popped, Cell
<1> QED
  BY <1>1, <1>2, <1>3, SitesStay

LEMMA ResumeSeen ==
  ASSUME Step, InNative, NEW eax \in Word, ResumeScript(eax)
  PROVE  Seen
<1>1. /\ StackInv /\ StackInv' /\ running = "native" /\ running' = "amx" /\ nstack # <<>>
      /\ nstack' = SubSeq(nstack, 1, cpu.esp - 1) /\ rib' = rib
      /\ mem' = Popped(mem, HLW, nstack[cpu.esp].amx_esp)
      /\ cpu' = [eax |-> eax, ecx |-> nstack[cpu.esp].alt, esi |-> Garbage, edi |-> Garbage,
                 esp |-> nstack[cpu.esp].amx_esp, ebp |-> nstack[cpu.esp].amx_ebp,
                 ip |-> cpu.esi]
  BY DEF Step, InNative, ResumeScript
<1>2. Resumes
  BY <1>1 DEF Resumes
<1>3. CallActs' = Append(Calls!Below, Runner')
  BY <1>2, ResumeActs
<1>4. /\ CallActs # <<>> /\ Calls!Top = Waiter
      /\ cpu.esp = Len(nstack) /\ cpu.esi # CallReturn
  BY <1>1, WaiterSees
<1>5. PICK b : b = nstack[cpu.esp].amx_ebp
  OBVIOUS
<1>6. ReturnSites'[b] = ReturnSites[b]
  BY <1>1, <1>5, WaiterKept
<1>7. Calls!Top.at = cpu.esi /\ Calls!Top.back = ReturnSites[b] /\ Calls!Top.waits
  BY <1>4, <1>5 DEF Waiter
<1>8. cpu'.ip = cpu.esi /\ cpu'.ebp = b
  BY <1>1, <1>5
<1>9. Runner' = Calls!At(Calls!Top.at, Calls!Top.back)
  BY <1>4, <1>6, <1>7, <1>8 DEF Runner, Calls!At
<1>10. CallSleeper' = Nobody
  BY <1>1, AwakeFactsNext
<1>11. Calls!NativeReturn
  BY <1>3, <1>4, <1>7, <1>9, <1>10 DEF Calls!NativeReturn, Calls!Now
<1> QED
  BY <1>11 DEF Seen, Calls!Next

\* What LeaveExec leaves in amx and tells its caller.
LEMMA LeaveWords ==
  ASSUME StackInv, nstack # <<>>, NEW a \in AMXStates, NEW eax \in Word, LeaveExec(a, eax)
  PROVE  /\ LeavesScript /\ last'.error = a.error
         /\ amx'.cip = a.cip /\ amx'.frm = a.frm
<1>1. LeavesScript
  BY DEF LeaveExec, LeavesScript
<1>2. amx' = [a EXCEPT !.error = "NONE"] /\ last' = [error |-> a.error, retval |-> eax]
  BY DEF LeaveExec
<1>3. last'.error = a.error
  BY <1>2
<1>4. amx'.cip = a.cip /\ amx'.frm = a.frm
  BY <1>2 DEF AMXStates
<1> QED
  BY <1>1, <1>3, <1>4

LEMMA HaltSeen ==
  ASSUME Step, NEW error \in HaltErrors, NEW s \in Sites, OpHalt(error, s)
  PROVE  Seen
<1> DEFINE halted == [amx EXCEPT !.error = error, !.pri = cpu.eax, !.alt = cpu.ecx,
                                 !.frm = cpu.ebp, !.stk = cpu.esp]
           asleep == [[halted EXCEPT !.cip = s] EXCEPT !.reset_stk = rib.reset_stk,
                                                       !.reset_hea = rib.reset_hea]
           sleeps == SleepEnabled /\ error = "SLEEP"
<1>1. StackInv /\ StackInv' /\ Script /\ running = "amx" /\ cpu.ip # CallReturn
      /\ mem' = mem /\ nstack # <<>>
  BY DEF Step, OpHalt, Script, StackInv, NativeInv, NativeStackOK, TopOK
<1>2. IF sleeps THEN LeaveExec(asleep, s) ELSE LeaveExec(halted, cpu.eax)
  BY DEF OpHalt, HaltHelper, SleepSave
<1>3. /\ cpu.esp \in HLW..STP /\ cpu.ebp \in HLW..STP
      /\ cpu.eax \in Word /\ cpu.ecx \in Word /\ amx \in AMXStates
      /\ rib.reset_stk \in Word /\ rib.reset_hea \in Word
      /\ error \in ErrorCodes /\ s \in Word
  BY <1>1, Typed, Words DEF StackInv, TypeInv, TypeOK, AMXStates, ErrorCodes
<1>4. halted \in AMXStates /\ halted.frm = cpu.ebp /\ halted.error = error
  BY <1>3 DEF AMXStates
<1> HIDE DEF halted
<1>5. asleep \in AMXStates /\ asleep.frm = cpu.ebp /\ asleep.error = error /\ asleep.cip = s
  BY <1>3, <1>4 DEF AMXStates
<1> HIDE DEF asleep
<1>6. PICK a \in AMXStates, eax \in Word :
        LeaveExec(a, eax) /\ a.frm = cpu.ebp /\ a.error = error /\ (sleeps => a.cip = s)
  BY <1>2, <1>3, <1>4, <1>5
<1>7. LeavesScript /\ last'.error = error /\ amx'.frm = cpu.ebp /\ (sleeps => amx'.cip = s)
  BY <1>1, <1>6, LeaveWords
<1>8. CallActs # <<>> /\ CallActs' = Calls!Below
  BY <1>7, LeaveActs
<1>9. Calls!Top = Runner
  BY <1>1, ScriptSees
<1>10. Calls!Top.at = cpu.ip /\ Calls!Top.back = ReturnSites[cpu.ebp] /\ ~Calls!Top.waits
  BY <1>1, <1>9 DEF Runner
<1>11. CASE sleeps
  <2>1. ReturnSites' = ReturnSites
    BY <1>1, SitesOfMem, SitesOfMemNext
  <2>2. CallSleeper' = Calls!At(s, Calls!Top.back)
    BY <1>7, <1>10, <1>11, <2>1 DEF CallSleeper, Calls!At
  <2>3. Calls!Sleep
    BY <1>1, <1>8, <1>10, <2>2 DEF Calls!Sleep
  <2> QED
    BY <2>3 DEF Seen, Calls!Next
<1>12. CASE ~sleeps
  <2>1. CallSleeper' = Nobody
    BY <1>7, <1>12 DEF CallSleeper, Nobody
  <2>2. Calls!Abort
    BY <1>1, <1>8, <1>10, <2>1 DEF Calls!Abort
  <2> QED
    BY <2>2 DEF Seen, Calls!Next
<1> QED
  BY <1>11, <1>12

LEMMA ErrorSeen ==
  ASSUME Step, SleepEnabled => ~SleepAfterExec,
         NEW error \in HaltErrors, NEW v \in Values, NativeError(error, v)
  PROVE  Seen
<1> DEFINE native == nstack[cpu.esp]
           raised == [amx EXCEPT !.error = error]
           asleep == [[raised EXCEPT !.pri = v, !.alt = native.alt]
                        EXCEPT !.reset_stk = rib.reset_stk, !.reset_hea = rib.reset_hea]
           halted == [raised EXCEPT !.error = error, !.pri = v, !.alt = native.alt,
                                    !.frm = native.amx_ebp, !.stk = native.amx_esp]
           sleeps == SleepEnabled /\ error = "SLEEP"
<1>1. /\ StackInv /\ StackInv' /\ running = "native" /\ nstack # <<>>
      /\ mem' = Popped(mem, HLW, native.amx_esp)
      /\ (error = "SLEEP" => SleepAfterExec \/ last = NoResult)
  BY DEF Step, NativeError, InNative
<1>2. IF sleeps THEN LeaveExec(asleep, v) ELSE LeaveExec(halted, v)
  BY DEF NativeError, HaltHelper, SleepSave
<1>3. /\ CallActs # <<>> /\ Calls!Top = Waiter /\ cpu.esp \in Waiting
      /\ cpu.esi \in Sites /\ cpu.esi # CallReturn /\ cpu.esp = Len(nstack)
  BY <1>1, WaiterSees
<1>4. sleeps => amx.frm = native.amx_ebp /\ amx.cip = cpu.esi
  <2> HAVE sleeps
  <2>1. last = NoResult
    BY <1>1
  <2> QED
    BY <1>1, <1>3, <2>1 DEF StackInv, LayoutInv, Captured
<1>5. /\ native.amx_esp \in HLW..STP /\ native.amx_ebp \in HLW..STP /\ native.alt \in Word
      /\ v \in Word /\ error \in ErrorCodes /\ amx \in AMXStates
      /\ rib.reset_stk \in Word /\ rib.reset_hea \in Word
  <2>1. native.amx_esp \in HLW..STP /\ native.amx_ebp \in HLW..STP
    BY <1>1, <1>3, Typed DEF Cell
  <2>2. native.alt \in Word
    BY <1>1, <1>3 DEF StackInv, TypeInv, FrameTypes, Waiting
  <2> QED
    BY <1>1, <2>1, <2>2, Words DEF StackInv, TypeInv, TypeOK, AMXStates, ErrorCodes
<1> HIDE DEF native
<1>6. /\ asleep \in AMXStates /\ asleep.frm = amx.frm
      /\ asleep.cip = amx.cip /\ asleep.error = error
  BY <1>5 DEF AMXStates
<1>7. halted \in AMXStates /\ halted.error = error
  BY <1>5 DEF AMXStates
<1> HIDE DEF halted, asleep
<1>8. PICK a \in AMXStates :
        /\ LeaveExec(a, v) /\ a.error = error
        /\ (sleeps => a.frm = native.amx_ebp /\ a.cip = cpu.esi)
  BY <1>2, <1>4, <1>6, <1>7
<1>9. /\ LeavesScript /\ last'.error = error
      /\ (sleeps => amx'.frm = native.amx_ebp /\ amx'.cip = cpu.esi)
  BY <1>1, <1>5, <1>8, LeaveWords
<1>10. CallActs' = Calls!Below
  BY <1>9, LeaveActs
<1>11. PICK b : b = native.amx_ebp
  OBVIOUS
<1>12. Calls!Top.at = cpu.esi /\ Calls!Top.back = ReturnSites[b] /\ Calls!Top.waits
  BY <1>3, <1>11 DEF Waiter, native
<1>13. CASE sleeps
  <2>1. ReturnSites'[b] = ReturnSites[b]
    BY <1>1, <1>11, WaiterKept DEF native
  <2>2. CallSleeper' = Calls!At(Calls!Top.at, Calls!Top.back)
    BY <1>9, <1>11, <1>12, <1>13, <2>1 DEF CallSleeper, Calls!At
  <2>3. Calls!Sleep
    BY <1>3, <1>10, <1>12, <2>2 DEF Calls!Sleep
  <2> QED
    BY <2>3 DEF Seen, Calls!Next
<1>14. CASE ~sleeps
  <2>1. CallSleeper' = Nobody
    BY <1>9, <1>14 DEF CallSleeper, Nobody
  <2>2. Calls!Abort
    BY <1>3, <1>10, <1>12, <2>1 DEF Calls!Abort
  <2> QED
    BY <2>2 DEF Seen, Calls!Next
<1> QED
  BY <1>13, <1>14

LEMMA FinishSeen ==
  ASSUME Step, ReturnToExec
  PROVE  Seen
<1> DEFINE synced == [amx EXCEPT !.pri = cpu.eax, !.alt = cpu.ecx,
                                 !.frm = cpu.ebp, !.stk = cpu.esp]
           a == IF SleepEnabled /\ amx.error # "SLEEP" THEN amx ELSE synced
<1>1. /\ StackInv /\ StackInv' /\ running = "amx" /\ cpu.ip = CallReturn
      /\ LeaveExec(a, cpu.eax) /\ nstack # <<>>
  BY DEF Step, ReturnToExec, StackInv, NativeInv, NativeStackOK, TopOK
<1>2. /\ amx.error = "NONE" /\ cpu.esp \in HLW..STP /\ cpu.ebp \in HLW..STP
      /\ cpu.eax \in Word /\ cpu.ecx \in Word /\ amx \in AMXStates
  BY <1>1 DEF StackInv, TypeInv, TypeOK, LayoutInv, RegistersOK, SP, AMXStates
<1>3. a \in AMXStates /\ a.error = "NONE"
  <2>1. synced \in AMXStates /\ synced.error = "NONE"
    BY <1>2 DEF AMXStates
  <2> QED
    BY <1>2, <2>1
<1> HIDE DEF a
<1>4. LeavesScript /\ last'.error = "NONE"
  BY <1>1, <1>2, <1>3, LeaveWords
<1>5. CallActs # <<>> /\ CallActs' = Calls!Below
  BY <1>4, LeaveActs
<1>6. Calls!InScript /\ Calls!Top = Runner /\ CallSleeper = Nobody
  BY <1>1, ScriptSees
<1>7. CallSleeper' = Nobody
  BY <1>4 DEF CallSleeper
<1>8. Calls!Top.at = CallReturn
  BY <1>1, <1>6 DEF Runner
<1>9. Calls!Finish
  BY <1>5, <1>6, <1>7, <1>8 DEF Calls!Finish
<1> QED
  BY <1>9 DEF Seen, Calls!Next

-----------------------------------------------------------------------------
(* The refinement.                                                          *)

LEMMA StutterSeen ==
  ASSUME Step, UNCHANGED vars
  PROVE  Seen
<1>1. UNCHANGED <<amx, rib, cpu, nstack, mem, running, last>>
  BY DEF vars
<1>2. ReturnSites' = ReturnSites
  BY <1>1, SitesOfMem, SitesOfMemNext
<1>3. CallActs' = CallActs
  BY <1>1, <1>2 DEF CallActs, Activation, ReturnSite, Depth
<1>4. CallSleeper' = CallSleeper
  BY <1>1, <1>2 DEF CallSleeper, Nobody
<1> QED
  BY <1>3, <1>4 DEF Seen

LEMMA InstructionSeen ==
  ASSUME Step, Instruction
  PROVE  Seen
<1>0. StackInv
  BY DEF Step
<1>1. CASE \/ \E v \in Values : OpConst(v)
           \/ OpPushPri \/ OpPopPri
           \/ \E n \in {-1, 1}, v \in Values : OpStack(n, v)
           \/ \E n \in {-1, 1}, v \in Values : OpHeap(n, v)
  <2>1. PICK t \in Int : Works(t)
    BY <1>0, <1>1, ConstKeeps, PushPriKeeps, PopPriKeeps, StackKeeps, HeapKeeps
  <2> QED
    BY <2>1, WorkSeen
<1>2. CASE \E f \in Functions, s \in Sites, n \in 0..MaxParams : OpCall(f, s, n)
  BY <1>2, CallSeen
<1>3. CASE OpRetn
  BY <1>3, RetnSeen
<1>4. CASE \E error \in HaltErrors, s \in Sites : OpHalt(error, s)
  BY <1>4, HaltSeen
<1>5. CASE \E s \in Sites : OpSysreq(s)
  BY <1>5, SysreqSeen
<1> QED
  BY <1>1, <1>2, <1>3, <1>4, <1>5 DEF Instruction

LEMMA NextSeen ==
  ASSUME StackInv, [Next]_vars, SleepEnabled => ~SleepAfterExec
  PROVE  Seen
<1>1. Step
  <2>1. StackInv' /\ Untouched
    BY StackStep, NativeInvStep DEF StackInv
  <2>2. SuspendedStep
    BY StepKinds, SuspendedOnEnter, SuspendedOnCall, SuspendedOnResume,
       SuspendedOnLeave, SuspendedOnStay DEF StackInv
  <2> QED
    BY <2>1, <2>2 DEF Step
<1>2. CASE UNCHANGED vars
  BY <1>1, <1>2, StutterSeen
<1>3. CASE Caller
  BY <1>1, <1>3, RegisterSeen, ParamSeen, RefusalSeen, PublicSeen, ContSeen DEF Caller
<1>4. CASE Instruction
  BY <1>1, <1>4, InstructionSeen
<1>5. CASE Native
  <2>1. CASE \E v \in Values : SysreqCReturn(v) \/ SysreqDReturn(v)
    <3>1. PICK v \in Values : SysreqCReturn(v) \/ SysreqDReturn(v)
      BY <2>1
    <3>2. InNative /\ \E eax \in {v, Garbage} : ResumeScript(eax)
      BY <3>1 DEF SysreqCReturn, SysreqDReturn
    <3>3. v \in Word /\ Garbage \in Word
      BY DEF Word
    <3> QED
      BY <1>1, <3>2, <3>3, ResumeSeen
  <2>2. CASE \E error \in HaltErrors, v \in Values : NativeError(error, v)
    BY <1>1, <2>2, ErrorSeen
  <2> QED
    BY <1>5, <2>1, <2>2 DEF Native
<1>6. CASE ReturnToExec
  BY <1>1, <1>6, FinishSeen
<1> QED
  BY <1>2, <1>3, <1>4, <1>5, <1>6 DEF Next

LEMMA NobodyCalls == Init => Calls!Init
<1> SUFFICES ASSUME Init PROVE Calls!Init
  OBVIOUS
<1>1. CallActs = <<>>
  <2>1. nstack = <<>> /\ (Len(nstack) + 1) \div 3 = 0
    BY DEF Init
  <2> QED
    BY <2>1 DEF CallActs, Depth
<1>2. CallSleeper = Nobody
  <2>1. last.error # "SLEEP"
    BY WordAssumption DEF Init, NoResult
  <2> QED
    BY <2>1 DEF CallSleeper
<1> QED
  BY <1>1, <1>2 DEF Calls!Init

\* Every execution of the compiled code, seen by the return addresses that RETN,
\* the sysreq helpers and AMX_EXEC_CONT will use, is one of ScriptCalls: calls
\* return to where they were, natives to their caller, a halt ends one amx_Exec,
\* and a script that slept goes on with all its calls.
THEOREM CallsNested ==
  ASSUME SleepEnabled => ~SleepAfterExec
  PROVE  Spec => CallsNest
<1>1. StackInv /\ [Next]_vars => [Calls!Next]_<<CallActs, CallSleeper>>
  BY NextSeen DEF Seen
<1>2. Init => Calls!Init
  BY NobodyCalls
<1> QED
  BY <1>1, <1>2, StackInvariant, PTL DEF Spec, CallsNest, Calls!Spec, Calls!callVars
==============================================================================
