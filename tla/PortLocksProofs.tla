---------------------------- MODULE PortLocksProofs ----------------------------
(***************************************************************************)
(* Proofs about PortLocks for every value of its constants: any number of  *)
(* processes and ports, any dependencies, actions nested to any depth,     *)
(* leaked locks and killed processes.                                      *)
(*                                                                         *)
(* The invariant is about one process at a time: what its count, its stack *)
(* of frames and the locks that it has or waits for say about each other.  *)
(***************************************************************************)
EXTENDS PortLocks, FiniteSetTheorems, SequenceTheorems, TLAPS

-------------------------------------------------------------------------------
(* Stacks *)

OpenIn(s, kind) == {i \in 1..Len(s) : s[i].kind = kind}

\* What Open counts is finite.
LEMMA OpenFinite ==
  ASSUME NEW s \in Seq(Frame), NEW kind
  PROVE  /\ IsFiniteSet(OpenIn(s, kind))
         /\ Cardinality(OpenIn(s, kind)) \in Nat
  <1>1. IsFiniteSet(1..Len(s))
    BY FS_Interval, LenProperties
  <1>2. OpenIn(s, kind) \in SUBSET (1..Len(s))
    BY DEF OpenIn
  <1> QED BY <1>1, <1>2, FS_Subset, FS_CardinalityType

\* A pushed frame is on top of the old ones and counts as one of its kind.
LEMMA PushFrame ==
  ASSUME NEW s \in Seq(Frame), NEW f \in Frame, NEW kind
  PROVE  LET t == Append(s, f) IN
         /\ t \in Seq(Frame)
         /\ Len(t) = Len(s) + 1
         /\ Len(s) \in Nat
         /\ t[Len(t)] = f
         /\ \A i \in 1..Len(s) : t[i] = s[i]
         /\ Cardinality(OpenIn(t, kind)) =
              Cardinality(OpenIn(s, kind)) + (IF f.kind = kind THEN 1 ELSE 0)
  <1> DEFINE t == Append(s, f)
             n == Len(s)
  <1>1. /\ t \in Seq(Frame)
        /\ Len(t) = n + 1
        /\ n \in Nat
        /\ t[Len(t)] = f
        /\ \A i \in 1..n : t[i] = s[i]
    BY AppendProperties, LenProperties
  <1>2. n + 1 \notin OpenIn(s, kind)
    BY <1>1 DEF OpenIn
  <1>3. CASE f.kind = kind
    <2>1. OpenIn(t, kind) = OpenIn(s, kind) \cup {n + 1}
      BY <1>1, <1>3 DEF OpenIn
    <2> QED BY <1>1, <1>2, <1>3, <2>1, OpenFinite, FS_AddElement
  <1>4. CASE f.kind # kind
    <2>1. OpenIn(t, kind) = OpenIn(s, kind)
      BY <1>1, <1>4 DEF OpenIn
    <2> QED BY <1>1, <1>4, <2>1, OpenFinite
  <1> QED BY <1>3, <1>4

\* Without its top frame, the rest of a stack is as it was.
LEMMA PopFrame ==
  ASSUME NEW s \in Seq(Frame), Len(s) > 0, NEW kind
  PROVE  LET t == SubSeq(s, 1, Len(s) - 1) IN
         /\ t \in Seq(Frame)
         /\ Len(t) = Len(s) - 1
         /\ Len(s) \in Nat
         /\ s[Len(s)] \in Frame
         /\ \A i \in 1..Len(t) : t[i] = s[i]
         /\ Cardinality(OpenIn(s, kind)) =
              Cardinality(OpenIn(t, kind)) + (IF s[Len(s)].kind = kind THEN 1 ELSE 0)
  <1> DEFINE n == Len(s)
             t == SubSeq(s, 1, n - 1)
             f == s[n]
  <1>1. n \in Nat \ {0} /\ n \in 1..n
    BY LenProperties
  <1>2. f \in Frame /\ \A i \in 1..(n - 1) : s[i] \in Frame
    BY <1>1, ElementOfSeq
  <1>3. /\ t \in Seq(Frame)
        /\ Len(t) = n - 1
        /\ \A i \in 1..Len(t) : t[i] = s[i]
    <2>1. 1 \in Int /\ n - 1 \in Int /\ \A i \in 1..(n - 1) : s[i] \in Frame
      BY <1>1, <1>2
    <2> DEFINE m == n - 1
    <2>2. m \in Int /\ \A i \in 1..m : s[i] \in Frame
      BY <2>1
    <2>3. m \in Nat /\ m = n - 1
      BY <1>1
    <2> HIDE DEF m, n
    <2>4. /\ SubSeq(s, 1, m) \in Seq(Frame)
          /\ Len(SubSeq(s, 1, m)) = IF 1 <= m THEN m - 1 + 1 ELSE 0
          /\ \A i \in 1..(m - 1 + 1) : SubSeq(s, 1, m)[i] = s[1 + i - 1]
      BY <2>1, <2>2, SubSeqProperties
    <2>5. /\ Len(SubSeq(s, 1, m)) = m
          /\ \A i \in 1..m : SubSeq(s, 1, m)[i] = s[i]
      BY <2>3, <2>4
    <2> QED BY <2>4, <2>5 DEF m
  <1>4. n \notin OpenIn(t, kind)
    BY <1>1, <1>3 DEF OpenIn
  <1>5. CASE f.kind = kind
    <2>1. OpenIn(s, kind) = OpenIn(t, kind) \cup {n}
      BY <1>1, <1>3, <1>5 DEF OpenIn
    <2> QED BY <1>1, <1>2, <1>3, <1>4, <1>5, <2>1, OpenFinite, FS_AddElement
  <1>6. CASE f.kind # kind
    <2>1. OpenIn(s, kind) = OpenIn(t, kind)
      BY <1>1, <1>3, <1>6 DEF OpenIn
    <2> QED BY <1>1, <1>2, <1>3, <1>6, <2>1, OpenFinite
  <1> QED BY <1>5, <1>6

-------------------------------------------------------------------------------
(* The invariant *)

Sections(p) == Cardinality(OpenIn(stack[p], "section"))

\* The process's part of CountIsTrue.
Counted(p) ==
  /\ holder[Registry] = p \/ waits[p] = Registry <=> nlocked[p] > 0
  /\ nlocked[p] >= Sections(p) + (IF locked[p] THEN 1 ELSE 0)

\* An action is the outermost frame and a target the innermost one.
Shaped(p) ==
  /\ pc[p] = "prompt" <=> Len(stack[p]) = 0
  /\ pc[p] = "prompt" => waits[p] = NoFile /\ ~locked[p]
  /\ pc[p] = "parse" => Len(stack[p]) = 1
  /\ \A i \in 1..Len(stack[p]) :
       /\ i = 1 <=> stack[p][i].kind = "action"
       /\ stack[p][i].kind = "target" => i = Len(stack[p])

\* A process waits for the lock that its innermost frame needs.
WaitsForTop(p) ==
  /\ waits[p] = Registry => Top(p).kind \in {"action", "section"}
  /\ waits[p] \in Port => Top(p).kind \in {"target", "mpkg"} /\ Top(p).port = waits[p]

\* The state files that a process has locked are those of its targets.
HoldsOpen(p) ==
  \A q \in Port : holder[q] = p =>
    \E i \in 1..Len(stack[p]) :
      stack[p][i].kind \in {"target", "mpkg"} /\ stack[p][i].port = q

\* Except for the mpkg target, a process never waits for itself.
NotSelf(p) ==
  waits[p] # NoFile /\ holder[waits[p]] = p =>
    waits[p] # Registry /\ OpenIn(stack[p], "mpkg") # {}

PInv(p) == Counted(p) /\ Shaped(p) /\ WaitsForTop(p) /\ HoldsOpen(p) /\ NotSelf(p)

IInv == TypeOK /\ \A p \in Proc : PInv(p)

\* Everything that a step of p leaves to the other processes.
Others(p) ==
  \A r \in Proc \ {p} :
    /\ waits'[r] = waits[r] /\ nlocked'[r] = nlocked[r] /\ locked'[r] = locked[r]
    /\ pc'[r] = pc[r] /\ stack'[r] = stack[r]
    /\ \A l \in LockFile : holder'[l] = r <=> holder[l] = r

\* The invariant of a process is kept by the steps of the others.
LEMMA OthersKeep ==
  ASSUME NEW p \in Proc, Others(p), NEW r \in Proc \ {p}, TypeOK, PInv(r)
  PROVE  PInv(r)'
  <1>1. /\ waits'[r] = waits[r] /\ nlocked'[r] = nlocked[r]
        /\ locked'[r] = locked[r] /\ pc'[r] = pc[r] /\ stack'[r] = stack[r]
        /\ \A l \in LockFile : holder'[l] = r <=> holder[l] = r
    BY DEF Others
  <1>2. waits[r] \in LockFile \cup {NoFile} /\ Registry \in LockFile
    BY DEF TypeOK, LockFile
  <1>3. Sections(r)' = Sections(r)
    BY <1>1 DEF Sections
  <1>4. Counted(r)'
    BY <1>1, <1>2, <1>3 DEF PInv, Counted
  <1>5. Shaped(r)'
    BY <1>1 DEF PInv, Shaped
  <1>6. WaitsForTop(r)'
    BY <1>1 DEF PInv, WaitsForTop, Top
  <1>7. HoldsOpen(r)'
    BY <1>1 DEF PInv, HoldsOpen, LockFile
  <1>8. NotSelf(r)'
    BY <1>1, <1>2 DEF PInv, NotSelf
  <1> QED BY <1>4, <1>5, <1>6, <1>7, <1>8 DEF PInv

\* What is known of a process that runs: it has an innermost frame.
LEMMA Running ==
  ASSUME TypeOK, NEW p \in Proc, Shaped(p)
  PROVE  /\ stack[p] \in Seq(Frame)
         /\ Len(stack[p]) \in Nat
         /\ Sections(p) \in Nat
         /\ pc[p] # "prompt" => Len(stack[p]) > 0 /\ Top(p) \in Frame
  <1>1. stack[p] \in Seq(Frame)
    BY DEF TypeOK
  <1>2. Len(stack[p]) \in Nat /\ Sections(p) \in Nat
    BY <1>1, OpenFinite, LenProperties DEF Sections
  <1>3. ASSUME pc[p] # "prompt"
        PROVE  Len(stack[p]) > 0 /\ Top(p) \in Frame
    <2>1. Len(stack[p]) > 0
      BY <1>2, <1>3 DEF Shaped
    <2> QED BY <1>1, <1>2, <2>1, ElementOfSeq DEF Top
  <1> QED BY <1>1, <1>2, <1>3

\* A frame entered by a process.
LEMMA Pushed ==
  ASSUME TypeOK, NEW p \in Proc, NEW q \in Port,
         NEW k \in {"action", "section", "target", "mpkg"}, Push(p, k, q)
  PROVE  /\ stack' \in [Proc -> Seq(Frame)]
         /\ \A r \in Proc \ {p} : stack'[r] = stack[r]
         /\ Len(stack[p]) \in Nat
         /\ Len(stack'[p]) = Len(stack[p]) + 1
         /\ Top(p)' = [kind |-> k, port |-> q]
         /\ \A i \in 1..Len(stack[p]) : stack'[p][i] = stack[p][i]
         /\ Sections(p)' = Sections(p) + (IF k = "section" THEN 1 ELSE 0)
  <1> DEFINE s == stack[p]
             f == [kind |-> k, port |-> q]
             t == Append(s, f)
  <1>1. s \in Seq(Frame) /\ f \in Frame
    BY DEF TypeOK, Frame
  <1>2. /\ t \in Seq(Frame)
        /\ Len(t) = Len(s) + 1
        /\ Len(s) \in Nat
        /\ t[Len(t)] = f
        /\ \A i \in 1..Len(s) : t[i] = s[i]
        /\ Cardinality(OpenIn(t, "section")) =
             Cardinality(OpenIn(s, "section")) + (IF f.kind = "section" THEN 1 ELSE 0)
    BY <1>1, PushFrame
  <1> HIDE DEF t
  <1>3. /\ stack' = [stack EXCEPT ![p] = t]
        /\ stack \in [Proc -> Seq(Frame)]
    BY DEF Push, TypeOK, t
  <1>4. stack'[p] = t
    BY <1>3
  <1> QED BY <1>2, <1>3, <1>4 DEF Top, Sections

\* A frame left by a process.
LEMMA Popped ==
  ASSUME TypeOK, NEW p \in Proc, Len(stack[p]) > 0, Pop(p)
  PROVE  /\ stack' \in [Proc -> Seq(Frame)]
         /\ \A r \in Proc \ {p} : stack'[r] = stack[r]
         /\ Len(stack[p]) \in Nat
         /\ Len(stack'[p]) = Len(stack[p]) - 1
         /\ \A i \in 1..Len(stack'[p]) : stack'[p][i] = stack[p][i]
         /\ Sections(p)' \in Nat
         /\ Sections(p) = Sections(p)' + (IF Top(p).kind = "section" THEN 1 ELSE 0)
  <1> DEFINE s == stack[p]
             t == SubSeq(s, 1, Len(s) - 1)
  <1>1. s \in Seq(Frame)
    BY DEF TypeOK
  <1>2. /\ t \in Seq(Frame)
        /\ Len(t) = Len(s) - 1
        /\ Len(s) \in Nat
        /\ \A i \in 1..Len(t) : t[i] = s[i]
        /\ Cardinality(OpenIn(s, "section")) = Cardinality(OpenIn(t, "section"))
             + (IF s[Len(s)].kind = "section" THEN 1 ELSE 0)
    BY <1>1, PopFrame
  <1>3. Cardinality(OpenIn(t, "section")) \in Nat
    BY <1>2, OpenFinite
  <1> HIDE DEF t
  <1>4. /\ stack' = [stack EXCEPT ![p] = t]
        /\ stack \in [Proc -> Seq(Frame)]
    BY DEF Pop, TypeOK, t
  <1>5. stack'[p] = t
    BY <1>4
  <1> QED BY <1>2, <1>3, <1>4, <1>5 DEF Top, Sections

-------------------------------------------------------------------------------
(* What entering and leaving a frame does to the invariant *)

\* The new frame is an action exactly when there was none, and not within a target.
LEMMA PushShaped ==
  ASSUME TypeOK, NEW p \in Proc, NEW q \in Port,
         NEW k \in {"action", "section", "target", "mpkg"}, Push(p, k, q), Shaped(p),
         Len(stack[p]) = 0 <=> k = "action",
         Len(stack[p]) > 0 => Top(p).kind # "target",
         pc'[p] # "prompt", pc'[p] = "parse" => Len(stack[p]) = 0
  PROVE  Shaped(p)'
  <1>1. /\ Len(stack[p]) \in Nat
        /\ Len(stack'[p]) = Len(stack[p]) + 1
        /\ Top(p)' = [kind |-> k, port |-> q]
        /\ \A i \in 1..Len(stack[p]) : stack'[p][i] = stack[p][i]
    BY Pushed
  <1>2. ASSUME NEW i \in 1..Len(stack'[p])
        PROVE  /\ i = 1 <=> stack'[p][i].kind = "action"
               /\ stack'[p][i].kind = "target" => i = Len(stack'[p])
    <2>1. CASE i = Len(stack'[p])
      BY <1>1, <2>1 DEF Top
    <2>2. CASE i # Len(stack'[p])
      <3>1. i \in 1..Len(stack[p]) /\ stack'[p][i] = stack[p][i] /\ Len(stack[p]) > 0
        BY <1>1, <2>2
      <3>2. stack[p][i].kind # "target"
        BY <3>1 DEF Shaped, Top
      <3> QED BY <3>1, <3>2 DEF Shaped
    <2> QED BY <2>1, <2>2
  <1> QED BY <1>1, <1>2 DEF Shaped

\* A pushed frame leaves the frames of the locked state files open.
LEMMA PushHolds ==
  ASSUME TypeOK, NEW p \in Proc, NEW q \in Port,
         NEW k \in {"action", "section", "target", "mpkg"}, Push(p, k, q),
         HoldsOpen(p), UNCHANGED holder
  PROVE  /\ HoldsOpen(p)'
         /\ OpenIn(stack[p], "mpkg") # {} => OpenIn(stack'[p], "mpkg") # {}
  <1>1. /\ Len(stack[p]) \in Nat
        /\ Len(stack'[p]) = Len(stack[p]) + 1
        /\ \A i \in 1..Len(stack[p]) : stack'[p][i] = stack[p][i]
    BY Pushed
  <1>2. \A i \in 1..Len(stack[p]) : i \in 1..Len(stack'[p])
    BY <1>1
  <1>3. HoldsOpen(p)'
    BY <1>1, <1>2 DEF HoldsOpen
  <1>4. OpenIn(stack[p], "mpkg") \subseteq OpenIn(stack'[p], "mpkg")
    BY <1>1, <1>2 DEF OpenIn
  <1> QED BY <1>3, <1>4

\* A popped frame takes with it no locked state file but its own.
LEMMA PopHolds ==
  ASSUME TypeOK, NEW p \in Proc, Len(stack[p]) > 0, Pop(p), HoldsOpen(p),
         \A q \in Port : holder'[q] = p =>
           /\ holder[q] = p
           /\ ~(Top(p).kind \in {"target", "mpkg"} /\ Top(p).port = q)
  PROVE  HoldsOpen(p)'
  <1> SUFFICES ASSUME NEW q \in Port, holder'[q] = p
               PROVE  \E i \in 1..Len(stack'[p]) :
                        /\ stack'[p][i].kind \in {"target", "mpkg"}
                        /\ stack'[p][i].port = q
    BY DEF HoldsOpen
  <1>1. PICK i \in 1..Len(stack[p]) :
          stack[p][i].kind \in {"target", "mpkg"} /\ stack[p][i].port = q
    BY DEF HoldsOpen
  <1>2. i # Len(stack[p])
    BY <1>1 DEF Top
  <1>3. /\ Len(stack[p]) \in Nat
        /\ Len(stack'[p]) = Len(stack[p]) - 1
        /\ \A j \in 1..Len(stack'[p]) : stack'[p][j] = stack[p][j]
    BY Popped
  <1>4. i \in 1..Len(stack'[p])
    BY <1>2, <1>3
  <1> QED BY <1>1, <1>3, <1>4

\* The process goes back to its prompt exactly when it leaves its action.
LEMMA PopShaped ==
  ASSUME TypeOK, NEW p \in Proc, Len(stack[p]) > 0, Pop(p), Shaped(p),
         pc'[p] = "prompt" <=> Top(p).kind = "action", pc'[p] # "parse",
         pc'[p] = "prompt" => waits'[p] = NoFile /\ ~locked'[p]
  PROVE  Shaped(p)'
  <1>1. /\ Len(stack[p]) \in Nat
        /\ Len(stack'[p]) = Len(stack[p]) - 1
        /\ \A j \in 1..Len(stack'[p]) : stack'[p][j] = stack[p][j]
    BY Popped
  <1>2. Top(p).kind = "action" <=> Len(stack[p]) = 1
    <2> DEFINE n == Len(stack[p])
    <2>1. n \in 1..n
      BY <1>1
    <2>2. n = 1 <=> stack[p][n].kind = "action"
      BY <2>1 DEF Shaped
    <2> QED BY <2>2 DEF Top
  <1>3. ASSUME NEW i \in 1..Len(stack'[p])
        PROVE  i \in 1..Len(stack[p]) /\ stack'[p][i] = stack[p][i] /\ i # Len(stack[p])
    BY <1>1
  <1>4. ASSUME NEW i \in 1..Len(stack'[p])
        PROVE  /\ i = 1 <=> stack'[p][i].kind = "action"
               /\ stack'[p][i].kind = "target" => i = Len(stack'[p])
    BY <1>3, <1>4 DEF Shaped
  <1> QED BY <1>1, <1>2, <1>4 DEF Shaped

-------------------------------------------------------------------------------
(* What the locks do to the invariant *)

\* exclusive_lock asks the kernel only when the process has no lock yet.
LEMMA ExclusiveLock ==
  ASSUME TypeOK, NEW p \in Proc, Counted(p), waits[p] = NoFile, exclusive_lock(p)
  PROVE  /\ nlocked' \in [Proc -> Nat]
         /\ waits' \in [Proc -> LockFile \cup {NoFile}]
         /\ UNCHANGED holder
         /\ nlocked'[p] = nlocked[p] + 1
         /\ holder[Registry] = p <=> waits'[p] # Registry
         /\ waits'[p] \in {NoFile, Registry}
         /\ \A r \in Proc \ {p} : nlocked'[r] = nlocked[r] /\ waits'[r] = waits[r]
  <1>1. /\ Registry \in LockFile /\ NoFile # Registry /\ nlocked[p] \in Nat
        /\ nlocked \in [Proc -> Nat] /\ waits \in [Proc -> LockFile \cup {NoFile}]
    BY PortLocksAssumption DEF TypeOK, LockFile
  <1>2. holder[Registry] = p <=> nlocked[p] > 0
    BY <1>1 DEF Counted
  <1> QED BY <1>1, <1>2 DEF exclusive_lock, Flock

\* exclusive_unlock lets the kernel's lock go exactly when the count reaches zero.
LEMMA ExclusiveUnlock ==
  ASSUME TypeOK, NEW p \in Proc, Counted(p), waits[p] = NoFile, nlocked[p] > 0,
         exclusive_unlock(p)
  PROVE  /\ nlocked' \in [Proc -> Nat]
         /\ holder' \in [LockFile -> Proc \cup {NoProc}]
         /\ nlocked'[p] = nlocked[p] - 1
         /\ holder'[Registry] = p <=> nlocked'[p] > 0
         /\ \A q \in Port : holder'[q] = holder[q]
         /\ \A r \in Proc \ {p} :
              /\ nlocked'[r] = nlocked[r]
              /\ \A l \in LockFile : holder'[l] = r <=> holder[l] = r
  <1>1. /\ Registry \in LockFile /\ NoFile # Registry /\ nlocked[p] \in Nat
        /\ nlocked \in [Proc -> Nat] /\ holder \in [LockFile -> Proc \cup {NoProc}]
        /\ Registry \notin Port /\ NoProc \notin Proc
    BY PortLocksAssumption DEF TypeOK, LockFile
  <1>2. holder[Registry] = p
    BY <1>1 DEF Counted
  <1>3. nlocked'[p] = nlocked[p] - 1 /\ nlocked' \in [Proc -> Nat]
        /\ \A r \in Proc \ {p} : nlocked'[r] = nlocked[r]
    BY <1>1 DEF exclusive_unlock
  <1>4. CASE nlocked[p] > 1
    BY <1>1, <1>2, <1>3, <1>4 DEF exclusive_unlock
  <1>5. CASE ~(nlocked[p] > 1)
    <2>1. holder' = [holder EXCEPT ![Registry] = NoProc]
      BY <1>2, <1>5 DEF exclusive_unlock, Funlock
    <2> QED BY <1>1, <1>2, <1>3, <1>5, <2>1 DEF LockFile
  <1> QED BY <1>4, <1>5

\* Unlocking a state file touches neither other files nor other processes.
LEMMA UnlockState ==
  ASSUME TypeOK, NEW p \in Proc, NEW q \in Port, Funlock(p, q)
  PROVE  /\ holder' \in [LockFile -> Proc \cup {NoProc}]
         /\ holder'[q] # p
         /\ \A l \in LockFile \ {q} : holder'[l] = holder[l]
         /\ \A r \in Proc \ {p} : \A l \in LockFile : holder'[l] = r <=> holder[l] = r
  <1>1. /\ holder \in [LockFile -> Proc \cup {NoProc}] /\ q \in LockFile
        /\ NoProc \notin Proc
    BY PortLocksAssumption DEF TypeOK, LockFile
  <1> QED BY <1>1 DEF Funlock

\* The ports on which a frame may work are ports, and a target has none.
LEMMA WithinPorts ==
  ASSUME NEW p \in Proc, Top(p) \in Frame, NEW q \in Within(Top(p))
  PROVE  q \in Port /\ Top(p).kind \in {"action", "section", "mpkg"}
  BY PortLocksAssumption DEF Within, Frame

-------------------------------------------------------------------------------
(* Every action keeps the invariant of its process *)

\* A process that its action takes from the prompt waits, if at all, for the registry.
LEMMA BeginStep ==
  ASSUME TypeOK, NEW p \in Proc, PInv(p), NEW k \in Words, NEW q \in Port, Begin(p, k, q)
  PROVE  TypeOK' /\ PInv(p)' /\ Others(p)
  <1>1. /\ pc[p] = "prompt" /\ waits[p] = NoFile /\ ~locked[p] /\ Len(stack[p]) = 0
        /\ Counted(p) /\ Shaped(p) /\ HoldsOpen(p) /\ Push(p, "action", q)
    BY DEF Begin, Runs, PInv, Shaped
  <1>2. /\ stack' \in [Proc -> Seq(Frame)]
        /\ \A r \in Proc \ {p} : stack'[r] = stack[r]
        /\ Top(p)' = [kind |-> "action", port |-> q]
        /\ Sections(p)' = Sections(p)
        /\ Sections(p) \in Nat
    BY <1>1, Pushed, Running
  <1>3. /\ nlocked' \in [Proc -> Nat]
        /\ waits' \in [Proc -> LockFile \cup {NoFile}]
        /\ UNCHANGED holder
        /\ nlocked'[p] = nlocked[p] + (IF k = "listed" THEN 1 ELSE 0)
        /\ holder[Registry] = p \/ waits'[p] = Registry <=> nlocked'[p] > 0
        /\ waits'[p] \in {NoFile, Registry}
        /\ waits'[p] = Registry => holder[Registry] # p
        /\ \A r \in Proc \ {p} : nlocked'[r] = nlocked[r] /\ waits'[r] = waits[r]
    <2>1. CASE k = "listed"
      <3>1. exclusive_lock(p)
        BY <2>1 DEF Begin
      <3>2. nlocked[p] \in Nat
        BY DEF TypeOK
      <3> QED BY <1>1, <2>1, <3>1, <3>2, ExclusiveLock
    <2>2. CASE k # "listed"
      <3>1. UNCHANGED <<holder, waits, nlocked>>
        BY <2>2 DEF Begin
      <3> QED BY <1>1, <2>2, <3>1, PortLocksAssumption DEF TypeOK, Counted, LockFile
    <2> QED BY <2>1, <2>2
  <1>4. /\ pc' = [pc EXCEPT ![p] = "parse"]
        /\ word' = [word EXCEPT ![p] = k]
        /\ locked' = [locked EXCEPT ![p] = k = "listed"]
        /\ work' = [work EXCEPT ![p] = 0]
        /\ left' = [left EXCEPT ![p] = IF p \in Interactive THEN @ ELSE @ - 1]
        /\ left[p] > 0
    BY DEF Begin
  <1>5. TypeOK'
    <2>1. left' \in [Proc -> 0..MaxCommands] /\ work' \in [Proc -> 0..MaxWork]
      BY <1>4, PortLocksAssumption DEF TypeOK
    <2>2. pc' \in [Proc -> {"prompt", "parse", "run"}] /\ word' \in [Proc -> Kind]
      BY <1>4, PortLocksAssumption DEF TypeOK
    <2>3. locked' \in [Proc -> BOOLEAN]
      BY <1>4 DEF TypeOK
    <2> QED BY <1>2, <1>3, <2>1, <2>2, <2>3 DEF TypeOK
  <1>6. pc'[p] = "parse" /\ (locked'[p] <=> k = "listed")
    BY <1>4 DEF TypeOK
  <1>7. Counted(p)'
    <2>1. nlocked[p] \in Nat /\ nlocked[p] >= Sections(p)
      BY <1>1, <1>2 DEF Counted, TypeOK
    <2> QED BY <1>2, <1>3, <1>6, <2>1 DEF Counted
  <1>8. Shaped(p)'
    BY <1>1, <1>6, PushShaped
  <1>9. HoldsOpen(p)'
    BY <1>1, <1>3, PushHolds
  <1>10. WaitsForTop(p)' /\ NotSelf(p)'
    BY <1>2, <1>3, PortLocksAssumption DEF WaitsForTop, NotSelf, LockFile
  <1>11. Others(p)
    BY <1>2, <1>3, <1>4 DEF Others, TypeOK
  <1> QED BY <1>5, <1>7, <1>8, <1>9, <1>10, <1>11 DEF PInv

\* The kernel gives a process the lock for which it waits.
LEMMA GrantStep ==
  ASSUME TypeOK, NEW p \in Proc, PInv(p), Grant(p)
  PROVE  TypeOK' /\ PInv(p)' /\ Others(p)
  <1> DEFINE l == waits[p]
  <1>1. /\ l \in LockFile /\ holder[l] = NoProc /\ Registry \in LockFile
        /\ holder' = [holder EXCEPT ![l] = p]
        /\ waits' = [waits EXCEPT ![p] = NoFile]
        /\ holder \in [LockFile -> Proc \cup {NoProc}]
        /\ waits \in [Proc -> LockFile \cup {NoFile}]
        /\ UNCHANGED <<nlocked, locked, pc, word, stack, work, left>>
        /\ NoFile \notin LockFile /\ NoProc \notin Proc
        /\ Registry \notin Port /\ LockFile = Port \cup {Registry}
    BY PortLocksAssumption DEF Grant, TypeOK, LockFile
  <1> HIDE DEF l
  <1>2. waits'[p] = NoFile /\ holder'[l] = p /\ \A m \in LockFile \ {l} : holder'[m] = holder[m]
    BY <1>1
  <1>3. TypeOK'
    BY <1>1 DEF TypeOK
  <1>4. Counted(p)'
    <2>1. holder'[Registry] = p \/ waits'[p] = Registry
             <=> holder[Registry] = p \/ waits[p] = Registry
      BY <1>1, <1>2 DEF l
    <2>2. Sections(p)' = Sections(p)
      BY <1>1 DEF Sections
    <2> QED BY <1>1, <2>1, <2>2 DEF PInv, Counted
  <1>5. Shaped(p)'
    BY <1>1, <1>2 DEF PInv, Shaped
  <1>6. HoldsOpen(p)'
    <2> SUFFICES ASSUME NEW q \in Port, holder'[q] = p
                 PROVE  \E i \in 1..Len(stack[p]) :
                          stack[p][i].kind \in {"target", "mpkg"} /\ stack[p][i].port = q
      BY <1>1 DEF HoldsOpen
    <2>1. CASE q # l
      BY <1>1, <1>2, <2>1 DEF PInv, HoldsOpen
    <2>2. CASE q = l
      <3>1. Top(p).kind \in {"target", "mpkg"} /\ Top(p).port = q
        BY <2>2 DEF PInv, WaitsForTop, l
      <3>2. pc[p] # "prompt" /\ Shaped(p)
        BY <1>1 DEF PInv, Shaped, l
      <3>3. Len(stack[p]) \in Nat /\ Len(stack[p]) > 0
        BY <3>2, Running
      <3> QED BY <3>1, <3>3 DEF Top
    <2> QED BY <2>1, <2>2
  <1>7. WaitsForTop(p)' /\ NotSelf(p)'
    BY <1>1, <1>2 DEF WaitsForTop, NotSelf
  <1>8. Others(p)
    <2>1. ASSUME NEW r \in Proc \ {p}, NEW m \in LockFile
          PROVE  holder'[m] = r <=> holder[m] = r
      BY <1>1, <1>2
    <2> QED BY <1>1, <2>1 DEF Others
  <1> QED BY <1>3, <1>4, <1>5, <1>6, <1>7, <1>8 DEF PInv

\* Parsing an action's options and ports touches no lock.
LEMMA ParseStep ==
  ASSUME TypeOK, NEW p \in Proc, PInv(p), Parse(p)
  PROVE  TypeOK' /\ PInv(p)' /\ Others(p)
  <1>1. /\ pc[p] = "parse" /\ waits[p] = NoFile
        /\ pc' = [pc EXCEPT ![p] = "run"]
        /\ UNCHANGED <<holder, waits, nlocked, locked, word, stack, work, left>>
        /\ pc'[p] = "run"
    BY DEF Parse, Runs, TypeOK
  <1>2. TypeOK'
    BY <1>1 DEF TypeOK
  <1>3. Counted(p)' /\ Others(p)
    BY <1>1 DEF PInv, Counted, Sections, Others, TypeOK
  <1>4. Shaped(p)'
    BY <1>1 DEF PInv, Shaped
  <1>5. WaitsForTop(p)' /\ HoldsOpen(p)' /\ NotSelf(p)'
    BY <1>1 DEF PInv, WaitsForTop, HoldsOpen, NotSelf, Top
  <1> QED BY <1>2, <1>3, <1>4, <1>5 DEF PInv

\* An action that cannot be parsed leaves the lock that it took.
LEMMA ParseFailsStep ==
  ASSUME TypeOK, NEW p \in Proc, PInv(p), ParseFails(p)
  PROVE  TypeOK' /\ PInv(p)' /\ Others(p)
  <1>1. /\ pc[p] = "parse" /\ waits[p] = NoFile
        /\ pc' = [pc EXCEPT ![p] = "prompt"]
        /\ locked' = [locked EXCEPT ![p] = FALSE]
        /\ stack' = [stack EXCEPT ![p] = <<>>]
        /\ left' = [left EXCEPT ![p] = IF p \in Interactive THEN @ ELSE 0]
        /\ UNCHANGED <<holder, waits, nlocked, word, work>>
        /\ pc'[p] = "prompt" /\ ~locked'[p] /\ stack'[p] = <<>>
    BY DEF ParseFails, Runs, TypeOK
  <1>2. <<>> \in Seq(Frame) /\ Len(<<>>) = 0
    BY EmptySeq
  <1>3. Len(stack'[p]) = 0 /\ Len(stack[p]) = 1 /\ stack[p][1].kind = "action"
    BY <1>1, <1>2 DEF PInv, Shaped
  <1>4. Sections(p)' = 0 /\ Sections(p) \in Nat
    <2>1. OpenIn(stack'[p], "section") = {}
      BY <1>3 DEF OpenIn
    <2>2. Shaped(p)
      BY DEF PInv
    <2> QED BY <2>1, <2>2, FS_EmptySet, Running DEF Sections
  <1>5. TypeOK'
    BY <1>1, <1>2, PortLocksAssumption DEF TypeOK
  <1>6. Counted(p)'
    BY <1>1, <1>4 DEF PInv, Counted, TypeOK
  <1>7. Shaped(p)'
    BY <1>1, <1>3 DEF Shaped
  <1>8. \A q \in Port : holder[q] # p
    BY <1>3 DEF PInv, HoldsOpen
  <1>9. WaitsForTop(p)' /\ HoldsOpen(p)' /\ NotSelf(p)'
    BY <1>1, <1>8, PortLocksAssumption DEF WaitsForTop, HoldsOpen, NotSelf, LockFile
  <1>10. Others(p)
    BY <1>1 DEF Others, TypeOK
  <1> QED BY <1>5, <1>6, <1>7, <1>9, <1>10 DEF PInv

\* An action lets go of the lock that it took, and of no other.
LEMMA EndActionStep ==
  ASSUME TypeOK, NEW p \in Proc, PInv(p), EndAction(p)
  PROVE  TypeOK' /\ PInv(p)' /\ Others(p)
  <1>1. /\ pc[p] = "run" /\ waits[p] = NoFile /\ Top(p).kind = "action"
        /\ Pop(p)
        /\ pc' = [pc EXCEPT ![p] = "prompt"]
        /\ locked' = [locked EXCEPT ![p] = FALSE]
        /\ UNCHANGED <<waits, word, work, left>>
        /\ pc'[p] = "prompt" /\ ~locked'[p]
    BY DEF EndAction, Runs, TypeOK
  <1>2. Counted(p) /\ Shaped(p) /\ HoldsOpen(p)
    BY DEF PInv
  <1>3. Len(stack[p]) > 0
    BY <1>1, <1>2, Running
  <1>4. /\ stack' \in [Proc -> Seq(Frame)]
        /\ \A r \in Proc \ {p} : stack'[r] = stack[r]
        /\ Sections(p)' \in Nat
        /\ Sections(p) = Sections(p)'
    BY <1>1, <1>3, Popped
  <1>5. nlocked[p] \in Nat /\ (locked[p] => nlocked[p] > 0)
    BY <1>2, <1>4 DEF Counted, TypeOK
  <1>6. /\ nlocked' \in [Proc -> Nat]
        /\ holder' \in [LockFile -> Proc \cup {NoProc}]
        /\ nlocked'[p] = nlocked[p] - (IF locked[p] THEN 1 ELSE 0)
        /\ holder'[Registry] = p <=> nlocked'[p] > 0
        /\ \A q \in Port : holder'[q] = holder[q]
        /\ \A r \in Proc \ {p} :
             /\ nlocked'[r] = nlocked[r]
             /\ \A l \in LockFile : holder'[l] = r <=> holder[l] = r
    <2>1. CASE locked[p]
      <3>1. exclusive_unlock(p)
        BY <2>1 DEF EndAction
      <3> QED BY <1>1, <1>2, <1>5, <2>1, <3>1, ExclusiveUnlock
    <2>2. CASE ~locked[p]
      <3>1. UNCHANGED <<holder, nlocked>>
        BY <2>2 DEF EndAction
      <3> QED BY <1>1, <1>2, <1>5, <2>2, <3>1, PortLocksAssumption
              DEF TypeOK, Counted, LockFile
    <2> QED BY <2>1, <2>2
  <1>7. TypeOK'
    BY <1>1, <1>4, <1>6 DEF TypeOK
  <1>8. Counted(p)'
    <2>1. nlocked[p] >= Sections(p) + (IF locked[p] THEN 1 ELSE 0)
      BY <1>2 DEF Counted
    <2>2. nlocked'[p] >= Sections(p)'
      BY <1>4, <1>5, <1>6, <2>1
    <2> QED BY <1>1, <1>4, <1>6, <2>2, PortLocksAssumption DEF Counted, LockFile
  <1>9. Shaped(p)'
    BY <1>1, <1>2, <1>3, PopShaped
  <1>10. HoldsOpen(p)'
    BY <1>1, <1>2, <1>3, <1>6, PopHolds
  <1>11. WaitsForTop(p)' /\ NotSelf(p)'
    BY <1>1, PortLocksAssumption DEF WaitsForTop, NotSelf, LockFile
  <1>12. Others(p)
    BY <1>1, <1>4, <1>6 DEF Others, TypeOK
  <1> QED BY <1>7, <1>8, <1>9, <1>10, <1>11, <1>12 DEF PInv

\* A process that is gone has no locks, and the next one begins as the first did.
LEMMA ExitStep ==
  ASSUME TypeOK, NEW p \in Proc, PInv(p), Exit(p)
  PROVE  TypeOK' /\ PInv(p)' /\ Others(p)
  <1>1. <<>> \in Seq(Frame) /\ Len(<<>>) = 0
    BY EmptySeq
  <1>2. TypeOK'
    BY <1>1, PortLocksAssumption DEF Exit, TypeOK, Kind
  <1>3. /\ waits'[p] = NoFile /\ nlocked'[p] = 0 /\ ~locked'[p] /\ pc'[p] = "prompt"
        /\ stack'[p] = <<>>
        /\ Len(stack'[p]) = 0
        /\ \A l \in LockFile : holder'[l] # p
    BY <1>1, PortLocksAssumption DEF Exit, TypeOK
  <1>4. Sections(p)' = 0
    <2>1. OpenIn(stack'[p], "section") = {}
      BY <1>3 DEF OpenIn
    <2> QED BY <2>1, FS_EmptySet DEF Sections
  <1>5. Counted(p)'
    BY <1>3, <1>4, PortLocksAssumption DEF Counted, LockFile
  <1>6. Shaped(p)'
    BY <1>3 DEF Shaped
  <1>7. WaitsForTop(p)' /\ HoldsOpen(p)' /\ NotSelf(p)'
    BY <1>3, PortLocksAssumption DEF WaitsForTop, HoldsOpen, NotSelf, LockFile
  <1>8. Others(p)
    BY PortLocksAssumption DEF Exit, Others, TypeOK
  <1> QED BY <1>2, <1>5, <1>6, <1>7, <1>8 DEF PInv

\* A dependency phase counts once more in the registry's lock.
LEMMA EnterSectionStep ==
  ASSUME TypeOK, NEW p \in Proc, PInv(p), NEW q \in Port, EnterSection(p, q)
  PROVE  TypeOK' /\ PInv(p)' /\ Others(p)
  <1>1. /\ pc[p] = "run" /\ waits[p] = NoFile
        /\ q \in Within(Top(p))
        /\ work[p] < MaxWork /\ work' = [work EXCEPT ![p] = @ + 1]
        /\ Push(p, "section", q) /\ exclusive_lock(p)
        /\ UNCHANGED <<locked, pc, word, left>>
    BY DEF EnterSection, MayEnter, Runs
  <1>2. Counted(p) /\ Shaped(p) /\ HoldsOpen(p)
    BY DEF PInv
  <1>3. Len(stack[p]) > 0 /\ Top(p).kind # "target" /\ Sections(p) \in Nat
    BY <1>1, <1>2, Running, WithinPorts
  <1>4. /\ stack' \in [Proc -> Seq(Frame)]
        /\ \A r \in Proc \ {p} : stack'[r] = stack[r]
        /\ Top(p)' = [kind |-> "section", port |-> q]
        /\ Sections(p)' = Sections(p) + 1
    BY <1>1, Pushed
  <1>5. /\ nlocked' \in [Proc -> Nat]
        /\ waits' \in [Proc -> LockFile \cup {NoFile}]
        /\ UNCHANGED holder
        /\ nlocked'[p] = nlocked[p] + 1
        /\ holder[Registry] = p <=> waits'[p] # Registry
        /\ waits'[p] \in {NoFile, Registry}
        /\ \A r \in Proc \ {p} : nlocked'[r] = nlocked[r] /\ waits'[r] = waits[r]
    BY <1>1, <1>2, ExclusiveLock
  <1>6. TypeOK'
    <2>1. work' \in [Proc -> 0..MaxWork]
      BY <1>1, PortLocksAssumption DEF TypeOK
    <2> QED BY <1>1, <1>4, <1>5, <2>1 DEF TypeOK
  <1>7. Counted(p)'
    <2>1. nlocked[p] \in Nat /\ nlocked[p] >= Sections(p) + (IF locked[p] THEN 1 ELSE 0)
      BY <1>2 DEF Counted, TypeOK
    <2>2. nlocked'[p] > 0 /\ (holder'[Registry] = p \/ waits'[p] = Registry)
      BY <1>5, <2>1
    <2> QED BY <1>1, <1>3, <1>4, <1>5, <2>1, <2>2 DEF Counted
  <1>8. Shaped(p)'
    BY <1>1, <1>2, <1>3, PushShaped
  <1>9. HoldsOpen(p)'
    BY <1>1, <1>2, <1>5, PushHolds
  <1>10. WaitsForTop(p)' /\ NotSelf(p)'
    BY <1>4, <1>5, PortLocksAssumption DEF WaitsForTop, NotSelf, LockFile
  <1>11. Others(p)
    BY <1>1, <1>4, <1>5 DEF Others, TypeOK
  <1> QED BY <1>6, <1>7, <1>8, <1>9, <1>10, <1>11 DEF PInv

\* A dependency phase that ends is one lock less, and never one too many.
LEMMA LeaveSectionStep ==
  ASSUME TypeOK, NEW p \in Proc, PInv(p), LeaveSection(p)
  PROVE  TypeOK' /\ PInv(p)' /\ Others(p)
  <1>1. /\ pc[p] = "run" /\ waits[p] = NoFile /\ Top(p).kind = "section"
        /\ Pop(p) /\ exclusive_unlock(p)
        /\ UNCHANGED <<waits, locked, pc, word, work, left>>
    BY DEF LeaveSection, Runs
  <1>2. Counted(p) /\ Shaped(p) /\ HoldsOpen(p)
    BY DEF PInv
  <1>3. Len(stack[p]) > 0
    BY <1>1, <1>2, Running
  <1>4. /\ stack' \in [Proc -> Seq(Frame)]
        /\ \A r \in Proc \ {p} : stack'[r] = stack[r]
        /\ Sections(p)' \in Nat
        /\ Sections(p) = Sections(p)' + 1
    BY <1>1, <1>3, Popped
  <1>5. /\ nlocked[p] \in Nat /\ nlocked[p] > 0
        /\ nlocked[p] >= Sections(p) + (IF locked[p] THEN 1 ELSE 0)
    BY <1>2, <1>4 DEF Counted, TypeOK
  <1>6. /\ nlocked' \in [Proc -> Nat]
        /\ holder' \in [LockFile -> Proc \cup {NoProc}]
        /\ nlocked'[p] = nlocked[p] - 1
        /\ holder'[Registry] = p <=> nlocked'[p] > 0
        /\ \A q \in Port : holder'[q] = holder[q]
        /\ \A r \in Proc \ {p} :
             /\ nlocked'[r] = nlocked[r]
             /\ \A l \in LockFile : holder'[l] = r <=> holder[l] = r
    BY <1>1, <1>2, <1>5, ExclusiveUnlock
  <1>7. TypeOK'
    BY <1>1, <1>4, <1>6 DEF TypeOK
  <1>8. Counted(p)'
    BY <1>1, <1>4, <1>5, <1>6, PortLocksAssumption DEF Counted, LockFile
  <1>9. Shaped(p)'
    BY <1>1, <1>2, <1>3, PopShaped
  <1>10. HoldsOpen(p)'
    BY <1>1, <1>2, <1>3, <1>6, PopHolds
  <1>11. WaitsForTop(p)' /\ NotSelf(p)'
    BY <1>1, PortLocksAssumption DEF WaitsForTop, NotSelf, LockFile
  <1>12. Others(p)
    BY <1>1, <1>4, <1>6 DEF Others, TypeOK
  <1> QED BY <1>7, <1>8, <1>9, <1>10, <1>11, <1>12 DEF PInv

\* Leaving a frame, no lock changing hands.
LEMMA LeakSectionStep ==
  ASSUME TypeOK, NEW p \in Proc, PInv(p), LeakSection(p)
  PROVE  TypeOK' /\ PInv(p)' /\ Others(p)
  <1>1. /\ pc[p] = "run" /\ waits[p] = NoFile /\ Top(p).kind = "section"
        /\ Pop(p)
        /\ UNCHANGED <<holder, waits, nlocked, locked, pc, word, work, left>>
    BY DEF LeakSection, Runs
  <1>2. Counted(p) /\ Shaped(p) /\ HoldsOpen(p)
    BY DEF PInv
  <1>3. Len(stack[p]) > 0
    BY <1>1, <1>2, Running
  <1>4. /\ stack' \in [Proc -> Seq(Frame)]
        /\ \A r \in Proc \ {p} : stack'[r] = stack[r]
        /\ Sections(p)' \in Nat
        /\ Sections(p) = Sections(p)' + 1
    BY <1>1, <1>3, Popped
  <1>5. TypeOK'
    BY <1>1, <1>4 DEF TypeOK
  <1>6. Counted(p)'
    BY <1>1, <1>2, <1>4 DEF Counted, TypeOK
  <1>7. Shaped(p)'
    BY <1>1, <1>2, <1>3, PopShaped
  <1>8. HoldsOpen(p)'
    BY <1>1, <1>2, <1>3, PopHolds
  <1>9. WaitsForTop(p)' /\ NotSelf(p)'
    BY <1>1, PortLocksAssumption DEF WaitsForTop, NotSelf, LockFile
  <1>10. Others(p)
    BY <1>1, <1>4 DEF Others, TypeOK
  <1> QED BY <1>5, <1>6, <1>7, <1>8, <1>9, <1>10 DEF PInv

\* A target waits for its own port's state file, which only an enclosing mpkg
\* target of its process can have locked already.
LEMMA OpenStateStep ==
  ASSUME TypeOK, NEW p \in Proc, PInv(p), NEW q \in Port, OpenState(p, q)
  PROVE  TypeOK' /\ PInv(p)' /\ Others(p)
  <1>1. /\ pc[p] = "run" /\ waits[p] = NoFile
        /\ q \in Within(Top(p))
        /\ work[p] < MaxWork /\ work' = [work EXCEPT ![p] = @ + 1]
        /\ Push(p, "target", q) \/ Push(p, "mpkg", q)
        /\ waits' = [waits EXCEPT ![p] = q]
        /\ UNCHANGED <<holder, nlocked, locked, pc, word, left>>
    BY DEF OpenState, MayEnter, Runs, Flock
  <1>2. PICK k \in {"target", "mpkg"} : Push(p, k, q)
    BY <1>1
  <1>3. Counted(p) /\ Shaped(p) /\ HoldsOpen(p)
    BY DEF PInv
  <1>4. /\ Len(stack[p]) > 0 /\ Len(stack[p]) \in Nat
        /\ Top(p).kind # "target" /\ Sections(p) \in Nat
    BY <1>1, <1>3, Running, WithinPorts
  <1>5. /\ stack' \in [Proc -> Seq(Frame)]
        /\ \A r \in Proc \ {p} : stack'[r] = stack[r]
        /\ Top(p)' = [kind |-> k, port |-> q]
        /\ Sections(p)' = Sections(p)
    BY <1>2, <1>4, Pushed
  <1>6. waits'[p] = q /\ q \in LockFile /\ q # Registry /\ NoFile # Registry
    BY <1>1, PortLocksAssumption DEF TypeOK, LockFile
  <1>7. TypeOK'
    <2>1. work' \in [Proc -> 0..MaxWork]
      BY <1>1, PortLocksAssumption DEF TypeOK
    <2>2. waits' \in [Proc -> LockFile \cup {NoFile}]
      BY <1>1, <1>6 DEF TypeOK
    <2> QED BY <1>1, <1>5, <2>1, <2>2 DEF TypeOK
  <1>8. Counted(p)'
    BY <1>1, <1>3, <1>5, <1>6 DEF Counted
  <1>9. Shaped(p)'
    BY <1>1, <1>2, <1>3, <1>4, PushShaped
  <1>10. /\ HoldsOpen(p)'
         /\ OpenIn(stack[p], "mpkg") # {} => OpenIn(stack'[p], "mpkg") # {}
    BY <1>1, <1>2, <1>3, PushHolds
  <1>11. WaitsForTop(p)'
    BY <1>5, <1>6 DEF WaitsForTop
  <1>12. NotSelf(p)'
    <2> SUFFICES ASSUME holder[q] = p PROVE OpenIn(stack[p], "mpkg") # {}
      BY <1>1, <1>6, <1>10 DEF NotSelf
    <2>1. PICK i \in 1..Len(stack[p]) :
            stack[p][i].kind \in {"target", "mpkg"} /\ stack[p][i].port = q
      BY <1>3 DEF HoldsOpen
    <2>2. stack[p][i].kind # "target"
      BY <1>3, <1>4, <2>1 DEF Shaped, Top
    <2>3. i \in OpenIn(stack[p], "mpkg")
      BY <2>1, <2>2 DEF OpenIn
    <2> QED BY <2>3
  <1>13. Others(p)
    BY <1>1, <1>5 DEF Others, TypeOK
  <1> QED BY <1>7, <1>8, <1>9, <1>10, <1>11, <1>12, <1>13 DEF PInv

\* A target that ends unlocks its own state file, and no other.
LEMMA CloseStateStep ==
  ASSUME TypeOK, NEW p \in Proc, PInv(p), CloseState(p)
  PROVE  TypeOK' /\ PInv(p)' /\ Others(p)
  <1> DEFINE q == Top(p).port
  <1>1. /\ pc[p] = "run" /\ waits[p] = NoFile /\ Top(p).kind \in {"target", "mpkg"}
        /\ Funlock(p, q) /\ Pop(p)
        /\ UNCHANGED <<waits, nlocked, locked, pc, word, work, left>>
    BY DEF CloseState, Runs
  <1>2. Counted(p) /\ Shaped(p) /\ HoldsOpen(p)
    BY DEF PInv
  <1>3. Len(stack[p]) > 0 /\ q \in Port
    BY <1>1, <1>2, Running DEF Frame
  <1>4. /\ stack' \in [Proc -> Seq(Frame)]
        /\ \A r \in Proc \ {p} : stack'[r] = stack[r]
        /\ Sections(p) = Sections(p)'
    BY <1>1, <1>3, Popped
  <1> HIDE DEF q
  <1>5. /\ holder' \in [LockFile -> Proc \cup {NoProc}]
        /\ holder'[q] # p
        /\ \A l \in LockFile \ {q} : holder'[l] = holder[l]
        /\ \A r \in Proc \ {p} : \A l \in LockFile : holder'[l] = r <=> holder[l] = r
    BY <1>1, <1>3, UnlockState
  <1>6. TypeOK'
    BY <1>1, <1>4, <1>5 DEF TypeOK
  <1>7. Counted(p)'
    BY <1>1, <1>2, <1>3, <1>4, <1>5, PortLocksAssumption DEF Counted, LockFile
  <1>8. Shaped(p)'
    BY <1>1, <1>2, <1>3, PopShaped
  <1>9. \A o \in Port : holder'[o] = p => holder[o] = p /\ q # o
    BY <1>5 DEF LockFile
  <1>10. HoldsOpen(p)'
    BY <1>1, <1>2, <1>3, <1>9, PopHolds DEF q
  <1>11. WaitsForTop(p)' /\ NotSelf(p)'
    BY <1>1, PortLocksAssumption DEF WaitsForTop, NotSelf, LockFile
  <1>12. Others(p)
    BY <1>1, <1>4, <1>5 DEF Others, TypeOK
  <1> QED BY <1>6, <1>7, <1>8, <1>10, <1>11, <1>12 DEF PInv

\* A replaced state file is unlocked before it is waited for again.
LEMMA ReopenStep ==
  ASSUME TypeOK, NEW p \in Proc, PInv(p), Reopen(p)
  PROVE  TypeOK' /\ PInv(p)' /\ Others(p)
  <1> DEFINE q == Top(p).port
  <1>1. /\ pc[p] = "run" /\ waits[p] = NoFile /\ Top(p).kind = "target"
        /\ work[p] < MaxWork /\ work' = [work EXCEPT ![p] = @ + 1]
        /\ Funlock(p, q)
        /\ waits' = [waits EXCEPT ![p] = q]
        /\ UNCHANGED <<nlocked, locked, pc, word, stack, left>>
    BY DEF Reopen, Runs
  <1>2. Counted(p) /\ Shaped(p) /\ HoldsOpen(p)
    BY DEF PInv
  <1>3. q \in Port
    BY <1>1, <1>2, Running DEF Frame
  <1>4. Top(p)' = Top(p)
    BY <1>1 DEF Top
  <1>5. Sections(p)' = Sections(p)
    BY <1>1 DEF Sections
  <1> HIDE DEF q
  <1>6. /\ holder' \in [LockFile -> Proc \cup {NoProc}]
        /\ holder'[q] # p
        /\ \A l \in LockFile \ {q} : holder'[l] = holder[l]
        /\ \A r \in Proc \ {p} : \A l \in LockFile : holder'[l] = r <=> holder[l] = r
    BY <1>1, <1>3, UnlockState
  <1>7. waits'[p] = q /\ q \in LockFile /\ q # Registry /\ NoFile # Registry
    BY <1>1, <1>3, PortLocksAssumption DEF TypeOK, LockFile
  <1>8. TypeOK'
    <2>1. work' \in [Proc -> 0..MaxWork]
      BY <1>1, PortLocksAssumption DEF TypeOK
    <2>2. waits' \in [Proc -> LockFile \cup {NoFile}]
      BY <1>1, <1>7 DEF TypeOK
    <2> QED BY <1>1, <1>6, <2>1, <2>2 DEF TypeOK
  <1>9. Counted(p)'
    BY <1>1, <1>2, <1>5, <1>6, <1>7 DEF Counted, LockFile
  <1>10. Shaped(p)'
    BY <1>1, <1>2 DEF Shaped
  <1>11. HoldsOpen(p)'
    <2>1. \A o \in Port : holder'[o] = p => holder[o] = p
      BY <1>6 DEF LockFile
    <2> QED BY <1>1, <1>2, <2>1 DEF HoldsOpen
  <1>12. WaitsForTop(p)' /\ NotSelf(p)'
    BY <1>1, <1>4, <1>6, <1>7 DEF WaitsForTop, NotSelf, q
  <1>13. Others(p)
    BY <1>1, <1>6 DEF Others, TypeOK
  <1> QED BY <1>8, <1>9, <1>10, <1>11, <1>12, <1>13 DEF PInv

-------------------------------------------------------------------------------
(* The invariant holds *)

\* Before the first command nobody has a lock or waits for one.
LEMMA InitInv == Init => IInv
  <1> SUFFICES ASSUME Init PROVE IInv
    OBVIOUS
  <1>1. <<>> \in Seq(Frame) /\ Len(<<>>) = 0
    BY EmptySeq
  <1>2. TypeOK
    BY <1>1, PortLocksAssumption DEF Init, TypeOK, Kind
  <1>3. ASSUME NEW p \in Proc PROVE PInv(p)
    <2>1. /\ waits[p] = NoFile /\ nlocked[p] = 0 /\ ~locked[p] /\ pc[p] = "prompt"
          /\ Len(stack[p]) = 0
          /\ \A l \in LockFile : holder[l] # p
      BY <1>1, PortLocksAssumption DEF Init
    <2>2. Sections(p) = 0
      <3>1. OpenIn(stack[p], "section") = {}
        BY <2>1 DEF OpenIn
      <3> QED BY <3>1, FS_EmptySet DEF Sections
    <2>3. Counted(p)
      BY <2>1, <2>2, PortLocksAssumption DEF Counted, LockFile
    <2>4. Shaped(p)
      BY <2>1 DEF Shaped
    <2>5. WaitsForTop(p) /\ HoldsOpen(p) /\ NotSelf(p)
      BY <2>1, PortLocksAssumption DEF WaitsForTop, HoldsOpen, NotSelf, LockFile
    <2> QED BY <2>3, <2>4, <2>5 DEF PInv
  <1> QED BY <1>2, <1>3 DEF IInv

\* A step of one process keeps everybody's part of the invariant.
LEMMA NextInv == IInv /\ [Next]_vars => IInv'
  <1> SUFFICES ASSUME IInv, [Next]_vars PROVE IInv'
    OBVIOUS
  <1>1. TypeOK /\ \A p \in Proc : PInv(p)
    BY DEF IInv
  <1>2. CASE UNCHANGED vars
    <2>1. TypeOK'
      BY <1>1, <1>2 DEF TypeOK, vars
    <2>2. ASSUME NEW p \in Proc PROVE PInv(p)'
      <3>1. Counted(p)' /\ Shaped(p)' /\ WaitsForTop(p)' /\ HoldsOpen(p)' /\ NotSelf(p)'
        BY <1>1, <1>2 DEF vars, PInv, Counted, Shaped, WaitsForTop, HoldsOpen, NotSelf,
                          Sections, Top
      <3> QED BY <3>1 DEF PInv
    <2> QED BY <2>1, <2>2 DEF IInv
  <1>3. CASE Next
    <2>1. PICK p \in Proc :
            \/ \E k \in Words, q \in Port : Begin(p, k, q)
            \/ Step(p)
            \/ Exit(p)
      BY <1>3 DEF Next
    <2>2. PInv(p)
      BY <1>1
    <2>3. TypeOK' /\ PInv(p)' /\ Others(p)
      <3>1. CASE \E k \in Words, q \in Port : Begin(p, k, q)
        BY <1>1, <2>2, <3>1, BeginStep
      <3>2. CASE Exit(p)
        BY <1>1, <2>2, <3>2, ExitStep
      <3>3. CASE Step(p)
        <4>1. CASE Grant(p)
          BY <1>1, <2>2, <4>1, GrantStep
        <4>2. CASE Parse(p)
          BY <1>1, <2>2, <4>2, ParseStep
        <4>3. CASE ParseFails(p)
          BY <1>1, <2>2, <4>3, ParseFailsStep
        <4>4. CASE EndAction(p)
          BY <1>1, <2>2, <4>4, EndActionStep
        <4>5. CASE \E q \in Port : EnterSection(p, q)
          BY <1>1, <2>2, <4>5, EnterSectionStep
        <4>6. CASE \E q \in Port : OpenState(p, q)
          BY <1>1, <2>2, <4>6, OpenStateStep
        <4>7. CASE LeaveSection(p)
          BY <1>1, <2>2, <4>7, LeaveSectionStep
        <4>8. CASE LeakSection(p)
          BY <1>1, <2>2, <4>8, LeakSectionStep
        <4>9. CASE CloseState(p)
          BY <1>1, <2>2, <4>9, CloseStateStep
        <4>10. CASE Reopen(p)
          BY <1>1, <2>2, <4>10, ReopenStep
        <4> QED BY <3>3, <4>1, <4>2, <4>3, <4>4, <4>5, <4>6, <4>7, <4>8, <4>9, <4>10
                DEF Step
      <3> QED BY <2>1, <3>1, <3>2, <3>3
    <2>4. ASSUME NEW r \in Proc \ {p} PROVE PInv(r)'
      BY <1>1, <2>3, OthersKeep
    <2> QED BY <2>3, <2>4 DEF IInv
  <1> QED BY <1>2, <1>3

\* Every reachable state satisfies the invariant.
LEMMA AlwaysInv == Spec => []IInv
  BY InitInv, NextInv, PTL DEF Spec

-------------------------------------------------------------------------------
(* The theorems *)

\* The counts, stacks and locks of any number of processes keep their types; in
\* particular exclusive_unlock never takes a count below zero.
THEOREM PortLocksTypeOK == Spec => []TypeOK
  <1>1. IInv => TypeOK
    BY DEF IInv
  <1> QED BY <1>1, AlwaysInv, PTL

\* registry::nlocked is positive exactly when the process has the file lock or
\* waits for it, and it counts every lock that is still needed, however deep the
\* dependency phases are nested and however many of them leaked their lock.
THEOREM PortLocksCountIsTrue == Spec => []CountIsTrue
  <1>1. IInv => CountIsTrue
    BY DEF IInv, PInv, Counted, CountIsTrue, Sections, Open, OpenIn
  <1> QED BY <1>1, AlwaysInv, PTL

\* No nested exclusive_unlock takes the registry lock away from an action or a
\* dependency phase around it.
THEOREM PortLocksLockedWhileNeeded == Spec => []LockedWhileNeeded
  <1>1. ASSUME IInv PROVE LockedWhileNeeded
    <2> SUFFICES ASSUME NEW p \in Proc, NeedsRegistry(p) PROVE holder[Registry] = p
      BY DEF LockedWhileNeeded
    <2>1. /\ TypeOK /\ Counted(p) /\ Shaped(p)
          /\ waits[p] # Registry
          /\ locked[p] \/ OpenIn(stack[p], "section") # {}
      BY <1>1 DEF IInv, PInv, NeedsRegistry, Open, OpenIn
    <2>2. stack[p] \in Seq(Frame) /\ Sections(p) \in Nat /\ nlocked[p] \in Nat
      BY <2>1, Running DEF TypeOK
    <2>3. OpenIn(stack[p], "section") # {} => Sections(p) > 0
      BY <2>2, OpenFinite, FS_EmptySet DEF Sections
    <2>4. nlocked[p] > 0
      BY <2>1, <2>2, <2>3 DEF Counted
    <2> QED BY <2>1, <2>4 DEF Counted
  <1>2. IInv => LockedWhileNeeded
    BY <1>1
  <1> QED BY <1>2, AlwaysInv, PTL

\* Processes wait for each other in a circle only when one of them is in the
\* mpkg target, for any number of processes in the circle. Without it, a process
\* that waits has no state file, so everybody in the circle waits for the
\* registry, and so does its holder, which nobody is.
THEOREM PortLocksDeadlockNeedsMpkg == Spec => []DeadlockNeedsMpkg
  <1>1. ASSUME IInv PROVE DeadlockNeedsMpkg
    <2> SUFFICES ASSUME NEW S \in SUBSET Proc, Deadlocked(S),
                        \A p \in S : OpenIn(stack[p], "mpkg") = {}
                 PROVE  FALSE
      BY DEF DeadlockNeedsMpkg, Open, OpenIn
    <2>1. \A p \in S : waits[p] # NoFile /\ holder[waits[p]] \in S
      BY DEF Deadlocked
    <2>2. TypeOK /\ \A p \in S : PInv(p)
      BY <1>1 DEF IInv
    <2>3. ASSUME NEW r \in S, NEW q \in Port
          PROVE  holder[q] # r
      <3> SUFFICES ASSUME holder[q] = r PROVE FALSE
        OBVIOUS
      <3>1. PICK i \in 1..Len(stack[r]) :
              stack[r][i].kind \in {"target", "mpkg"} /\ stack[r][i].port = q
        BY <2>2 DEF PInv, HoldsOpen
      <3>2. stack[r][i].kind = "target"
        BY <3>1 DEF OpenIn
      <3>3. Top(r).kind = "target" /\ Top(r).port = q
        BY <2>2, <3>1, <3>2 DEF PInv, Shaped, Top
      <3>4. waits[r] \in LockFile /\ waits[r] # NoFile
        BY <2>1, <2>2 DEF TypeOK
      <3>5. waits[r] = q
        BY <2>2, <3>3, <3>4 DEF PInv, WaitsForTop, LockFile
      <3> QED BY <2>2, <3>4, <3>5 DEF PInv, NotSelf
    <2>4. ASSUME NEW r \in S PROVE waits[r] = Registry
      <3>1. waits[r] \in LockFile
        BY <2>1, <2>2 DEF TypeOK
      <3> QED BY <2>1, <2>3, <3>1 DEF LockFile
    <2>5. PICK r \in S : TRUE
      BY DEF Deadlocked
    <2>6. holder[Registry] \in S
      BY <2>1, <2>4, <2>5
    <2> QED BY <2>1, <2>2, <2>4, <2>6 DEF PInv, NotSelf
  <1>2. IInv => DeadlockNeedsMpkg
    BY <1>1
  <1> QED BY <1>2, AlwaysInv, PTL
===============================================================================
