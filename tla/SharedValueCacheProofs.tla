------------------------ MODULE SharedValueCacheProofs ------------------------
(***************************************************************************)
(* What SharedValueCache guarantees for every number of binds, every       *)
(* injector chain and every provider configuration.                        *)
(*                                                                         *)
(* OneFlight and CachedValueStays speak of two binds or of two moments;    *)
(* neither is inductive.  The inductive invariant ties every mutex to the  *)
(* one frame that will unlock it, and says of each frame alone which       *)
(* mutexes it must have by the stage it is in and what the shared cache    *)
(* holds under them.                                                       *)
(***************************************************************************)
EXTENDS SharedValueCache, SequenceTheorems, TLAPS

FrameType ==
  [ loc : Locations, type : Types, owner : Nat,
    stage : {"owner", "lock", "recheck", "provide"},
    locks : SUBSET (Keys \X Nat), gen : Nat, call : Nat, todo : SUBSET Requests ]

TypeOK ==
  /\ system \in Systems
  /\ goals \in [Binds -> SUBSET Requests]
  /\ stack \in [Binds -> Seq(FrameType)]
  /\ shared \in [Keys -> Nat]
  /\ clears \in Nat
  /\ calls \in [Keys -> Nat]

\* A mutex a frame has locked is held by its bind.
LocksAreHeld ==
  \A b \in Binds : \A i \in DOMAIN stack[b] : \A x \in stack[b][i].locks :
    x \in DOMAIN holder /\ holder[x] = b

\* Two frames of a bind never share a mutex.
LocksAreDisjoint ==
  \A b \in Binds : \A i, j \in DOMAIN stack[b] :
    i # j => stack[b][i].locks \cap stack[b][j].locks = {}

\* A mutex is held by a bind that has the frame which will unlock it.
LocksHaveFrames ==
  \A x \in DOMAIN holder :
    /\ holder[x] \in Binds
    /\ \E i \in DOMAIN stack[holder[x]] : x \in stack[holder[x]][i].locks

LockInv == LocksAreHeld /\ LocksAreDisjoint /\ LocksHaveFrames

\* The mutexes of a frame are of the locker's generations so far.
Generations(f, n) == f.gen <= n /\ \A x \in f.locks : x[2] <= n

\* Only an owner that has a provider gets past the first stage.
Provided(f, sys) == f.stage # "owner" => KeyOf(f) \in sys.registered

\* The provider of a cacheable key is called under the key's mutex.
CallsUnderLock(f, sys) ==
  f.stage \in {"recheck", "provide"} /\ KeyOf(f) \in sys.cacheable =>
    <<KeyOf(f), f.gen>> \in f.locks

\* The mutexes are those of owners passed, and of the owner at work.
LocksBehind(f) ==
  \A x \in f.locks :
    /\ x[1][1] <= f.owner
    /\ f.stage \in {"owner", "lock"} => x[1][1] < f.owner

\* Until the cache is cleared nothing is cached under a mutex of the frame, but
\* for the key that has yet to be looked at.
EmptyUnderLock(f, sh, n) ==
  n = 0 => \A x \in f.locks : f.stage = "provide" \/ x[1] # KeyOf(f) => sh[x[1]] = None

\* Every cacheable child that was passed is still locked.
ChildrenLocked(f, sys, n) ==
  n = 0 => \A o \in 1..(f.owner - 1) :
    KeyAt(o, f) \in sys.registered \cap sys.cacheable =>
      <<KeyAt(o, f), 0>> \in f.locks

FrameInv(f, sys, sh, n) ==
  /\ Generations(f, n)
  /\ Provided(f, sys)
  /\ CallsUnderLock(f, sys)
  /\ LocksBehind(f)
  /\ EmptyUnderLock(f, sh, n)
  /\ ChildrenLocked(f, sys, n)

FramesInv ==
  \A b \in Binds : \A i \in DOMAIN stack[b] : FrameInv(stack[b][i], system, shared, clears)

IInv == TypeOK /\ LockInv /\ FramesInv

-----------------------------------------------------------------------------
(* The three ways a stack changes at its top.                              *)

LEMMA SeqReplace ==
  ASSUME NEW S, NEW s \in Seq(S), s # << >>, NEW f \in S,
         NEW t, t = <<f>> \o Tail(s)
  PROVE  /\ t \in Seq(S)
         /\ DOMAIN t = DOMAIN s /\ 1 \in DOMAIN s
         /\ t[1] = f
         /\ \A i \in DOMAIN s \ {1} : t[i] = s[i]
<1>1. /\ Tail(s) \in Seq(S) /\ Len(Tail(s)) = Len(s) - 1
      /\ \A i \in 1..Len(Tail(s)) : Tail(s)[i] = s[i + 1]
  BY HeadTailProperties
<1>2. Len(s) \in Nat \ {0} /\ DOMAIN s = 1..Len(s)
  BY EmptySeq, LenProperties
<1>3. <<f>> \in Seq(S) /\ Len(<<f>>) = 1 /\ <<f>>[1] = f
  OBVIOUS
<1>4. /\ t \in Seq(S) /\ Len(t) = Len(s)
      /\ \A i \in 1..Len(s) : t[i] = IF i <= 1 THEN <<f>>[i] ELSE Tail(s)[i - 1]
  BY <1>1, <1>2, <1>3, ConcatProperties
<1>5. DOMAIN t = 1..Len(t)
  BY <1>4, LenProperties
<1>q. QED
  BY <1>1, <1>2, <1>3, <1>4, <1>5

LEMMA SeqPop ==
  ASSUME NEW S, NEW s \in Seq(S), s # << >>,
         NEW t, t = Tail(s)
  PROVE  /\ t \in Seq(S) /\ 1 \in DOMAIN s
         /\ \A i \in DOMAIN t : i \in Nat /\ i + 1 \in DOMAIN s \ {1} /\ t[i] = s[i + 1]
         /\ \A j \in DOMAIN s \ {1} : j \in Nat /\ j - 1 \in DOMAIN t /\ t[j - 1] = s[j]
<1>1. /\ t \in Seq(S) /\ Len(t) = Len(s) - 1
      /\ \A i \in 1..Len(t) : t[i] = s[i + 1]
  BY HeadTailProperties
<1>2. Len(s) \in Nat \ {0} /\ DOMAIN s = 1..Len(s)
  BY EmptySeq, LenProperties
<1>3. DOMAIN t = 1..Len(t)
  BY <1>1, LenProperties
<1>q. QED
  BY <1>1, <1>2, <1>3

LEMMA SeqPush ==
  ASSUME NEW S, NEW s \in Seq(S), s # << >>, NEW f \in S, NEW g \in S,
         NEW t, t = <<g, f>> \o Tail(s)
  PROVE  /\ t \in Seq(S)
         /\ {1, 2} \subseteq DOMAIN t /\ 1 \in DOMAIN s
         /\ t[1] = g /\ t[2] = f
         /\ \A i \in DOMAIN t \ {1, 2} :
              i \in Nat /\ i - 1 \in DOMAIN s \ {1} /\ t[i] = s[i - 1]
         /\ \A j \in DOMAIN s \ {1} :
              j \in Nat /\ j + 1 \in DOMAIN t \ {1, 2} /\ t[j + 1] = s[j]
<1>1. /\ Tail(s) \in Seq(S) /\ Len(Tail(s)) = Len(s) - 1
      /\ \A i \in 1..Len(Tail(s)) : Tail(s)[i] = s[i + 1]
  BY HeadTailProperties
<1>2. Len(s) \in Nat \ {0} /\ DOMAIN s = 1..Len(s)
  BY EmptySeq, LenProperties
<1>3. <<g, f>> \in Seq(S) /\ Len(<<g, f>>) = 2 /\ <<g, f>>[1] = g /\ <<g, f>>[2] = f
  OBVIOUS
<1>4. /\ t \in Seq(S) /\ Len(t) = Len(s) + 1
      /\ \A i \in 1..(Len(s) + 1) : t[i] = IF i <= 2 THEN <<g, f>>[i] ELSE Tail(s)[i - 2]
  BY <1>1, <1>2, <1>3, ConcatProperties
<1>5. DOMAIN t = 1..Len(t)
  BY <1>4, LenProperties
<1>6. \A i \in 3..(Len(s) + 1) : t[i] = s[i - 1]
  BY <1>1, <1>2, <1>4
<1>7. t[1] = g /\ t[2] = f
  BY <1>2, <1>3, <1>4
<1>8. DOMAIN t \ {1, 2} = 3..(Len(s) + 1) /\ DOMAIN s \ {1} = 2..Len(s)
  BY <1>2, <1>4, <1>5
<1>9. ASSUME NEW i \in DOMAIN t \ {1, 2}
      PROVE  i \in Nat /\ i - 1 \in DOMAIN s \ {1} /\ t[i] = s[i - 1]
  BY <1>2, <1>6, <1>8
<1>10. ASSUME NEW j \in DOMAIN s \ {1}
       PROVE  j \in Nat /\ j + 1 \in DOMAIN t \ {1, 2} /\ t[j + 1] = s[j]
  <2>1. j \in Nat /\ j + 1 \in 3..(Len(s) + 1) /\ (j + 1) - 1 = j
    BY <1>2, <1>8
  <2>q. QED
    BY <1>6, <1>8, <2>1
<1>11. {1, 2} \subseteq DOMAIN t /\ 1 \in DOMAIN s
  BY <1>2, <1>4, <1>5
<1>q. QED
  BY <1>4, <1>7, <1>9, <1>10, <1>11

-----------------------------------------------------------------------------
(* Mutexes and frames, for each way a bind's stack changes.                *)

\* The top frame goes on with the mutexes it has.
LEMMA LocksReplace ==
  ASSUME TypeOK, LockInv, NEW b \in Binds, stack[b] # << >>, NEW f \in FrameType,
         f.locks = Top(b).locks, Update(b, f), holder' = holder
  PROVE  stack' \in [Binds -> Seq(FrameType)] /\ LockInv'
<1> DEFINE s == stack[b]
           t == <<f>> \o Tail(s)
<1>1. s \in Seq(FrameType) /\ Head(s) = s[1]
  BY DEF TypeOK
<1>2. /\ t \in Seq(FrameType)
      /\ DOMAIN t = DOMAIN s /\ 1 \in DOMAIN s
      /\ t[1] = f
      /\ \A i \in DOMAIN s \ {1} : t[i] = s[i]
  BY <1>1, SeqReplace
<1>3. stack' = [stack EXCEPT ![b] = t]
  BY DEF Update
<1> HIDE DEF s, t
<1>4. stack'[b] = t /\ \A c \in Binds \ {b} : stack'[c] = stack[c]
  BY <1>3 DEF TypeOK
<1>5. \A c \in Binds : /\ DOMAIN stack'[c] = DOMAIN stack[c]
                       /\ \A i \in DOMAIN stack[c] : stack'[c][i].locks = stack[c][i].locks
  BY <1>1, <1>2, <1>4 DEF s, Top
<1>6. stack' \in [Binds -> Seq(FrameType)]
  BY <1>2, <1>3 DEF TypeOK
<1>7. LocksAreHeld'
  BY <1>5 DEF LockInv, LocksAreHeld
<1>8. LocksAreDisjoint'
  BY <1>5 DEF LockInv, LocksAreDisjoint
<1>9. LocksHaveFrames'
  <2> SUFFICES ASSUME NEW x \in DOMAIN holder
               PROVE  /\ holder[x] \in Binds
                      /\ \E i \in DOMAIN stack'[holder[x]] :
                           x \in stack'[holder[x]][i].locks
    BY DEF LocksHaveFrames
  <2>1. holder[x] \in Binds /\ \E i \in DOMAIN stack[holder[x]] :
                                 x \in stack[holder[x]][i].locks
    BY DEF LockInv, LocksHaveFrames
  <2>q. QED
    BY <1>5, <2>1
<1>q. QED
  BY <1>6, <1>7, <1>8, <1>9 DEF LockInv

\* The top frame locks a mutex that was free.
LEMMA LocksTake ==
  ASSUME TypeOK, LockInv, NEW b \in Binds, stack[b] # << >>, NEW f \in FrameType,
         NEW x, x \notin DOMAIN holder, f.locks = Top(b).locks \cup {x}, Update(b, f),
         holder' = [y \in DOMAIN holder \cup {x} |-> IF y = x THEN b ELSE holder[y]]
  PROVE  stack' \in [Binds -> Seq(FrameType)] /\ LockInv'
<1> DEFINE s == stack[b]
           t == <<f>> \o Tail(s)
<1>1. s \in Seq(FrameType) /\ Head(s) = s[1]
  BY DEF TypeOK
<1>2. /\ t \in Seq(FrameType)
      /\ DOMAIN t = DOMAIN s /\ 1 \in DOMAIN s
      /\ t[1] = f
      /\ \A i \in DOMAIN s \ {1} : t[i] = s[i]
  BY <1>1, SeqReplace
<1>3. stack' = [stack EXCEPT ![b] = t]
  BY DEF Update
<1> HIDE DEF s, t
<1>4. stack'[b] = t /\ \A c \in Binds \ {b} : stack'[c] = stack[c]
  BY <1>3 DEF TypeOK
<1>5. /\ \A c \in Binds : DOMAIN stack'[c] = DOMAIN stack[c]
      /\ \A c \in Binds : \A i \in DOMAIN stack[c] :
           stack'[c][i].locks =
             IF c = b /\ i = 1 THEN stack[c][i].locks \cup {x} ELSE stack[c][i].locks
      /\ 1 \in DOMAIN stack[b]
  BY <1>1, <1>2, <1>4 DEF s, Top
<1>a. ASSUME NEW c \in Binds, NEW i \in DOMAIN stack[c], c # b \/ i # 1
      PROVE  stack'[c][i].locks = stack[c][i].locks
  BY <1>5, <1>a
<1>b. stack'[b][1].locks = stack[b][1].locks \cup {x}
  BY <1>5
<1>6. stack' \in [Binds -> Seq(FrameType)]
  BY <1>2, <1>3 DEF TypeOK
<1>7. /\ DOMAIN holder' = DOMAIN holder \cup {x}
      /\ holder'[x] = b
      /\ \A y \in DOMAIN holder : holder'[y] = holder[y]
  OBVIOUS
<1>8. LocksAreHeld'
  <2> SUFFICES ASSUME NEW c \in Binds, NEW i \in DOMAIN stack[c],
                      NEW y \in stack'[c][i].locks
               PROVE  y \in DOMAIN holder' /\ holder'[y] = c
    BY <1>5 DEF LocksAreHeld
  <2>1. CASE y \in stack[c][i].locks
    <3>1. y \in DOMAIN holder /\ holder[y] = c
      BY <2>1 DEF LockInv, LocksAreHeld
    <3>q. QED
      BY <1>7, <3>1
  <2>2. CASE y \notin stack[c][i].locks
    <3>1. c = b /\ i = 1
      BY <1>a, <2>2
    <3>2. y = x
      BY <1>b, <2>2, <3>1
    <3>q. QED
      BY <1>7, <3>1, <3>2
  <2>q. QED
    BY <2>1, <2>2
<1>9. \A c \in Binds : \A i \in DOMAIN stack[c] : x \notin stack[c][i].locks
  BY DEF LockInv, LocksAreHeld
<1>10. LocksAreDisjoint'
  <2> SUFFICES ASSUME NEW c \in Binds, NEW i \in DOMAIN stack[c],
                      NEW j \in DOMAIN stack[c], i # j
               PROVE  stack'[c][i].locks \cap stack'[c][j].locks = {}
    BY <1>5 DEF LocksAreDisjoint
  <2>1. stack[c][i].locks \cap stack[c][j].locks = {}
    BY DEF LockInv, LocksAreDisjoint
  <2>2. /\ stack'[c][i].locks \subseteq stack[c][i].locks \cup {x}
        /\ stack'[c][j].locks \subseteq stack[c][j].locks \cup {x}
        /\ x \in stack'[c][i].locks => i = 1
        /\ x \in stack'[c][j].locks => j = 1
    BY <1>a, <1>b, <1>9
  <2>q. QED
    BY <1>9, <2>1, <2>2
<1>11. LocksHaveFrames'
  <2> SUFFICES ASSUME NEW y \in DOMAIN holder'
               PROVE  /\ holder'[y] \in Binds
                      /\ \E i \in DOMAIN stack'[holder'[y]] :
                           y \in stack'[holder'[y]][i].locks
    BY DEF LocksHaveFrames
  <2>1. CASE y = x
    BY <1>5, <1>7, <1>b, <2>1
  <2>2. CASE y # x
    <3>1. y \in DOMAIN holder /\ holder'[y] = holder[y]
      BY <1>7, <2>2
    <3>2. holder[y] \in Binds
      BY <3>1 DEF LockInv, LocksHaveFrames
    <3>3. PICK i \in DOMAIN stack[holder[y]] : y \in stack[holder[y]][i].locks
      BY <3>1 DEF LockInv, LocksHaveFrames
    <3>4. i \in DOMAIN stack'[holder[y]] /\ y \in stack'[holder[y]][i].locks
      BY <1>5, <1>a, <1>b, <3>2, <3>3
    <3>q. QED
      BY <3>1, <3>2, <3>4
  <2>q. QED
    BY <2>1, <2>2
<1>q. QED
  BY <1>6, <1>8, <1>10, <1>11 DEF LockInv

\* The top frame returns and unlocks its mutexes.
LEMMA LocksReturn ==
  ASSUME TypeOK, LockInv, NEW b \in Binds, stack[b] # << >>, Return(b)
  PROVE  stack' \in [Binds -> Seq(FrameType)] /\ LockInv'
<1> DEFINE s == stack[b]
           t == Tail(s)
<1>1. s \in Seq(FrameType) /\ Head(s) = s[1]
  BY DEF TypeOK
<1>2. /\ t \in Seq(FrameType) /\ 1 \in DOMAIN s
      /\ \A i \in DOMAIN t : i \in Nat /\ i + 1 \in DOMAIN s \ {1} /\ t[i] = s[i + 1]
      /\ \A j \in DOMAIN s \ {1} : j \in Nat /\ j - 1 \in DOMAIN t /\ t[j - 1] = s[j]
  BY <1>1, SeqPop
<1>3. stack' = [stack EXCEPT ![b] = t]
  BY DEF Return
<1> HIDE DEF s, t
<1>4. stack'[b] = t /\ \A c \in Binds \ {b} : stack'[c] = stack[c]
  BY <1>3 DEF TypeOK
<1>6. stack' \in [Binds -> Seq(FrameType)]
  BY <1>2, <1>3 DEF TypeOK
<1>7. /\ DOMAIN holder' = DOMAIN holder \ s[1].locks
      /\ \A y \in DOMAIN holder' : holder'[y] = holder[y]
  BY <1>1 DEF Return, Unlocked, Top, s
<1>8. LocksAreHeld'
  <2>1. ASSUME NEW c \in Binds, c # b, NEW i \in DOMAIN stack[c], NEW x \in stack[c][i].locks
        PROVE  x \in DOMAIN holder' /\ holder'[x] = c
    <3>1. x \in DOMAIN holder /\ holder[x] = c
      BY DEF LockInv, LocksAreHeld
    <3>2. x \notin s[1].locks
      BY <1>2, <2>1, <3>1 DEF LockInv, LocksAreHeld, s
    <3>q. QED
      BY <1>7, <3>1, <3>2
  <2>2. ASSUME NEW i \in DOMAIN t, NEW x \in t[i].locks
        PROVE  x \in DOMAIN holder' /\ holder'[x] = b
    <3>1. i + 1 \in DOMAIN s \ {1} /\ x \in s[i + 1].locks
      BY <1>2
    <3>2. x \in DOMAIN holder /\ holder[x] = b
      BY <3>1 DEF LockInv, LocksAreHeld, s
    <3>3. x \notin s[1].locks
      BY <1>2, <3>1 DEF LockInv, LocksAreDisjoint, s
    <3>q. QED
      BY <1>7, <3>2, <3>3
  <2>q. QED
    BY <1>4, <2>1, <2>2 DEF LocksAreHeld
<1>9. LocksAreDisjoint'
  <2>1. ASSUME NEW i \in DOMAIN t, NEW j \in DOMAIN t, i # j
        PROVE  t[i].locks \cap t[j].locks = {}
    <3>1. /\ i + 1 \in DOMAIN s /\ j + 1 \in DOMAIN s /\ i + 1 # j + 1
          /\ t[i] = s[i + 1] /\ t[j] = s[j + 1]
      BY <1>2, <2>1
    <3>2. s[i + 1].locks \cap s[j + 1].locks = {}
      BY <3>1 DEF LockInv, LocksAreDisjoint, s
    <3>q. QED
      BY <3>1, <3>2
  <2>2. \A i, j \in DOMAIN stack'[b] :
          i # j => stack'[b][i].locks \cap stack'[b][j].locks = {}
    BY <1>4, <2>1
  <2>3. \A c \in Binds \ {b} : \A i, j \in DOMAIN stack'[c] :
          i # j => stack'[c][i].locks \cap stack'[c][j].locks = {}
    BY <1>4 DEF LockInv, LocksAreDisjoint
  <2>q. QED
    BY <2>2, <2>3 DEF LocksAreDisjoint
<1>10. LocksHaveFrames'
  <2> SUFFICES ASSUME NEW x \in DOMAIN holder'
               PROVE  /\ holder'[x] \in Binds
                      /\ \E i \in DOMAIN stack'[holder'[x]] :
                           x \in stack'[holder'[x]][i].locks
    BY DEF LocksHaveFrames
  <2>1. x \in DOMAIN holder /\ x \notin s[1].locks /\ holder'[x] = holder[x]
    BY <1>7
  <2>2. holder[x] \in Binds
    BY <2>1 DEF LockInv, LocksHaveFrames
  <2>3. PICK i \in DOMAIN stack[holder[x]] : x \in stack[holder[x]][i].locks
    BY <2>1 DEF LockInv, LocksHaveFrames
  <2>4. CASE holder[x] # b
    BY <1>4, <2>1, <2>2, <2>3, <2>4
  <2>5. CASE holder[x] = b
    <3>1. i \in DOMAIN s \ {1} /\ x \in s[i].locks
      BY <2>1, <2>3, <2>5 DEF s
    <3>2. i - 1 \in DOMAIN t /\ x \in t[i - 1].locks
      BY <1>2, <3>1
    <3>q. QED
      BY <1>4, <2>1, <2>2, <2>5, <3>2
  <2>q. QED
    BY <2>4, <2>5
<1>q. QED
  BY <1>6, <1>8, <1>9, <1>10 DEF LockInv

\* The provider of the top frame resolves another location.
LEMMA LocksPush ==
  ASSUME TypeOK, LockInv, NEW b \in Binds, stack[b] # << >>,
         NEW f \in FrameType, f.locks = Top(b).locks,
         NEW g \in FrameType, g.locks = {},
         stack' = [stack EXCEPT ![b] = <<g, f>> \o Tail(@)], holder' = holder
  PROVE  stack' \in [Binds -> Seq(FrameType)] /\ LockInv'
<1> DEFINE s == stack[b]
           t == <<g, f>> \o Tail(s)
<1>1. s \in Seq(FrameType) /\ s # << >> /\ t = <<g, f>> \o Tail(s)
  BY DEF TypeOK
<1>a. Head(s) = s[1]
  BY <1>1
<1> HIDE DEF s, t
<1>2. /\ t \in Seq(FrameType)
      /\ {1, 2} \subseteq DOMAIN t /\ 1 \in DOMAIN s
      /\ t[1] = g /\ t[2] = f
  BY <1>1, SeqPush
<1>b. \A i \in DOMAIN t \ {1, 2} : i \in Nat /\ i - 1 \in DOMAIN s \ {1} /\ t[i] = s[i - 1]
  BY <1>1, SeqPush
<1>c. \A j \in DOMAIN s \ {1} : j \in Nat /\ j + 1 \in DOMAIN t \ {1, 2} /\ t[j + 1] = s[j]
  BY <1>1, SeqPush
<1>3. stack' = [stack EXCEPT ![b] = t]
  BY <1>1 DEF s
<1>4. stack'[b] = t /\ \A c \in Binds \ {b} : stack'[c] = stack[c]
  BY <1>3 DEF TypeOK
<1>5. \A i \in DOMAIN t \ {1} :
        i - 1 \in DOMAIN s /\ i \in Nat /\ t[i].locks = s[i - 1].locks
  BY <1>a, <1>2, <1>b, <1>c DEF s, Top
<1>6. \A j \in DOMAIN s :
        j + 1 \in DOMAIN t \ {1} /\ j \in Nat /\ t[j + 1].locks = s[j].locks
  BY <1>a, <1>2, <1>b, <1>c DEF s, Top
<1>7. t[1].locks = {}
  BY <1>2
<1>8. LocksAreHeld'
  BY <1>4, <1>5, <1>7 DEF LockInv, LocksAreHeld, s
<1>9. LocksAreDisjoint'
  <2>1. ASSUME NEW i \in DOMAIN t, NEW j \in DOMAIN t, i # j
        PROVE  t[i].locks \cap t[j].locks = {}
    <3>1. CASE i = 1 \/ j = 1
      BY <1>7, <3>1
    <3>2. CASE i # 1 /\ j # 1
      <4>1. /\ i - 1 \in DOMAIN s /\ j - 1 \in DOMAIN s /\ i - 1 # j - 1
            /\ t[i].locks = s[i - 1].locks /\ t[j].locks = s[j - 1].locks
        BY <1>5, <2>1, <3>2
      <4>2. s[i - 1].locks \cap s[j - 1].locks = {}
        BY <4>1 DEF LockInv, LocksAreDisjoint, s
      <4>q. QED
        BY <4>1, <4>2
    <3>q. QED
      BY <3>1, <3>2
  <2>q. QED
    <3>1. \A c \in Binds \ {b} : \A i, j \in DOMAIN stack'[c] :
            i # j => stack'[c][i].locks \cap stack'[c][j].locks = {}
      BY <1>4 DEF LockInv, LocksAreDisjoint
    <3>q. QED
      <4>1. \A i, j \in DOMAIN stack'[b] :
              i # j => stack'[b][i].locks \cap stack'[b][j].locks = {}
        BY <1>4, <2>1
      <4>q. QED
        BY <3>1, <4>1 DEF LocksAreDisjoint
<1>10. LocksHaveFrames'
  <2> SUFFICES ASSUME NEW x \in DOMAIN holder
               PROVE  /\ holder[x] \in Binds
                      /\ \E i \in DOMAIN stack'[holder[x]] :
                           x \in stack'[holder[x]][i].locks
    BY DEF LocksHaveFrames
  <2>1. holder[x] \in Binds
    BY DEF LockInv, LocksHaveFrames
  <2>2. PICK i \in DOMAIN stack[holder[x]] : x \in stack[holder[x]][i].locks
    BY DEF LockInv, LocksHaveFrames
  <2>3. CASE holder[x] # b
    BY <1>4, <2>1, <2>2, <2>3
  <2>4. CASE holder[x] = b
    <3>1. i + 1 \in DOMAIN t /\ x \in t[i + 1].locks
      BY <1>6, <2>2, <2>4 DEF s
    <3>q. QED
      BY <1>4, <2>1, <2>4, <3>1
  <2>q. QED
    BY <2>3, <2>4
<1>11. stack' \in [Binds -> Seq(FrameType)]
  BY <1>2, <1>3 DEF TypeOK
<1>q. QED
  BY <1>8, <1>9, <1>10, <1>11 DEF LockInv

\* The first frame of a binding.
LEMMA LocksBegin ==
  ASSUME TypeOK, LockInv, NEW b \in Binds, stack[b] = << >>,
         NEW f \in FrameType, f.locks = {},
         stack' = [stack EXCEPT ![b] = <<f>>], holder' = holder
  PROVE  stack' \in [Binds -> Seq(FrameType)] /\ LockInv'
<1> DEFINE t == <<f>>
<1>1. t \in Seq(FrameType) /\ DOMAIN t = {1} /\ t[1] = f
  OBVIOUS
<1>2. stack' = [stack EXCEPT ![b] = t]
  OBVIOUS
<1> HIDE DEF t
<1>3. stack'[b] = t /\ \A c \in Binds \ {b} : stack'[c] = stack[c]
  BY <1>2 DEF TypeOK
<1>4. LocksAreHeld'
  BY <1>1, <1>3 DEF LockInv, LocksAreHeld
<1>5. LocksAreDisjoint'
  BY <1>1, <1>3 DEF LockInv, LocksAreDisjoint
<1>6. \A x \in DOMAIN holder : holder[x] # b
  BY DEF LockInv, LocksHaveFrames
<1>7. LocksHaveFrames'
  BY <1>3, <1>6 DEF LockInv, LocksHaveFrames
<1>8. stack' \in [Binds -> Seq(FrameType)]
  BY <1>1, <1>2 DEF TypeOK
<1>q. QED
  BY <1>4, <1>5, <1>7, <1>8 DEF LockInv

\* A panic unlocks the mutexes of every frame.
LEMMA LocksUnwind ==
  ASSUME TypeOK, LockInv, NEW b \in Binds, stack' = [stack EXCEPT ![b] = << >>],
         holder' = Unlocked(UnwoundLocks(b))
  PROVE  stack' \in [Binds -> Seq(FrameType)] /\ LockInv'
<1>1. stack' \in [Binds -> Seq(FrameType)]
  BY EmptySeq DEF TypeOK
<1>2. DOMAIN stack'[b] = {} /\ \A c \in Binds \ {b} : stack'[c] = stack[c]
  BY DEF TypeOK
<1>3. /\ DOMAIN holder' = DOMAIN holder \ UnwoundLocks(b)
      /\ \A y \in DOMAIN holder' : holder'[y] = holder[y]
  BY DEF Unlocked
<1>4. \A x \in UnwoundLocks(b) : holder[x] = b
  BY DEF UnwoundLocks, LockInv, LocksAreHeld
<1>5. LocksAreHeld'
  BY <1>2, <1>3, <1>4 DEF LockInv, LocksAreHeld
<1>6. LocksAreDisjoint'
  BY <1>2 DEF LockInv, LocksAreDisjoint
<1>7. \A x \in DOMAIN holder' : holder[x] # b
  BY <1>3 DEF LockInv, LocksHaveFrames, UnwoundLocks
<1>8. LocksHaveFrames'
  BY <1>2, <1>3, <1>7 DEF LockInv, LocksHaveFrames
<1>q. QED
  BY <1>1, <1>5, <1>6, <1>8 DEF LockInv

-----------------------------------------------------------------------------
(* The invariant of single frames, for each way a stack changes: it is enough *)
(* to look at the frames that are new.                                        *)

LEMMA FramesReplace ==
  ASSUME TypeOK, NEW b \in Binds, stack[b] # << >>, NEW f \in FrameType, Update(b, f),
         system' = system, shared' = shared, clears' = clears,
         FramesInv, FrameInv(f, system, shared, clears)
  PROVE  FramesInv'
<1> DEFINE s == stack[b]
           t == <<f>> \o Tail(s)
<1>1. s \in Seq(FrameType)
  BY DEF TypeOK
<1>2. /\ DOMAIN t = DOMAIN s /\ t[1] = f
      /\ \A i \in DOMAIN s \ {1} : t[i] = s[i]
  BY <1>1, SeqReplace
<1>3. stack' = [stack EXCEPT ![b] = t]
  BY DEF Update
<1> HIDE DEF s, t
<1>4. stack'[b] = t /\ \A c \in Binds \ {b} : stack'[c] = stack[c]
  BY <1>3 DEF TypeOK
<1>q. QED
  BY <1>2, <1>4 DEF FramesInv, s

LEMMA FramesReturn ==
  ASSUME TypeOK, NEW b \in Binds, stack[b] # << >>, Return(b), system' = system,
         \A c \in Binds : \A i \in DOMAIN stack[c] :
           c # b \/ i # 1 => FrameInv(stack[c][i], system, shared', clears')
  PROVE  FramesInv'
<1> DEFINE s == stack[b]
           t == Tail(s)
<1>1. s \in Seq(FrameType)
  BY DEF TypeOK
<1>2. \A i \in DOMAIN t : i + 1 \in DOMAIN s \ {1} /\ t[i] = s[i + 1]
  BY <1>1, SeqPop
<1>3. stack' = [stack EXCEPT ![b] = t]
  BY DEF Return
<1> HIDE DEF s, t
<1>4. stack'[b] = t /\ \A c \in Binds \ {b} : stack'[c] = stack[c]
  BY <1>3 DEF TypeOK
<1>5. \A i \in DOMAIN t : FrameInv(t[i], system, shared', clears')
  BY <1>2 DEF s
<1>q. QED
  BY <1>4, <1>5 DEF FramesInv

LEMMA FramesPush ==
  ASSUME TypeOK, NEW b \in Binds, stack[b] # << >>, NEW f \in FrameType, NEW g \in FrameType,
         stack' = [stack EXCEPT ![b] = <<g, f>> \o Tail(@)],
         system' = system, shared' = shared, clears' = clears, FramesInv,
         FrameInv(f, system, shared, clears), FrameInv(g, system, shared, clears)
  PROVE  FramesInv'
<1> DEFINE s == stack[b]
           t == <<g, f>> \o Tail(s)
<1>1. s \in Seq(FrameType) /\ s # << >> /\ t = <<g, f>> \o Tail(s)
  BY DEF TypeOK
<1>2. stack' = [stack EXCEPT ![b] = t]
  OBVIOUS
<1> HIDE DEF s, t
<1>3. /\ t[1] = g /\ t[2] = f
      /\ \A i \in DOMAIN t \ {1, 2} : i - 1 \in DOMAIN s \ {1} /\ t[i] = s[i - 1]
  BY <1>1, SeqPush
<1>4. stack'[b] = t /\ \A c \in Binds \ {b} : stack'[c] = stack[c]
  BY <1>2 DEF TypeOK
<1>5. \A i \in DOMAIN t : FrameInv(t[i], system, shared, clears)
  BY <1>3 DEF FramesInv, s
<1>q. QED
  BY <1>4, <1>5 DEF FramesInv

-----------------------------------------------------------------------------
(* What happens to a single frame.                                         *)

\* The parts of a configuration.
LEMMA SystemType ==
  ASSUME NEW sys \in Systems
  PROVE  /\ sys.registered \subseteq Keys /\ sys.cacheable \subseteq Keys
         /\ sys.needs \in [Locations -> SUBSET Requests] /\ sys.plan \subseteq Requests
  BY SystemsAssumption

\* The fields of a frame that passes on to the next owner, or has loaded a mutex.
LEMMA PassedFields ==
  ASSUME NEW f \in FrameType, NEW g, g = [f EXCEPT !.owner = @ + 1, !.stage = "owner"]
  PROVE  /\ g \in FrameType
         /\ g.loc = f.loc /\ g.owner = f.owner + 1 /\ g.stage = "owner"
         /\ g.locks = f.locks /\ g.gen = f.gen
<1>1. f.owner + 1 \in Nat
  BY DEF FrameType
<1>2. g \in FrameType
  BY <1>1 DEF FrameType
<1>q. QED
  BY <1>2 DEF FrameType

LEMMA LoadedFields ==
  ASSUME NEW f \in FrameType, NEW n, n \in Nat
  PROVE  LET g == [f EXCEPT !.stage = "lock", !.gen = n]
         IN /\ g \in FrameType
            /\ g.loc = f.loc /\ g.type = f.type /\ g.owner = f.owner /\ g.stage = "lock"
            /\ g.locks = f.locks /\ g.gen = n
  BY DEF FrameType

LEMMA NewFrame ==
  ASSUME NEW r \in Requests, NEW sys, NEW sh, NEW n \in Nat
  PROVE  Frame(r) \in FrameType /\ Frame(r).locks = {} /\ FrameInv(Frame(r), sys, sh, n)
<1>1. Frame(r) \in FrameType /\ Frame(r).locks = {}
  BY DEF Frame, FrameType, Requests
<1>2. FrameInv(Frame(r), sys, sh, n)
  BY DEF Frame, FrameInv, Generations, Provided, CallsUnderLock, LocksBehind,
         EmptyUnderLock, ChildrenLocked, KeyAt
<1>q. QED
  BY <1>1, <1>2

LEMMA OuterFrame ==
  ASSUME NEW f \in FrameType, NEW sys, NEW sh, NEW n, FrameInv(f, sys, sh, n),
         NEW l, NEW g, g = [f EXCEPT !.todo = @ \ {l}]
  PROVE  g \in FrameType /\ g.locks = f.locks /\ FrameInv(g, sys, sh, n)
<1>1. /\ g \in FrameType
      /\ g.loc = f.loc /\ g.owner = f.owner /\ g.stage = f.stage /\ g.locks = f.locks
      /\ g.gen = f.gen
  BY DEF FrameType
<1>q. QED
  BY <1>1 DEF FrameInv, Generations, Provided, CallsUnderLock, LocksBehind,
              EmptyUnderLock, ChildrenLocked, KeyOf, KeyAt

\* The owner was asked, or has no provider.
LEMMA PassedFrame ==
  ASSUME NEW f \in FrameType, NEW sys \in Systems, NEW sh, NEW n \in Nat,
         FrameInv(f, sys, sh, n),
         f.stage = "provide" \/ (f.stage = "owner" /\ KeyOf(f) \notin sys.registered),
         NEW g, g = [f EXCEPT !.owner = @ + 1, !.stage = "owner"]
  PROVE  g \in FrameType /\ g.locks = f.locks /\ FrameInv(g, sys, sh, n)
<1>1. /\ g \in FrameType
      /\ g.loc = f.loc /\ g.owner = f.owner + 1 /\ g.stage = "owner" /\ g.locks = f.locks
      /\ g.gen = f.gen
  BY PassedFields
<1>2. f.owner \in Nat /\ f.locks \subseteq Keys \X Nat /\ f.gen \in Nat
  BY DEF FrameType
<1>3. \A x \in f.locks : x[1][1] \in Nat /\ x[2] \in Nat
  BY <1>2, OwnersAssumption DEF Keys
<1>4. LocksBehind(g)
  BY <1>1, <1>2, <1>3 DEF FrameInv, LocksBehind
<1>5. EmptyUnderLock(g, sh, n)
  <2>1. CASE f.stage = "provide"
    BY <1>1, <2>1 DEF FrameInv, EmptyUnderLock
  <2>2. CASE f.stage = "owner"
    <3>1. \A x \in f.locks : x[1] # KeyOf(f)
      BY <1>2, <1>3, <2>2 DEF FrameInv, LocksBehind, KeyOf, KeyAt
    <3>q. QED
      BY <1>1, <3>1 DEF FrameInv, EmptyUnderLock
  <2>q. QED
    BY <2>1, <2>2
<1>6. ChildrenLocked(g, sys, n)
  <2> SUFFICES ASSUME n = 0, NEW o \in 1..f.owner,
                      KeyAt(o, f) \in sys.registered \cap sys.cacheable
               PROVE  <<KeyAt(o, f), 0>> \in f.locks
    BY <1>1, <1>2 DEF ChildrenLocked, KeyAt
  <2>1. CASE o = f.owner
    <3>1. f.stage = "provide" /\ KeyOf(f) \in sys.cacheable
      BY <2>1 DEF KeyOf, KeyAt
    <3>2. f.gen = 0
      BY <1>2 DEF FrameInv, Generations
    <3>q. QED
      BY <2>1, <3>1, <3>2 DEF FrameInv, CallsUnderLock, KeyOf, KeyAt
  <2>2. CASE o # f.owner
    <3>1. o \in 1..(f.owner - 1)
      BY <1>2, <2>2
    <3>q. QED
      BY <3>1 DEF FrameInv, ChildrenLocked, KeyAt
  <2>q. QED
    BY <2>1, <2>2
<1>q. QED
  BY <1>1, <1>4, <1>5, <1>6 DEF FrameInv, Generations, Provided, CallsUnderLock

\* The provider is asked, without a mutex or after the cache was looked at again.
LEMMA AskedFrame ==
  ASSUME NEW f \in FrameType, NEW sys \in Systems, NEW sh, NEW n \in Nat,
         FrameInv(f, sys, sh, n),
         \/ f.stage = "owner" /\ KeyOf(f) \in sys.registered \ sys.cacheable
         \/ f.stage = "recheck" /\ sh[KeyOf(f)] = None,
         NEW c \in Nat,
         NEW g, g = [f EXCEPT !.stage = "provide", !.call = c, !.todo = sys.needs[f.loc]]
  PROVE  g \in FrameType /\ g.locks = f.locks /\ FrameInv(g, sys, sh, n)
<1>1. /\ g \in FrameType
      /\ g.loc = f.loc /\ g.owner = f.owner /\ g.stage = "provide" /\ g.locks = f.locks
      /\ g.gen = f.gen
  BY SystemType DEF FrameType
<1>2. f.owner \in Nat /\ f.locks \subseteq Keys \X Nat
  BY DEF FrameType
<1>3. KeyOf(g) = KeyOf(f)
  BY <1>1 DEF KeyOf, KeyAt
<1>4. EmptyUnderLock(g, sh, n)
  <2>1. CASE f.stage = "owner"
    <3>1. \A x \in f.locks : x[1][1] \in Nat
      BY <1>2, OwnersAssumption DEF Keys
    <3>2. \A x \in f.locks : x[1] # KeyOf(f)
      BY <1>2, <2>1, <3>1 DEF FrameInv, LocksBehind, KeyOf, KeyAt
    <3>q. QED
      BY <1>1, <3>2 DEF FrameInv, EmptyUnderLock
  <2>2. CASE f.stage = "recheck"
    BY <1>1, <2>2 DEF FrameInv, EmptyUnderLock
  <2>q. QED
    BY <2>1, <2>2
<1>5. CallsUnderLock(g, sys)
  BY <1>1, <1>3 DEF FrameInv, CallsUnderLock
<1>6. Provided(g, sys)
  BY <1>1, <1>3 DEF FrameInv, Provided
<1>7. Generations(g, n) /\ LocksBehind(g) /\ ChildrenLocked(g, sys, n)
  BY <1>1 DEF FrameInv, Generations, LocksBehind, ChildrenLocked, KeyAt
<1>q. QED
  BY <1>1, <1>4, <1>5, <1>6, <1>7 DEF FrameInv

\* The key's mutex was loaded.
LEMMA LoadedFrame ==
  ASSUME NEW f \in FrameType, NEW sys, NEW sh, NEW n \in Nat, FrameInv(f, sys, sh, n),
         f.stage = "owner", KeyOf(f) \in sys.registered, NEW g \in FrameType,
         g.loc = f.loc, g.type = f.type, g.owner = f.owner, g.stage = "lock", g.locks = f.locks, g.gen = n
  PROVE  FrameInv(g, sys, sh, n)
<1>1. KeyOf(g) = KeyOf(f)
  BY DEF KeyOf, KeyAt
<1>q. QED
  BY <1>1 DEF FrameInv, Generations, Provided, CallsUnderLock, LocksBehind,
              EmptyUnderLock, ChildrenLocked, KeyAt

\* The key's mutex was locked.
LEMMA LockedFrame ==
  ASSUME NEW f \in FrameType, NEW sys \in Systems, NEW sh, NEW n \in Nat,
         FrameInv(f, sys, sh, n), f.stage = "lock", NEW x, x = <<KeyOf(f), f.gen>>,
         NEW g, g = [f EXCEPT !.stage = "recheck", !.locks = @ \cup {x}]
  PROVE  g \in FrameType /\ g.locks = f.locks \cup {x} /\ FrameInv(g, sys, sh, n)
<1>1. KeyOf(f) \in Keys /\ f.gen \in Nat
  BY SystemType DEF FrameInv, Provided, FrameType
<1>2. x \in Keys \X Nat /\ x[1] = KeyOf(f) /\ x[2] = f.gen /\ x[1][1] = f.owner
  BY <1>1 DEF KeyOf, KeyAt
<1>3. /\ g \in FrameType
      /\ g.loc = f.loc /\ g.owner = f.owner /\ g.stage = "recheck"
      /\ g.locks = f.locks \cup {x} /\ g.gen = f.gen
  BY <1>2 DEF FrameType
<1>4. KeyOf(g) = KeyOf(f)
  BY <1>3 DEF KeyOf, KeyAt
<1>5. Generations(g, n) /\ Provided(g, sys) /\ CallsUnderLock(g, sys)
  BY <1>2, <1>3, <1>4 DEF FrameInv, Generations, Provided, CallsUnderLock
<1>6. f.owner \in Nat
  BY DEF FrameType
<1>7. LocksBehind(g)
  BY <1>2, <1>3, <1>6 DEF FrameInv, LocksBehind
<1>8. EmptyUnderLock(g, sh, n)
  BY <1>2, <1>3, <1>4 DEF FrameInv, EmptyUnderLock
<1>9. ChildrenLocked(g, sys, n)
  BY <1>3 DEF FrameInv, ChildrenLocked, KeyAt
<1>q. QED
  BY <1>3, <1>5, <1>7, <1>8, <1>9 DEF FrameInv

-----------------------------------------------------------------------------
(* The actions.                                                            *)

\* What is known of the frame at work.
LEMMA TopFrame ==
  ASSUME IInv, NEW b \in Binds, stack[b] # << >>
  PROVE  /\ Top(b) \in FrameType /\ Top(b) = stack[b][1] /\ 1 \in DOMAIN stack[b]
         /\ FrameInv(Top(b), system, shared, clears)
<1>1. stack[b] \in Seq(FrameType)
  BY DEF IInv, TypeOK
<1>2. Len(stack[b]) \in Nat \ {0} /\ DOMAIN stack[b] = 1..Len(stack[b])
  BY <1>1, EmptySeq, LenProperties
<1>3. Top(b) \in FrameType /\ Top(b) = stack[b][1]
  BY <1>1, HeadTailProperties DEF Top
<1>q. QED
  BY <1>2, <1>3 DEF IInv, FramesInv

\* A step that leaves the caches and the mutexes alone and replaces the top frame.
LEMMA ReplaceStep ==
  ASSUME IInv, NEW b \in Binds, stack[b] # << >>, NEW f \in FrameType,
         f.locks = Top(b).locks, FrameInv(f, system, shared, clears), Update(b, f),
         UNCHANGED <<system, goals, shared, holder, clears>>, calls' \in [Keys -> Nat]
  PROVE  IInv'
<1>1. stack' \in [Binds -> Seq(FrameType)] /\ LockInv'
  BY LocksReplace DEF IInv
<1>2. FramesInv'
  BY FramesReplace DEF IInv
<1>q. QED
  BY <1>1, <1>2 DEF IInv, TypeOK

\* A return that leaves the shared cache alone.
LEMMA ReturnStep ==
  ASSUME IInv, NEW b \in Binds, stack[b] # << >>, Return(b),
         UNCHANGED <<system, goals, shared, clears, calls>>
  PROVE  IInv'
<1>1. stack' \in [Binds -> Seq(FrameType)] /\ LockInv'
  BY LocksReturn DEF IInv
<1>2. \A c \in Binds : \A i \in DOMAIN stack[c] :
        FrameInv(stack[c][i], system, shared', clears')
  BY DEF IInv, FramesInv
<1>3. FramesInv'
  BY <1>2, FramesReturn DEF IInv
<1>q. QED
  BY <1>1, <1>3 DEF IInv, TypeOK

LEMMA BeginKeeps ==
  ASSUME IInv, NEW b \in Binds, Begin(b)
  PROVE  IInv'
<1>1. PICK r \in goals[b] : /\ goals' = [goals EXCEPT ![b] = @ \ {r}]
                            /\ stack' = [stack EXCEPT ![b] = <<Frame(r)>>]
  BY DEF Begin
<1>2. r \in Requests /\ goals' \in [Binds -> SUBSET Requests]
  BY <1>1 DEF IInv, TypeOK
<1>3. /\ Frame(r) \in FrameType /\ Frame(r).locks = {}
      /\ FrameInv(Frame(r), system, shared, clears)
  BY <1>2, NewFrame DEF IInv, TypeOK
<1>4. /\ stack[b] = << >>
      /\ UNCHANGED <<system, mine, shared, holder, clears, clearing, calls, failed>>
  BY DEF Begin
<1>5. stack' \in [Binds -> Seq(FrameType)] /\ LockInv'
  BY <1>1, <1>3, <1>4, LocksBegin DEF IInv
<1>6. /\ stack'[b] = <<Frame(r)>>
      /\ \A c \in Binds \ {b} : stack'[c] = stack[c]
  BY <1>1 DEF IInv, TypeOK
<1>7. FramesInv'
  BY <1>3, <1>4, <1>6 DEF IInv, FramesInv
<1>q. QED
  BY <1>2, <1>4, <1>5, <1>7 DEF IInv, TypeOK

LEMMA NestKeeps ==
  ASSUME IInv, NEW b \in Binds, Nest(b)
  PROVE  IInv'
<1>1. stack[b] # << >>
  BY DEF Nest, In
<1>2. Top(b) \in FrameType /\ FrameInv(Top(b), system, shared, clears)
  BY <1>1, TopFrame
<1>3. PICK r \in Top(b).todo :
        stack' = [stack EXCEPT ![b] =
                    IF Cyclic(b, r[1]) THEN <<[Top(b) EXCEPT !.todo = @ \ {r}]>> \o Tail(@)
                    ELSE <<Frame(r), [Top(b) EXCEPT !.todo = @ \ {r}]>> \o Tail(@)]
  BY DEF Nest
<1>4. UNCHANGED <<system, goals, mine, shared, holder, clears, clearing, calls, failed>>
  BY DEF Nest
<1> DEFINE outer == [Top(b) EXCEPT !.todo = @ \ {r}]
<1>5. /\ outer \in FrameType /\ outer.locks = Top(b).locks
      /\ FrameInv(outer, system, shared, clears)
  BY <1>2, OuterFrame
<1> HIDE DEF outer
<1>6. r \in Requests
  BY <1>2 DEF FrameType
<1>7. /\ Frame(r) \in FrameType /\ Frame(r).locks = {}
      /\ FrameInv(Frame(r), system, shared, clears)
  BY <1>6, NewFrame DEF IInv, TypeOK
<1>8. CASE Cyclic(b, r[1])
  <2>1. Update(b, outer)
    BY <1>3, <1>8 DEF Update, outer
  <2>q. QED
    BY <1>1, <1>4, <1>5, <2>1, ReplaceStep DEF IInv, TypeOK
<1>9. CASE ~Cyclic(b, r[1])
  <2>1. stack' = [stack EXCEPT ![b] = <<Frame(r), outer>> \o Tail(@)]
    BY <1>3, <1>9 DEF outer
  <2>2. stack' \in [Binds -> Seq(FrameType)] /\ LockInv'
    BY <1>1, <1>4, <1>5, <1>7, <2>1, LocksPush DEF IInv
  <2>3. FramesInv'
    BY <1>1, <1>4, <1>5, <1>7, <2>1, FramesPush DEF IInv
  <2>q. QED
    BY <1>4, <2>2, <2>3 DEF IInv, TypeOK
<1>q. QED
  BY <1>8, <1>9

\* The loop over the owners goes on.
LEMMA NextOwnerKeeps ==
  ASSUME IInv, NEW b \in Binds, stack[b] # << >>, NextOwner(b, Top(b)),
         \/ Top(b).stage = "provide"
         \/ Top(b).stage = "owner" /\ KeyOf(Top(b)) \notin system.registered,
         UNCHANGED <<system, goals, shared, clears, calls>>
  PROVE  IInv'
<1> DEFINE g == [Top(b) EXCEPT !.owner = @ + 1, !.stage = "owner"]
<1>1. /\ Top(b) \in FrameType /\ FrameInv(Top(b), system, shared, clears)
      /\ system \in Systems /\ clears \in Nat
  BY TopFrame DEF IInv, TypeOK
<1>2. /\ g \in FrameType /\ g.locks = Top(b).locks
      /\ FrameInv(g, system, shared, clears)
  BY <1>1, PassedFrame
<1>3. Update(b, g) /\ holder' = holder
  BY DEF NextOwner
<1> HIDE DEF g
<1>q. QED
  BY <1>2, <1>3, ReplaceStep DEF IInv, TypeOK

LEMMA PassOwnerKeeps ==
  ASSUME IInv, NEW b \in Binds, PassOwner(b)
  PROVE  IInv'
<1>1. stack[b] # << >> /\ Top(b).stage = "owner"
  BY DEF PassOwner, In
<1>2. CASE Return(b)
  BY <1>1, <1>2, ReturnStep DEF PassOwner
<1>3. CASE NextOwner(b, Top(b))
  BY <1>1, <1>3, NextOwnerKeeps DEF PassOwner
<1>q. QED
  BY <1>2, <1>3 DEF PassOwner

LEMMA MissingKeeps ==
  ASSUME IInv, NEW b \in Binds, Missing(b)
  PROVE  IInv'
  BY NextOwnerKeeps DEF Missing, In

\* A provider is asked.
LEMMA AskKeeps ==
  ASSUME IInv, NEW b \in Binds, stack[b] # << >>, Ask(b),
         \/ Top(b).stage = "owner" /\ KeyOf(Top(b)) \in system.registered \ system.cacheable
         \/ Top(b).stage = "recheck" /\ shared[KeyOf(Top(b))] = None,
         UNCHANGED <<system, goals, shared, holder, clears>>
  PROVE  IInv'
<1> DEFINE f == Top(b)
           g == [f EXCEPT !.stage = "provide", !.call = calls[KeyOf(f)] + 1,
                          !.todo = system.needs[f.loc]]
<1>1. /\ f \in FrameType /\ FrameInv(f, system, shared, clears)
      /\ system \in Systems /\ clears \in Nat
  BY TopFrame DEF IInv, TypeOK
<1>2. KeyOf(f) \in Keys
  BY <1>1, SystemType DEF FrameInv, Provided
<1>3. calls[KeyOf(f)] + 1 \in Nat /\ calls' \in [Keys -> Nat]
  BY <1>2 DEF IInv, TypeOK, Ask
<1>4. /\ g \in FrameType /\ g.locks = f.locks
      /\ FrameInv(g, system, shared, clears)
  BY <1>1, <1>3, AskedFrame
<1>5. Update(b, g)
  BY DEF Ask
<1> HIDE DEF g
<1>q. QED
  BY <1>3, <1>4, <1>5, ReplaceStep

LEMMA LoadLockerKeeps ==
  ASSUME IInv, NEW b \in Binds, LoadLocker(b)
  PROVE  IInv'
<1> DEFINE f == Top(b)
           g == [f EXCEPT !.stage = "lock", !.gen = clears]
<1>1. /\ stack[b] # << >> /\ f.stage = "owner" /\ KeyOf(f) \in system.registered
      /\ Update(b, g)
      /\ UNCHANGED <<system, goals, mine, shared, holder, clears, clearing, calls, failed>>
  BY DEF LoadLocker, In
<1>2. /\ f \in FrameType /\ FrameInv(f, system, shared, clears) /\ clears \in Nat
  BY <1>1, TopFrame DEF IInv, TypeOK
<1>3. /\ g \in FrameType /\ g.loc = f.loc /\ g.type = f.type /\ g.owner = f.owner /\ g.stage = "lock"
      /\ g.locks = f.locks /\ g.gen = clears
  BY <1>2, LoadedFields
<1> HIDE DEF f, g
<1>4. FrameInv(g, system, shared, clears)
  BY <1>1, <1>2, <1>3, LoadedFrame
<1>q. QED
  BY <1>1, <1>3, <1>4, ReplaceStep DEF IInv, TypeOK, f

LEMMA LockKeeps ==
  ASSUME IInv, NEW b \in Binds, Lock(b)
  PROVE  IInv'
<1> DEFINE f == Top(b)
           x == <<KeyOf(f), f.gen>>
           g == [f EXCEPT !.stage = "recheck", !.locks = @ \cup {x}]
<1>1. /\ stack[b] # << >> /\ f.stage = "lock" /\ x \notin DOMAIN holder
      /\ holder' = [y \in DOMAIN holder \cup {x} |-> IF y = x THEN b ELSE holder[y]]
      /\ Update(b, g)
      /\ UNCHANGED <<system, goals, mine, shared, clears, clearing, calls, failed>>
  BY DEF Lock, In, Free
<1>2. /\ f \in FrameType /\ FrameInv(f, system, shared, clears)
      /\ system \in Systems /\ clears \in Nat
  BY <1>1, TopFrame DEF IInv, TypeOK
<1>3. /\ g \in FrameType /\ g.locks = f.locks \cup {x}
      /\ FrameInv(g, system, shared, clears)
  BY <1>1, <1>2, LockedFrame
<1> HIDE DEF x, g
<1>4. stack' \in [Binds -> Seq(FrameType)] /\ LockInv'
  BY <1>1, <1>3, LocksTake DEF IInv
<1>5. FramesInv'
  BY <1>1, <1>3, FramesReplace DEF IInv
<1>q. QED
  BY <1>1, <1>4, <1>5 DEF IInv, TypeOK

\* A cached value is never replaced: the key at work is empty under its mutex.
LEMMA FoundIsEmpty ==
  ASSUME IInv, NEW b \in Binds, stack[b] # << >>, Top(b).stage = "provide",
         KeyOf(Top(b)) \in system.cacheable, clears = 0
  PROVE  shared[KeyOf(Top(b))] = None /\ <<KeyOf(Top(b)), 0>> \in Top(b).locks
<1>1. /\ Top(b) \in FrameType /\ FrameInv(Top(b), system, shared, clears)
  BY TopFrame
<1>2. <<KeyOf(Top(b)), Top(b).gen>> \in Top(b).locks
  BY <1>1 DEF FrameInv, CallsUnderLock
<1>3. Top(b).gen = 0
  BY <1>1 DEF FrameInv, Generations, FrameType
<1>q. QED
  BY <1>1, <1>2, <1>3 DEF FrameInv, EmptyUnderLock

\* No other frame relies on the key being empty.
LEMMA FoundKeeps ==
  ASSUME IInv, NEW b \in Binds, Found(b)
  PROVE  IInv'
<1> DEFINE f == Top(b)
           k == KeyOf(f)
<1>1. /\ stack[b] # << >> /\ f.stage = "provide" /\ Return(b)
      /\ shared' = IF k \in system.cacheable THEN [shared EXCEPT ![k] = f.call] ELSE shared
      /\ UNCHANGED <<system, goals, clears, clearing, calls, failed>>
  BY DEF Found, In
<1>2. /\ f \in FrameType /\ FrameInv(f, system, shared, clears) /\ f = stack[b][1]
      /\ 1 \in DOMAIN stack[b]
  BY <1>1, TopFrame
<1>3. f.call \in Nat
  BY <1>2 DEF FrameType
<1>4. shared' \in [Keys -> Nat]
  BY <1>1, <1>3 DEF IInv, TypeOK
<1>5. ASSUME NEW c \in Binds, NEW i \in DOMAIN stack[c], c # b \/ i # 1
      PROVE  FrameInv(stack[c][i], system, shared', clears')
  <2>1. FrameInv(stack[c][i], system, shared, clears)
    BY DEF IInv, FramesInv
  <2>2. CASE k \notin system.cacheable \/ clears # 0
    BY <1>1, <2>1, <2>2 DEF FrameInv, EmptyUnderLock
  <2>3. CASE k \in system.cacheable /\ clears = 0
    <3>1. <<k, 0>> \in f.locks
      BY <1>1, <2>3, FoundIsEmpty
    <3>2. <<k, 0>> \notin stack[c][i].locks
      BY <1>2, <1>5, <3>1 DEF IInv, LockInv, LocksAreHeld, LocksAreDisjoint
    <3>3. stack[c][i].locks \subseteq Keys \X Nat
      <4>1. stack[c] \in Seq(FrameType)
        BY DEF IInv, TypeOK
      <4>2. stack[c][i] \in FrameType
        BY <4>1, ElementOfSeq, LenProperties
      <4>q. QED
        BY <4>2 DEF FrameType
    <3>4. \A x \in stack[c][i].locks : x[2] = 0 /\ x = <<x[1], x[2]>> /\ x[1] \in Keys
      BY <2>1, <2>3, <3>3 DEF FrameInv, Generations
    <3>5. \A x \in stack[c][i].locks : x[1] # k
      BY <3>2, <3>4
    <3>6. \A x \in stack[c][i].locks : shared'[x[1]] = shared[x[1]]
      BY <1>1, <3>4, <3>5 DEF IInv, TypeOK
    <3>7. EmptyUnderLock(stack[c][i], shared', clears)
      BY <2>1, <3>6 DEF FrameInv, EmptyUnderLock
    <3>q. QED
      BY <1>1, <2>1, <3>7 DEF FrameInv
  <2>q. QED
    BY <2>2, <2>3
<1>6. stack' \in [Binds -> Seq(FrameType)] /\ LockInv'
  BY <1>1, LocksReturn DEF IInv
<1>7. FramesInv'
  BY <1>1, <1>5, FramesReturn DEF IInv
<1>q. QED
  BY <1>1, <1>4, <1>6, <1>7 DEF IInv, TypeOK

LEMMA PanicKeeps ==
  ASSUME IInv, NEW b \in Binds, Panic(b)
  PROVE  IInv'
<1>1. /\ stack' = [stack EXCEPT ![b] = << >>] /\ holder' = Unlocked(UnwoundLocks(b))
      /\ UNCHANGED <<system, goals, mine, shared, clears, clearing, calls>>
  BY DEF Panic
<1>2. stack' \in [Binds -> Seq(FrameType)] /\ LockInv'
  BY <1>1, LocksUnwind DEF IInv
<1>3. DOMAIN stack'[b] = {} /\ \A c \in Binds \ {b} : stack'[c] = stack[c]
  BY <1>1 DEF IInv, TypeOK
<1>4. FramesInv'
  BY <1>1, <1>3 DEF IInv, FramesInv
<1>q. QED
  BY <1>1, <1>2, <1>4 DEF IInv, TypeOK

\* Clearing empties more and starts a new generation of mutexes.
LEMMA ClearKeeps ==
  ASSUME IInv, Clear
  PROVE  IInv'
<1>1. /\ UNCHANGED <<system, goals, stack, holder, calls>>
      /\ shared' \in [Keys -> Nat] /\ clears' \in Nat
      /\ \/ clears' = clears /\ shared' = [k \in Keys |-> None]
         \/ clears' = clears + 1 /\ shared' = shared
  BY DEF Clear, ClearValues, ClearLockers, IInv, TypeOK, None
<1>2. LockInv'
  BY <1>1 DEF IInv, LockInv, LocksAreHeld, LocksAreDisjoint, LocksHaveFrames
<1>3. ASSUME NEW b \in Binds, NEW i \in DOMAIN stack[b]
      PROVE  FrameInv(stack[b][i], system, shared', clears')
  <2> DEFINE f == stack[b][i]
  <2>1. f \in FrameType
    <3>1. stack[b] \in Seq(FrameType)
      BY DEF IInv, TypeOK
    <3>q. QED
      BY <3>1, ElementOfSeq, LenProperties
  <2>2. FrameInv(f, system, shared, clears) /\ clears \in Nat
    BY DEF IInv, FramesInv, TypeOK
  <2>3. f.gen \in Nat /\ f.locks \subseteq Keys \X Nat
    BY <2>1 DEF FrameType
  <2>4. \A x \in f.locks : x[1] \in Keys /\ x[2] \in Nat
    BY <2>3
  <2> HIDE DEF f
  <2>5. Generations(f, clears')
    BY <1>1, <2>2, <2>3, <2>4 DEF FrameInv, Generations
  <2>6. EmptyUnderLock(f, shared', clears') /\ ChildrenLocked(f, system, clears')
    BY <1>1, <2>2, <2>4 DEF FrameInv, EmptyUnderLock, ChildrenLocked, KeyAt
  <2>q. QED
    BY <2>2, <2>5, <2>6 DEF FrameInv, f
<1>4. FramesInv'
  BY <1>1, <1>3 DEF FramesInv
<1>q. QED
  BY <1>1, <1>2, <1>4 DEF IInv, TypeOK

-----------------------------------------------------------------------------
LEMMA IInvInit == Init => IInv
<1> SUFFICES ASSUME Init PROVE IInv
  OBVIOUS
<1>1. system.plan \subseteq Requests
  BY SystemType DEF Init
<1>2. TypeOK
  BY <1>1, EmptySeq DEF Init, TypeOK, None
<1>3. LockInv
  BY DEF Init, LockInv, LocksAreHeld, LocksAreDisjoint, LocksHaveFrames
<1>4. FramesInv
  BY DEF Init, FramesInv
<1>q. QED
  BY <1>2, <1>3, <1>4 DEF IInv

LEMMA StepKeeps ==
  ASSUME IInv, NEW b \in Binds, Step(b)
  PROVE  IInv'
<1>1. CASE Begin(b)
  BY <1>1, BeginKeeps
<1>2. CASE Nest(b)
  BY <1>2, NestKeeps
<1>3. CASE PassOwner(b)
  BY <1>3, PassOwnerKeeps
<1>4. CASE AskUncached(b)
  BY <1>4, AskKeeps DEF AskUncached, In
<1>5. CASE OwnHit(b)
  BY <1>5, ReturnStep DEF OwnHit, In
<1>6. CASE LoadLocker(b)
  BY <1>6, LoadLockerKeeps
<1>7. CASE Lock(b)
  BY <1>7, LockKeeps
<1>8. CASE SharedHit(b)
  BY <1>8, ReturnStep DEF SharedHit, In
<1>9. CASE AskProvider(b)
  BY <1>9, AskKeeps DEF AskProvider, In, Known
<1>10. CASE Found(b)
  BY <1>10, FoundKeeps
<1>11. CASE Missing(b)
  BY <1>11, MissingKeeps
<1>12. CASE Owned(b)
  BY <1>12, ReturnStep DEF Owned, In
<1>13. CASE Error(b)
  BY <1>13, ReturnStep DEF Error, In
<1>14. CASE Panic(b)
  BY <1>14, PanicKeeps
<1>q. QED
  BY <1>1, <1>2, <1>3, <1>4, <1>5, <1>6, <1>7, <1>8, <1>9, <1>10, <1>11, <1>12, <1>13,
     <1>14 DEF Step

LEMMA IInvNext == IInv /\ [Next]_vars => IInv'
<1> SUFFICES ASSUME IInv, [Next]_vars PROVE IInv'
  OBVIOUS
<1>1. CASE UNCHANGED vars
  BY <1>1 DEF vars, IInv, TypeOK, LockInv, LocksAreHeld, LocksAreDisjoint,
              LocksHaveFrames, FramesInv
<1>q. QED
  BY <1>1, StepKeeps, ClearKeeps DEF Next, Ended

\* The inductive invariant holds in every reachable state.
THEOREM Invariance == Spec => []IInv
  BY IInvInit, IInvNext, PTL DEF Spec

\* resolveBindingResult never runs the provider of one cacheable key for two
\* binds at once, unless the cache was cleared between their loads of the mutex.
THEOREM SingleFlight == Spec => []OneFlight
<1>1. IInv => OneFlight
  <2> SUFFICES ASSUME IInv, NEW b \in Binds, NEW c \in Binds,
                      NEW i \in DOMAIN stack[b], NEW j \in DOMAIN stack[c], b # c,
                      Resolving(stack[b][i]), Resolving(stack[c][j]),
                      KeyOf(stack[b][i]) = KeyOf(stack[c][j]),
                      stack[b][i].gen = stack[c][j].gen
               PROVE  FALSE
    BY DEF OneFlight, Frames
  <2> DEFINE x == <<KeyOf(stack[b][i]), stack[b][i].gen>>
  <2>1. x \in stack[b][i].locks
    BY DEF IInv, FramesInv, FrameInv, CallsUnderLock, Resolving
  <2>2. x \in stack[c][j].locks
    BY DEF IInv, FramesInv, FrameInv, CallsUnderLock, Resolving
  <2>q. QED
    BY <2>1, <2>2 DEF IInv, LockInv, LocksAreHeld
<1>q. QED
  BY <1>1, Invariance, PTL

\* A bind that looks at a parent keeps every cacheable child it passed locked
\* and empty.
THEOREM ChildrenEmpty == Spec => []ChildStaysEmpty
<1>1. IInv => ChildStaysEmpty
  <2> SUFFICES ASSUME IInv, clears = 0, NEW b \in Binds, NEW f \in Frames(b),
                      NEW o \in 1..(f.owner - 1),
                      KeyAt(o, f) \in system.registered \cap system.cacheable
               PROVE  /\ <<KeyAt(o, f), 0>> \in f.locks
                      /\ shared[KeyAt(o, f)] = None
    BY DEF ChildStaysEmpty
  <2> DEFINE x == <<KeyAt(o, f), 0>>
  <2>0. PICK i \in DOMAIN stack[b] : f = stack[b][i]
    BY DEF Frames
  <2>1. FrameInv(f, system, shared, clears)
    BY <2>0 DEF IInv, FramesInv
  <2>2. x \in f.locks
    BY <2>1 DEF FrameInv, ChildrenLocked, KeyAt
  <2>3. f.owner \in Nat
    <3>1. stack[b] \in Seq(FrameType)
      BY DEF IInv, TypeOK
    <3>2. f \in FrameType
      BY <2>0, <3>1, ElementOfSeq, LenProperties
    <3>q. QED
      BY <3>2 DEF FrameType
  <2>4. x[1] # KeyOf(f) /\ x[1] = KeyAt(o, f)
    BY <2>3 DEF KeyOf, KeyAt
  <2>5. shared[x[1]] = None
    BY <2>1, <2>2, <2>4 DEF FrameInv, EmptyUnderLock
  <2>q. QED
    BY <2>2, <2>5
<1>q. QED
  BY <1>1, Invariance, PTL

\* Until the cache is cleared every bind sees the same value of a key: storing
\* happens under the mutex, on an empty entry.
THEOREM CachedValues == Spec => CachedValueStays
<1> DEFINE Stays == clears = 0 /\ ~clearing /\ ~clearing' =>
                      \A k \in Keys : shared[k] # None => shared'[k] = shared[k]
<1>1. IInv /\ [Next]_vars => [Stays]_vars
  <2> SUFFICES ASSUME IInv, Next, clears = 0, ~clearing, ~clearing',
                      NEW k \in Keys, shared[k] # None
               PROVE  shared'[k] = shared[k]
    OBVIOUS
  <2>1. ASSUME NEW b \in Binds, Found(b)
        PROVE  shared'[k] = shared[k]
    <3>1. /\ stack[b] # << >> /\ Top(b).stage = "provide"
          /\ shared' = IF KeyOf(Top(b)) \in system.cacheable
                       THEN [shared EXCEPT ![KeyOf(Top(b))] = Top(b).call] ELSE shared
      BY <2>1 DEF Found, In
    <3>2. CASE KeyOf(Top(b)) \notin system.cacheable
      BY <3>1, <3>2
    <3>3. CASE KeyOf(Top(b)) \in system.cacheable
      <4>1. shared[KeyOf(Top(b))] = None
        BY <3>1, <3>3, FoundIsEmpty
      <4>q. QED
        BY <3>1, <4>1 DEF IInv, TypeOK
    <3>q. QED
      BY <3>2, <3>3
  <2>2. ASSUME NEW b \in Binds, Step(b), ~Found(b)
        PROVE  UNCHANGED shared
    BY <2>2 DEF Step, Begin, Nest, PassOwner, AskUncached, OwnHit, LoadLocker, Lock,
                SharedHit, AskProvider, Missing, Owned, Error, Panic
  <2>3. CASE Clear
    BY <2>3 DEF Clear, ClearValues, ClearLockers
  <2>4. CASE Ended
    BY <2>4 DEF Ended, vars
  <2>q. QED
    BY <2>1, <2>2, <2>3, <2>4 DEF Next
<1>q. QED
  BY <1>1, Invariance, PTL DEF Spec, CachedValueStays

\* No mutex outlives the frame that will unlock it, through errors, misses and
\* panics: a bind that waits for a mutex waits for a bind that is at work.
HoldersAreAtWork == \A x \in DOMAIN holder : holder[x] \in Binds /\ stack[holder[x]] # << >>

\* So resolveBindingResult unlocks a key on each of its ways out.
THEOREM NothingLeftLocked == Spec => []HoldersAreAtWork
<1>1. IInv => HoldersAreAtWork
  BY DEF IInv, LockInv, LocksHaveFrames, HoldersAreAtWork
<1>q. QED
  BY <1>1, Invariance, PTL
=============================================================================
