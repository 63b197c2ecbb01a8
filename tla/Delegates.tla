----------------------------- MODULE Delegates -----------------------------
(* Delegate objects and the lists they are made of: construction, Clone,     *)
(* Combine, Remove, equality and the hash code (dotnet-intrinsics-delegates).*)
(* A delegate is immutable; its number is its address.                       *)
EXTENDS Sequences, Integers
LOCAL INSTANCE SequencesExt
LOCAL INSTANCE FiniteSetsExt

CONSTANTS
    Receivers,          \* objects a delegate can be bound to
    NoReceiver,         \* the null target of a static method
    MethodIndexes,      \* indexes of the runtime method registry
    MaxDelegates        \* bound: delegates ever made

ASSUME DelegatesAssumption ==
    NoReceiver \notin Receivers /\ MethodIndexes \subseteq Nat /\ MaxDelegates \in Nat

VARIABLES
    delegates,  \* the delegate objects: _target, _method and targets
    means,      \* history: the calls each one stands for, in order
    pushed,     \* what the last operation pushed
    wanted      \* history: the calls that result should stand for

delegateVars == <<delegates, means, pushed, wanted>>

Nobody == 0                                     \* the null reference
Made == DOMAIN delegates
Operand == {Nobody} \cup Made

Object(target, method, targets) == [target |-> target, method |-> method, targets |-> targets]

(* get_delegate_info *)
Info(d) == <<delegates[d].target, delegates[d].method>>

(* get_invocation_list: the targets array, which every constructor fills *)
InvocationList(d) == delegates[d].targets

(* delegates_equal: the same object, or the same target and method *)
DelegatesEqual(a, b) == a = b \/ (a # Nobody /\ b # Nobody /\ Info(a) = Info(b))

(* delegate_equals: targets and methods, then the two lists entry by entry *)
DelegateEquals(this, other) ==
    \/ this = other
    \/ /\ Info(this) = Info(other)
       /\ LET mine == InvocationList(this)
              theirs == InvocationList(other)
          IN  Len(mine) = Len(theirs) /\ \A i \in DOMAIN mine : Info(mine[i]) = Info(theirs[i])

(* delegate_get_hash_code, as the parts it is the exclusive or of *)
DelegateHash(d) == <<delegates[d].method, delegates[d].target, Len(InvocationList(d))>>

(* invoke_delegate: the entries of the list, unless it is this delegate alone *)
Invoked(d) ==
    LET list == InvocationList(d)
    IN  IF Len(list) > 1 \/ Head(list) # d THEN [i \in DOMAIN list |-> Info(list[i])]
        ELSE <<Info(d)>>

(* What an operation leaves: the operand it pushes, and the delegate it made. *)
Result(d, calls) ==
    pushed' = d /\ wanted' = calls /\ UNCHANGED <<delegates, means>>
NewResult(object, calls) ==
    /\ Len(delegates) < MaxDelegates
    /\ delegates' = Append(delegates, object) /\ means' = Append(means, calls)
    /\ pushed' = Len(delegates) + 1 /\ wanted' = calls

(* push_delegate_with_invocation_list: a clone of source with a list of its own *)
PushWithInvocationList(source, list, calls) ==
    NewResult([delegates[source] EXCEPT !.targets = list], calls)

DelegatesInit == delegates = <<>> /\ means = <<>> /\ pushed = Nobody /\ wanted = <<>>

(* A constructor, or CreateDelegate: the list holds the delegate itself. *)
NewDelegate ==
    \E target \in Receivers \cup {NoReceiver}, method \in MethodIndexes :
        NewResult(Object(target, method, <<Len(delegates) + 1>>), <<<<target, method>>>>)

(* Delegate.Clone: MemberwiseClone, which shares the targets array *)
CloneDelegate == \E d \in Made : NewResult(delegates[d], means[d])

CallsOf(d) == IF d = Nobody THEN <<>> ELSE means[d]

(* delegate_combine *)
DelegateCombine ==
    \E a, b \in Operand :
        LET calls == CallsOf(a) \o CallsOf(b)
        IN  CASE a = Nobody -> Result(b, calls)
              [] b = Nobody -> Result(a, calls)
              [] OTHER -> PushWithInvocationList(a, InvocationList(a) \o InvocationList(b), calls)

(* The positions at which the entries of value stand in source, from 0 *)
Occurrences(source, value) ==
    {i \in 0..Len(source) - Len(value) :
        \A j \in DOMAIN value : DelegatesEqual(source[i + j], value[j])}

(* Mutant: the first occurrence is taken. *)
FoundIndexFirst(source, value) == Min(Occurrences(source, value))

FoundIndex(source, value) == Max(Occurrences(source, value))

Cut(list, at, n) == SubSeq(list, 1, at) \o SubSeq(list, at + n + 1, Len(list))

(* What Remove should leave of a list of calls: all but the last run of value *)
LastRunRemoved(calls, value) ==
    IF value # <<>> /\ \E i \in 1..Len(calls) : IsPrefix(value, SubSeq(calls, i, Len(calls)))
    THEN LET i == CHOOSE i \in 1..Len(calls) :
                    /\ IsPrefix(value, SubSeq(calls, i, Len(calls)))
                    /\ \A j \in i + 1..Len(calls) : ~IsPrefix(value, SubSeq(calls, j, Len(calls)))
         IN  Cut(calls, i - 1, Len(value))
    ELSE calls

(* delegate_remove *)
DelegateRemove ==
    \E source, value \in Operand :
        LET calls == LastRunRemoved(CallsOf(source), CallsOf(value))
        IN  IF source = Nobody \/ value = Nobody THEN Result(source, calls)
            ELSE LET list == InvocationList(source)
                     gone == InvocationList(value)
                     rest == Cut(list, FoundIndex(list, gone), Len(gone))
                 IN  CASE gone = <<>> \/ Occurrences(list, gone) = {} -> Result(source, calls)
                       [] OTHER -> CASE rest = <<>> -> Result(Nobody, calls)
                                     [] Len(rest) = 1 -> Result(rest[1], calls)
                                     [] OTHER -> PushWithInvocationList(source, rest, calls)

DelegatesNext == NewDelegate \/ CloneDelegate \/ DelegateCombine \/ DelegateRemove

-----------------------------------------------------------------------------
(* A delegate runs the calls it was put together from, in their order, and   *)
(* an operation's result is the list the operation is defined to give.       *)
ListsRight ==
    /\ \A d \in Made : Invoked(d) = means[d]
    /\ CallsOf(pushed) = wanted

(* Lists do not nest: an entry is a delegate with itself as its only entry.  *)
ListsFlat == \A d \in Made : \A i \in DOMAIN InvocationList(d) :
    LET entry == InvocationList(d)[i] IN InvocationList(entry) = <<entry>>

(* Remove takes back what Combine has added, whatever the two lists share.   *)
RemoveUndoesCombine ==
    \A a, b \in Made :
        LET both == InvocationList(a) \o InvocationList(b)
            rest == Cut(both, FoundIndex(both, InvocationList(b)), Len(InvocationList(b)))
        IN  [i \in DOMAIN rest |-> Info(rest[i])] = means[a]

(* Equality is an equivalence, finer than the calls and coarser than the     *)
(* object; equal delegates have one hash code. Two that stand for the same   *)
(* calls are equal if each still names the first of its calls as its own,    *)
(* which one that Remove shortened from the front does not.                  *)
NamesItsFirst(d) == Info(d) = Head(means[d])
EqualityLawful ==
    \A a, b \in Made :
        /\ DelegateEquals(a, a)
        /\ DelegateEquals(a, b) =>
             /\ DelegateEquals(b, a) /\ means[a] = means[b] /\ DelegateHash(a) = DelegateHash(b)
             /\ \A c \in Made : DelegateEquals(b, c) => DelegateEquals(a, c)
        /\ means[a] = means[b] /\ NamesItsFirst(a) /\ NamesItsFirst(b) => DelegateEquals(a, b)

(* Delegates behave as the lists of calls they stand for (operations.rs).    *)
DelegatesSound == ListsRight /\ ListsFlat /\ RemoveUndoesCombine /\ EqualityLawful
=============================================================================
