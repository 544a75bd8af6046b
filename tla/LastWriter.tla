----------------------------- MODULE LastWriter -----------------------------
(***************************************************************************)
(* What record mode promises of the objects a device shows: each is some   *)
(* entry that was written, a newer one takes the place of an older one and *)
(* never the reverse, and a device's own write always shows on it.  Only a *)
(* vanish or a logout takes an object away.  Records implements it.        *)
(***************************************************************************)
EXTENDS Naturals

CONSTANTS
  Device, Object,
  Entry      \* what can be written of an object

NoEntry == [time |-> 0, dev |-> 0, n |-> 0]

Older(a, b) ==
  \/ a.time < b.time
  \/ a.time = b.time /\ a.dev < b.dev
  \/ a.time = b.time /\ a.dev = b.dev /\ a.n < b.n

VARIABLES
  written,   \* per object, every entry written on some device
  shown      \* per device and object, the entry the device shows

vars == <<written, shown>>

Init ==
  /\ written = [o \in Object |-> {}]
  /\ shown = [d \in Device |-> [o \in Object |-> NoEntry]]

(* A local write shows at once, over whatever the device showed. *)
Write(d, o) ==
  \E e \in Entry :
    /\ Older(shown[d][o], e)
    /\ written' = [written EXCEPT ![o] = @ \cup {e}]
    /\ shown' = [shown EXCEPT ![d][o] = e]

(* What others wrote replaces what is older, of any number of objects, and *)
(* objects vanish.                                                         *)
Receive(d) ==
  /\ \E row \in [Object -> {NoEntry} \cup UNION {written[o] : o \in Object}] :
       /\ shown' = [shown EXCEPT ![d] = row]
       /\ \A o \in Object : \/ row[o] \in {shown[d][o], NoEntry}
                            \/ row[o] \in written[o] /\ Older(shown[d][o], row[o])
  /\ UNCHANGED written

Next == \E d \in Device : Receive(d) \/ \E o \in Object : Write(d, o)

Spec == Init /\ [][Next]_vars
=============================================================================
