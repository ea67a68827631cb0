-------------------------------- MODULE TNIp --------------------------------
(***************************************************************************)
(* Two hosts: the IP output of one (TNIpOutput) and the IP input of the    *)
(* other (TNIpInput).  The network between them loses, duplicates and      *)
(* reorders packets: any packet that was transmitted is received any       *)
(* number of times, at any time later.                                     *)
(***************************************************************************)
EXTENDS TNIpOutput, TNIpInput

vars == <<heap, sent, task, txq, wire, fault, reasm, lost, received, delivered, answers>>

Init == OutInit /\ InInit

(* The receive task gets any packet that was transmitted.                  *)
Receive == \E p \in wire, a \in Arrivals : ipv4_input(p, a)

Next ==
    \/ OutNext /\ UNCHANGED inVars
    \/ (Receive \/ ip_slowtimo) /\ UNCHANGED outVars

Spec == Init /\ [][Next]_vars

-----------------------------------------------------------------------------
(* Properties                                                              *)

Whole(id, off) == [k \in 1 .. Units - off |-> Unit(id, off + k)]

(* A protocol gets the units of one datagram, each once and in their       *)
(* order, up to the last, behind the header of a packet that is not a      *)
(* fragment; or, as ip4_reasm does not ask for the fragment with offset 0, *)
(* the units from the first fragment in the queue, the first of them       *)
(* overwritten by the update of a header that is not there.  However the   *)
(* fragments are lost, duplicated and reordered.                           *)
DeliveredWhole ==
    \A d \in delivered :
        d.head \o d.rest =
            IF d.off = 0 THEN <<Header(d.id, 0, FALSE)>> \o Whole(d.id, 0)
            ELSE <<Append(Unit(d.id, d.off + 1), "overwritten")>> \o Whole(d.id, d.off + 1)

(* An answer is about a whole datagram, also when that came in fragments:  *)
(* icmp_reflect sends the header of the first fragment back and icmp_error *)
(* quotes it, so it must not say that it is one.  A reply to an echo       *)
(* request brings back all of it, unless the request came in fragments and *)
(* the first one was in a small buffer: then it ends with that one.        *)
AnswersRight ==
    \A a \in answers :
        /\ Head(a.data) = Header(a.id, 0, FALSE)
        /\ Len(a.data) > 1
        /\ IF a.cut THEN IsPrefix(Tail(a.data), Whole(a.id, 0))
                    ELSE Tail(a.data) = Whole(a.id, 0)
=============================================================================
