--------------------------------- MODULE Link ---------------------------------
(***************************************************************************)
(* What a Remote promises to the two ends of a connection: a lossy link    *)
(* that never reorders or repeats what it sends, that passes on every       *)
(* message of the peer in order, and that ends its context by itself only   *)
(* after the connection is closed.                                          *)
(***************************************************************************)
EXTENDS Naturals, Sequences

CONSTANT Messages    \* ids of the messages, natural numbers in the order of publication

VARIABLES
    written,    \* ids of the messages written to the connection, in order
    torn,       \* the last frame written is incomplete
    delivered,  \* ids of the peer's messages passed to the bus, in order
    conn,       \* "open" or "closed"
    ctx,        \* context of the Remote: "live" or "done"
    asked       \* the user called the cancel function

vars == <<written, torn, delivered, conn, ctx, asked>>

Init ==
    /\ written = <<>> /\ torn = FALSE
    /\ delivered = <<>>
    /\ conn = "open"
    /\ ctx = "live" /\ asked = FALSE

(* Messages may be skipped, never overtaken; nothing follows a torn frame. *)
Write ==
    /\ conn = "open" /\ ~torn
    /\ \E m \in Messages :
        /\ \A i \in DOMAIN written : written[i] < m
        /\ written' = Append(written, m)
    /\ UNCHANGED <<torn, delivered, conn, ctx, asked>>

Tear ==
    /\ conn = "open" /\ ~torn
    /\ torn' = TRUE
    /\ UNCHANGED <<written, delivered, conn, ctx, asked>>

Deliver ==
    /\ conn = "open"
    /\ delivered' = Append(delivered, Len(delivered) + 1)
    /\ UNCHANGED <<written, torn, conn, ctx, asked>>

Close ==
    /\ conn = "open"
    /\ conn' = "closed"
    /\ UNCHANGED <<written, torn, delivered, ctx, asked>>

End ==
    /\ conn = "closed" /\ ctx = "live"
    /\ ctx' = "done"
    /\ UNCHANGED <<written, torn, delivered, conn, asked>>

Ask ==
    /\ ~asked
    /\ asked' = TRUE
    /\ ctx' = "done"
    /\ UNCHANGED <<written, torn, delivered, conn>>

Next == Write \/ Tear \/ Deliver \/ Close \/ End \/ Ask

Spec == Init /\ [][Next]_vars
==============================================================================
