------------------------------ MODULE Reentry -------------------------------
(***************************************************************************)
(* The middle of a call.  utp_connect, utp_write and utp_close send        *)
(* packets before they return, callback_sendto passes each of them to      *)
(* udp_multiplexer_impl::send_to, and that calls the slots the client has  *)
(* connected with on_send_to: client code, which may call the very socket  *)
(* that is in do_connect, do_write or close_with_error.  UtpSockets takes  *)
(* these three as one step; here each is a frame on a stack, with a        *)
(* beginning and an end, and slots and failed sends come in between.       *)
(*                                                                         *)
(* There is one socket on one multiplexer.  What the received data are,    *)
(* accepting, and when the context listens are left to UtpSockets; a       *)
(* completion handler returns at once.                                     *)
(***************************************************************************)
EXTENDS Naturals, FiniteSets, Sequences, SequencesExt

CONSTANTS
    MaxRearm,  \* bound on the writes that are re-armed by on_writable
    MaxDepth   \* bound on the calls that are on the stack at a time

ASSUME BoundsAssumption == MaxRearm \in Nat /\ MaxDepth \in Nat

Kinds == {"connect", "send", "recv"}

\* Functions in the middle of which libutp may send a packet.  "close" is
\* the socket::close of the client, "abort" the close_with_error of
\* callback_sendto.  "slot" is callback_sendto while the client's slots run.
Calls  == {"connect", "write", "close"}
Frames == Calls \cup {"abort", "on_read", "tick", "slot"}

VARIABLES
    handlers,  \* the handler members of the socket_impl that are set
    queue,     \* handlers posted to io_context
    after,     \* handlers with an exec_after closure
    waiting,   \* ops the client has started and not been called back for
    ops,       \* context::_outstanding_op_count
    rearmed,   \* history: times on_writable has re-armed a write
    closed,    \* _closed
    eof,       \* _got_eof
    decClose,  \* _decrement_close
    utp,       \* _utp_socket, as the state of the libutp connection
    facade,    \* the socket object
    ext,       \* does a udp_multiplexer object hold the multiplexer?
    stack,     \* the functions that are on the stack
    careful,   \* does the client keep to CarefulCall and CarefulRelease?
    failed,    \* history: has a send failed?
    fault      \* what went wrong, or "none"

opVars   == <<handlers, queue, after, waiting, ops, rearmed>>
implVars == <<closed, eof, decClose, utp>>
vars == <<opVars, implVars, facade, ext, stack, careful, failed, fault>>

\* "dropped": utp_close on a connection that was not established, which
\* sends nothing.
Closing == {"closing", "dropped"}

TypeOK ==
    /\ handlers \subseteq Kinds /\ queue \subseteq Kinds
    /\ after \subseteq Kinds /\ waiting \subseteq Kinds
    /\ ops \in Nat /\ rearmed \in 0..MaxRearm
    /\ {closed, eof, decClose, ext, careful, failed} \subseteq BOOLEAN
    /\ utp \in {"none", "syn_sent", "connected"} \cup Closing
    /\ facade \in {"bound", "detached", "released", "destroyed"}
    /\ stack \in Seq(Frames) /\ Len(stack) <= MaxDepth
    /\ fault \in {"none", "empty_post", "connect_utp", "closed_handlers",
                  "decrement_close", "dangling_owner", "freed_in_send"}

\* A socket that is bound, with or without a udp_multiplexer beside it.
Init ==
    /\ handlers = {} /\ queue = {} /\ after = {} /\ waiting = {}
    /\ ops = 0 /\ rearmed = 0
    /\ closed = FALSE /\ eof = FALSE /\ decClose = FALSE
    /\ utp = "none"
    /\ facade = "bound"
    /\ ext \in BOOLEAN /\ careful \in BOOLEAN
    /\ stack = <<>>
    /\ failed = FALSE
    /\ fault = "none"

-----------------------------------------------------------------------------
(***************************************************************************)
(* The stack.                                                              *)
(***************************************************************************)

OnStack(F) == \E i \in DOMAIN stack : stack[i] \in F

Top(F) == fault = "none" /\ stack # <<>> /\ Last(stack) \in F

\* The client runs at the top level and in slots.
UserMay == fault = "none" /\ (stack = <<>> \/ Top({"slot"}))

Room == Len(stack) < MaxDepth

\* Who keeps the multiplexer: the objects of the client, on_read, and
\* callback_sendto until it returns.
Holders == {"slot", "abort", "on_read"}

Kept(st, f, x) == \/ x \/ f \in {"bound", "detached"}
                  \/ \E i \in DOMAIN st : st[i] \in Holders

\* The function on top returns.  When that lets go of the multiplexer, libutp
\* is destroyed, here in the middle of one of its functions.
Return ==
    /\ stack' = Front(stack)
    /\ fault' = IF stack' # <<>> /\ ~Kept(stack', facade', ext')
                THEN "freed_in_send" ELSE fault

AssertFails(label) ==
    /\ fault' = label
    /\ UNCHANGED <<opVars, implVars, facade, ext, stack, careful, failed>>

-----------------------------------------------------------------------------
(***************************************************************************)
(* A careful client, in a slot, calls the socket only while is_open(), and *)
(* not in the middle of a call of its own on it nor with a write           *)
(* outstanding, because the slot may then be called by that write.         *)
(* Anywhere, it writes and connects only while is_open(), connects once,   *)
(* and does not let go of its last object in a slot outside on_read.       *)
(***************************************************************************)

CarefulCall ==
    careful /\ stack # <<>> =>
        /\ facade = "bound" /\ ~closed
        /\ ~OnStack(Calls)
        /\ "send" \notin waiting

\* May the last reference go?
Outside == stack # <<>> => Head(stack) = "on_read"

-----------------------------------------------------------------------------
(***************************************************************************)
(* Handlers.                                                               *)
(***************************************************************************)

MayStart(k) == UserMay /\ Room /\ k \notin waiting /\ CarefulCall

\* setup_op: stores h, which will decrement the op counter when it is done.
setup_op(k) ==
    /\ handlers' = handlers \cup {k}
    /\ after' = after \cup {k}
    /\ waiting' = waiting \cup {k}
    /\ ops' = ops + 1

\* Mutant: the handler is posted but stays in its member.
post_op_copy(k) == handlers' = handlers /\ queue' = queue \cup {k}

post_op(k) == handlers' = handlers \ {k} /\ queue' = queue \cup {k}

\* The early returns of do_connect, do_write and do_read.
Reject(k) ==
    /\ MayStart(k)
    /\ \/ facade # "bound"
       \/ k = "send" /\ utp = "none"
       \/ k = "recv" /\ closed
    /\ waiting' = waiting \cup {k}
    /\ queue' = queue \cup {k}
    /\ UNCHANGED <<handlers, after, ops, rearmed, implVars, facade, ext, stack, careful,
                   failed, fault>>

RunHandler(k) ==
    /\ fault = "none" /\ stack = <<>>
    /\ k \in queue
    /\ queue' = queue \ {k}
    /\ waiting' = waiting \ {k}
    /\ after' = after \ {k}
    /\ ops' = ops - (IF k \in after THEN 1 ELSE 0)
    /\ UNCHANGED <<handlers, rearmed, implVars, facade, ext, stack, careful, failed, fault>>

-----------------------------------------------------------------------------
(***************************************************************************)
(* close_with_error, in two parts.                                         *)
(***************************************************************************)

\* Mutant: _closed is set after utp_close.
Mark_late == closed' = closed

\* _closed = true
Mark == closed' = TRUE

\* Is utp_close called?
Shuts == utp # "none" /\ ~eof

\* Mutant: the close is counted before utp_close.
Shut_counted(below, frame) ==
    /\ utp' = IF utp \in {"syn_sent", "dropped"} THEN "dropped" ELSE "closing"
    /\ stack' = Append(below, frame)
    /\ decClose' = TRUE

\* The call of utp_close, from a function on top of below.
Shut(below, frame) ==
    /\ utp' = IF utp \in {"syn_sent", "dropped"} THEN "dropped" ELSE "closing"
    /\ stack' = Append(below, frame)
    /\ decClose' = decClose

\* The lines before utp_close, with handlers h stored.
Abort(h) ==
    /\ Mark
    /\ handlers' = {}
    /\ queue' = queue \cup h

\* Those after it.  _owner is written to, whatever has become of it; then
\* f is what the caller makes of the socket object.
EndClose(frame, f) ==
    /\ Top({frame})
    /\ IF facade = "destroyed" THEN AssertFails("dangling_owner")
       ELSE IF decClose THEN AssertFails("decrement_close")
       ELSE /\ facade' = f
            /\ ops' = ops + 1
            /\ decClose' = TRUE
            /\ UNCHANGED <<handlers, queue, after, waiting, rearmed, closed, eof, utp, ext,
                           careful, failed>>
            /\ Return

\* socket::close goes on to forget its members.
EndSocketClose == EndClose("close", "released")

EndAbort == EndClose("abort", IF facade = "bound" THEN "detached" ELSE facade)

-----------------------------------------------------------------------------
(***************************************************************************)
(* The client's calls, at the top level or in a slot.                      *)
(***************************************************************************)

\* do_connect, up to utp_connect.
Connect ==
    /\ MayStart("connect")
    /\ facade = "bound"
    /\ careful => ~closed /\ utp = "none"
    /\ IF utp # "none" THEN AssertFails("connect_utp")
       ELSE /\ setup_op("connect")
            /\ utp' = "syn_sent"
            /\ stack' = Append(stack, "connect")
            /\ UNCHANGED <<queue, rearmed, closed, eof, decClose, facade, ext, careful,
                           failed, fault>>

EndConnect ==
    /\ Top({"connect"})
    /\ UNCHANGED <<opVars, implVars, facade, ext, careful, failed>>
    /\ Return

\* do_write, up to the first utp_write.
Write ==
    /\ MayStart("send")
    /\ facade = "bound" /\ utp # "none"
    /\ careful => ~closed
    /\ setup_op("send")
    /\ stack' = Append(stack, "write")
    /\ UNCHANGED <<queue, rearmed, implVars, facade, ext, careful, failed, fault>>

\* The end of do_write.  done: libutp took all the bytes.
EndWrite(done) ==
    /\ Top({"write"})
    /\ IF done /\ "send" \notin handlers THEN AssertFails("empty_post")
       ELSE /\ IF done THEN post_op("send") ELSE UNCHANGED <<handlers, queue>>
            /\ UNCHANGED <<after, waiting, ops, rearmed, implVars, facade, ext, careful,
                           failed>>
            /\ Return

\* do_read, with or without data in the queue.
Read(data) ==
    /\ MayStart("recv")
    /\ facade = "bound" /\ ~closed
    /\ after' = after \cup {"recv"}
    /\ waiting' = waiting \cup {"recv"}
    /\ ops' = ops + 1
    /\ IF data THEN queue' = queue \cup {"recv"} /\ UNCHANGED <<handlers, closed>>
       ELSE IF eof THEN Abort(handlers \cup {"recv"})
       ELSE handlers' = handlers \cup {"recv"} /\ UNCHANGED <<queue, closed>>
    /\ UNCHANGED <<rearmed, eof, decClose, utp, facade, ext, stack, careful, failed, fault>>

\* socket::close.  Closed by somebody else, or without a connection to shut
\* down, the socket only forgets its members.
Close ==
    /\ UserMay /\ Room
    /\ facade = "bound"
    /\ CarefulCall
    /\ careful => ext \/ Outside
    /\ IF closed THEN UNCHANGED <<handlers, queue, closed>> ELSE Abort(handlers)
    /\ IF ~closed /\ Shuts
       THEN Shut(stack, "close") /\ UNCHANGED facade
       ELSE facade' = "released" /\ UNCHANGED <<decClose, utp, stack>>
    /\ UNCHANGED <<after, waiting, ops, rearmed, eof, ext, careful, failed, fault>>

\* ~socket once it has nothing to shut down, but not inside its own close().
Destroy ==
    /\ UserMay
    /\ facade # "destroyed"
    /\ facade = "bound" => closed
    /\ ~OnStack({"close"})
    /\ CarefulCall
    /\ careful => ext \/ Outside
    /\ facade' = "destroyed"
    /\ UNCHANGED <<opVars, implVars, ext, stack, careful, failed, fault>>

\* udp_multiplexer::close
CloseMultiplexer ==
    /\ UserMay
    /\ ext
    /\ careful => \/ Outside
                  \/ facade \in {"bound", "detached"} /\ ~OnStack({"close"})
    /\ ext' = FALSE
    /\ UNCHANGED <<opVars, implVars, facade, stack, careful, failed, fault>>

-----------------------------------------------------------------------------
(***************************************************************************)
(* The event loop and libutp.                                              *)
(***************************************************************************)

\* on_read and the tick: the context listens while an op is outstanding.
Enter(frame) ==
    /\ fault = "none" /\ stack = <<>>
    /\ ops > 0
    /\ Kept(stack, facade, ext)
    /\ stack' = <<frame>>
    /\ UNCHANGED <<opVars, implVars, facade, ext, careful, failed, fault>>

Leave ==
    /\ Top({"on_read", "tick"})
    /\ UNCHANGED <<opVars, implVars, facade, ext, careful, failed>>
    /\ Return

\* callback_sendto, up to the slots: the SYN of utp_connect, the data of
\* utp_write, the FIN of utp_close, anything inside on_read and the tick.
SendTo ==
    /\ Room
    /\ \/ Top({"connect", "on_read", "tick"})
       \/ Top({"write"}) /\ utp \in {"connected", "closing"}
       \/ Top({"close", "abort"}) /\ utp = "closing"
    /\ stack' = Append(stack, "slot")
    /\ UNCHANGED <<opVars, implVars, facade, ext, careful, failed, fault>>

\* The slots return, and the packet has been sent.
EndSlot ==
    /\ Top({"slot"})
    /\ UNCHANGED <<opVars, implVars, facade, ext, careful, failed>>
    /\ Return

\* They return, and it has not: callback_sendto closes the socket.
EndSlotFailed ==
    /\ Top({"slot"})
    /\ IF closed /\ handlers # {} THEN AssertFails("closed_handlers")
       ELSE /\ failed' = TRUE
            /\ IF closed THEN UNCHANGED <<handlers, queue, closed>> ELSE Abort(handlers)
            /\ UNCHANGED <<after, waiting, ops, rearmed, eof, facade, ext, careful>>
            /\ IF ~closed /\ Shuts
               THEN Shut(Front(stack), "abort") /\ UNCHANGED fault
               ELSE UNCHANGED <<decClose, utp>> /\ Return

OnConnect ==
    /\ Top({"on_read"})
    /\ utp = "syn_sent"
    /\ IF "connect" \notin handlers THEN AssertFails("empty_post")
       ELSE /\ utp' = "connected"
            /\ post_op("connect")
            /\ UNCHANGED <<after, waiting, ops, rearmed, closed, eof, decClose, facade, ext,
                           stack, careful, failed, fault>>

\* on_receive or on_eof answers a read that waits.
OnReceive(end) ==
    /\ Top({"on_read"})
    /\ utp = "connected" \/ (end /\ utp = "closing")
    /\ ~eof
    /\ eof' = end
    /\ IF "recv" \in handlers THEN post_op("recv") ELSE UNCHANGED <<handlers, queue>>
    /\ UNCHANGED <<after, waiting, ops, rearmed, closed, decClose, utp, facade, ext, stack,
                   careful, failed, fault>>

\* on_writable: do_write again, up to the first utp_write.
OnWritable ==
    /\ Top({"on_read", "tick"}) /\ Room
    /\ utp = "connected"
    /\ "send" \in handlers
    /\ rearmed < MaxRearm
    /\ rearmed' = rearmed + 1
    /\ setup_op("send")
    /\ stack' = Append(stack, "write")
    /\ UNCHANGED <<queue, implVars, facade, ext, careful, failed, fault>>

\* on_destroy: the connection has ended, or ~udp_multiplexer_impl ends it.
OnDestroy ==
    /\ \/ Top({"on_read", "tick"}) /\ utp \in Closing
       \/ /\ fault = "none" /\ stack = <<>> /\ utp # "none"
          /\ ~Kept(stack, facade, ext)
    /\ IF closed /\ handlers # {} THEN AssertFails("closed_handlers")
       ELSE /\ utp' = "none"
            /\ IF closed THEN UNCHANGED <<handlers, queue, closed>> ELSE Abort(handlers)
            /\ ops' = ops - (IF decClose THEN 1 ELSE 0)
            /\ decClose' = FALSE
            /\ UNCHANGED <<after, waiting, rearmed, eof, facade, ext, stack, careful, failed,
                           fault>>

-----------------------------------------------------------------------------

UserNext ==
    \/ Connect \/ Write \/ Close \/ Destroy \/ CloseMultiplexer
    \/ \E k \in Kinds : Reject(k)
    \/ \E data \in BOOLEAN : Read(data)

CallNext ==
    \/ EndConnect \/ EndSocketClose \/ EndAbort \/ SendTo \/ EndSlot \/ EndSlotFailed
    \/ \E done \in BOOLEAN : EndWrite(done)

LoopNext ==
    \/ Leave \/ OnConnect \/ OnWritable \/ OnDestroy
    \/ \E frame \in {"on_read", "tick"} : Enter(frame)
    \/ \E end \in BOOLEAN : OnReceive(end)
    \/ \E k \in Kinds : RunHandler(k)

Next == UserNext \/ CallNext \/ LoopNext

Spec == Init /\ [][Next]_vars

-----------------------------------------------------------------------------
(***************************************************************************)
(* Properties.                                                             *)
(***************************************************************************)

\* In the middle of every call, whatever slots and failed sends have done to
\* the socket meanwhile, an op the client waits for is in one handler member
\* or posted, and the op counter is what the handlers and the close will
\* take off it again (and the re-armed writes will not).
AccountedInCalls ==
    /\ waiting = handlers \cup queue
    /\ handlers \cap queue = {}
    /\ ops = Cardinality(after) + rearmed + (IF decClose THEN 1 ELSE 0)

\* The window of close_with_error, from utp_close to _decrement_close: it is
\* open exactly while one close_with_error is on the stack, never for two of
\* them, and while it is, and only then, is a connection in its closing
\* handshake not counted and its socket object still attached to it.
CloseWindow ==
    LET inside == {i \in DOMAIN stack : stack[i] \in {"close", "abort"}}
    IN  /\ Cardinality(inside) = IF utp \in Closing /\ ~decClose THEN 1 ELSE 0
        /\ decClose => closed /\ utp \in Closing /\ facade # "bound"
        /\ utp \in Closing => closed

\* A careful client's slots may use the socket, also in the middle of on_read
\* and of the tick, without meeting a failing assertion, an empty handler, a
\* dangling _owner or a libutp that is destroyed while it runs.  The one
\* thing that remains is a send that fails in the middle of a write: the
\* socket is closed under do_write's feet, and its handler is gone.
CarefulSlotsSafe ==
    careful => fault = "none" \/ (failed /\ fault = "empty_post")

\* When no send fails, a write that has begun finds its handler at the end.
\* It does not when a slot called for one of its packets closes the socket.
WriteHandlerSet == ~failed => fault # "empty_post"

=============================================================================
