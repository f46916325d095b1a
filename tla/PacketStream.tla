---------------------------- MODULE PacketStream ----------------------------
(***************************************************************************)
(* One connection between two nodes: packets are written into a stream of  *)
(* bytes, the stream arrives in pieces of any size, and the receiving end  *)
(* cuts it into packets again and runs the handler of each, or the         *)
(* callback of the call it answers.                                        *)
(***************************************************************************)
EXTENDS Naturals, Sequences, FiniteSets, Functions, SequencesExt

CONSTANTS Ends,           \* the two nodes
          HotEnds,        \* those that have the other in a hot slot
          Methods,        \* names of remote methods
          Bodies,         \* possible lengths of a packet behind its header
          MaxPacketSize,  \* JINN_CONST.MAX_PACKET_SIZE
          AliveTicks,     \* METHOD_ALIVE_TIME in turns of the one-second timer
          MaxCalls        \* bound: MaxCalls[e] is how many calls end e makes

ASSUME EndsAssumption == IsFiniteSet(Ends) /\ Cardinality(Ends) = 2 /\ HotEnds \subseteq Ends
ASSUME SizesAssumption == /\ Bodies \subseteq Nat \ {0}
                          /\ MaxPacketSize \in Nat
                          /\ AliveTicks \in Nat
                          /\ MaxCalls \in [Ends -> Nat]

VARIABLES child,    \* child[e]: what end e keeps of the connection
          pipe,     \* pipe[e]: bytes written by e that have not arrived
          sent,     \* history: the packets e has written
          handled,  \* history: the packets e has run
          ran,      \* history: the callbacks e has run
          badNum    \* history: "Bad packet num" was reported

vars == <<child, pipe, sent, handled, ran, badNum>>

Other(e) == CHOOSE o \in Ends : o # e

\* The numbers of TEST_NET_DEBUG mode: 4 bytes of number, 4 bytes of length.
HeaderSize == 8
Short == 5

-----------------------------------------------------------------------------
\* A byte is known by its packet's place in sent and its place in the packet.
Bytes(p, i) == [at \in 1..p.len |-> <<i, at>>]

\* ReadUint32FromArr: the first (field = 0) or second (field = 4) number of a
\* header. Four bytes that are not one such number count as 0.
Read(arr, packets, pos, field) ==
    LET i == arr[pos + 1][1]
    IN  IF \A k \in 1..4 : arr[pos + k] = <<i, field + k>>
        THEN IF field = 0 THEN packets[i].num ELSE packets[i].len
        ELSE 0

\* The packet made of these bytes.
Parsed(arr, packets) == packets[arr[1][1]]

NewChild == [open |-> TRUE, sendCount |-> 0, recvCount |-> 0, ids |-> 0,
             calls |-> << >>, buf |-> << >>]

Init == /\ child = [e \in Ends |-> NewChild]
        /\ pipe = [e \in Ends |-> << >>]
        /\ sent = [e \in Ends |-> << >>]
        /\ handled = [e \in Ends |-> << >>]
        /\ ran = [e \in Ends |-> << >>]
        /\ badNum = FALSE

-----------------------------------------------------------------------------
\* What one turn of the event loop at an end changes: its child c, the packets
\* it has written and their bytes, and the history; more: its buffer is looked
\* at again.
Work(e) == [c |-> child[e], sent |-> sent[e], pipe |-> pipe[e],
            took |-> handled[e], ran |-> ran[e], bad |-> badNum, more |-> FALSE]

\* PrepareOnSendNext: nothing is sent on a connection that is not open; a call
\* with a callback gets the next context.
Pack(c, call, method, ctx, of, body) ==
    [num |-> c.sendCount, call |-> call, method |-> method, ctx |-> ctx,
     of |-> of, len |-> HeaderSize + body]

Written(w, p) ==
    [w EXCEPT !.sent = Append(@, p), !.pipe = @ \o Bytes(p, Len(w.sent) + 1),
              !.c.sendCount = @ + 1]

\* The call the next packet makes waits for its answer in context id.
Asked(w, id, method) ==
    LET calls == w.c.calls
        asked == [method |-> method, age |-> 0, packet |-> Len(w.sent) + 1]
    IN  [w EXCEPT !.c.ids = id,
                  !.c.calls = [k \in DOMAIN calls \cup {id} |->
                                 IF k = id THEN asked ELSE calls[k]]]

\* Mutant: the number of the context is not raised.
Call_SameContext(w, method, wantsAnswer, body) ==
    IF ~w.c.open THEN w
    ELSE IF wantsAnswer
    THEN Written(Asked(w, 1, method), Pack(w.c, TRUE, method, 1, 0, body))
    ELSE Written(w, Pack(w.c, TRUE, method, 0, 0, body))

Call(w, method, wantsAnswer, body) ==
    LET id == w.c.ids + 1
    IN  IF ~w.c.open THEN w
        ELSE IF wantsAnswer
        THEN Written(Asked(w, id, method), Pack(w.c, TRUE, method, id, 0, body))
        ELSE Written(w, Pack(w.c, TRUE, method, 0, 0, body))

Answer(w, p, i, body) ==
    IF w.c.open /\ p.ctx # 0
    THEN Written(w, Pack(w.c, FALSE, p.method, p.ctx, i, body))
    ELSE w

\* A handler may answer, stay silent, or close the connection.
Outcomes == {"answer", "silent", "close"}

Closed(w) == [w EXCEPT !.c.open = FALSE]

\* CallMethodOnReceive. A callback runs only if its context is still there.
RunCallback(w, p, what) ==
    LET called == w.c.calls[p.ctx]
        done == [w EXCEPT
                   !.c.calls = Restrict(@, DOMAIN @ \ {p.ctx}),
                   !.ran = Append(@, [packet |-> called.packet, of |-> p.of])]
    IN  IF p.ctx \in DOMAIN w.c.calls /\ called.method = p.method
        THEN IF what = "close" THEN Closed(done) ELSE done
        ELSE w

\* Mutant: the connection is not looked at again for each packet.
CallMethodOnReceive_Always(w, p, i, what, body) ==
    LET took == [w EXCEPT !.took = Append(@, p)]
    IN  IF ~p.call THEN RunCallback(took, p, what)
        ELSE IF what = "answer" THEN Answer(took, p, i, body)
        ELSE IF what = "close" THEN Closed(took)
        ELSE took

CallMethodOnReceive(w, p, i, what, body) ==
    LET took == [w EXCEPT !.took = Append(@, p)]
    IN  IF ~w.c.open THEN w
        ELSE IF ~p.call THEN RunCallback(took, p, what)
        ELSE IF what = "answer" THEN Answer(took, p, i, body)
        ELSE IF what = "close" THEN Closed(took)
        ELSE took

\* The number of a packet, checked and counted before its length is known to
\* have arrived.
Numbered(w, num) ==
    [w EXCEPT !.bad = @ \/ num # w.c.recvCount,
              !.c.recvCount = (IF num > @ THEN num ELSE @) + 1]

\* Mutant: an incomplete packet stays counted.
Uncounted_No(w) == w

\* The packet has not arrived whole.
Uncounted(w) == [w EXCEPT !.c.recvCount = @ - 1]

\* One pass of TweakOneMethod, which goes on with what is behind a whole packet:
\* will[i] is what the handler of the i-th packet will do.
Tweaked(w, packets, will, body) ==
    LET arr == w.c.buf
        length == Read(arr, packets, 4, 4)
        n == [Numbered(w, Read(arr, packets, 0, 0)) EXCEPT !.more = FALSE]
        i == arr[1][1]
        what == IF i \in DOMAIN will THEN will[i] ELSE "silent"
        cut == CallMethodOnReceive(n, Parsed(arr, packets), i, what, body)
        rest == [cut EXCEPT !.c.buf = SubSeq(arr, length + 1, Len(arr))]
    IN  IF Len(arr) < Short \/ Len(arr) < HeaderSize THEN [w EXCEPT !.more = FALSE]
        ELSE IF length > MaxPacketSize THEN n
        ELSE IF Len(arr) = length THEN rest
        ELSE IF length # 0 /\ Len(arr) > length THEN [rest EXCEPT !.more = TRUE]
        ELSE Uncounted(n)

\* Mutant: what is behind a whole packet waits for the next piece.
TweakOneMethod_Once(w, packets, will, body) == Tweaked(w, packets, will, body)

\* A pass that is followed by another one takes bytes from the buffer.
TweakOneMethod(w, packets, will, body) ==
    LET pass[n \in 0..Len(w.c.buf)] ==
          IF n = 0 THEN [w EXCEPT !.more = TRUE]
          ELSE LET x == pass[n - 1]
               IN  IF x.more THEN Tweaked(x, packets, will, body) ELSE x
    IN  pass[Len(w.c.buf)]

\* The end of the turn; left is what has not arrived.
Finish(e, w, left) ==
    /\ child' = [child EXCEPT ![e] = w.c]
    /\ pipe' = [pipe EXCEPT ![e] = w.pipe, ![Other(e)] = left]
    /\ sent' = [sent EXCEPT ![e] = w.sent]
    /\ handled' = [handled EXCEPT ![e] = w.took]
    /\ ran' = [ran EXCEPT ![e] = w.ran]
    /\ badNum' = w.bad

-----------------------------------------------------------------------------
\* How many calls an end has made.
Made(e) == Cardinality({i \in 1..Len(sent[e]) : sent[e][i].call})

\* Engine.Send
Send(e) == /\ child[e].open
           /\ Made(e) < MaxCalls[e]
           /\ \E method \in Methods, wants \in BOOLEAN, body \in Bodies :
                Finish(e, Call(Work(e), method, wants, body), pipe[Other(e)])

\* PrepareOnReceive: a piece of the stream arrives. A piece that was still in
\* the decoder when the end closed is taken as well and runs nothing.
Receive(e) ==
    LET o == Other(e)
    IN  \E k \in 1..Len(pipe[o]) :
          LET arr == child[e].buf \o SubSeq(pipe[o], 1, k)
              whole == {i \in 1..Len(sent[o]) : Last(Bytes(sent[o][i], i)) \in ToSet(arr)}
          IN  \E body \in Bodies, will \in [whole -> Outcomes] :
                Finish(e, TweakOneMethod([Work(e) EXCEPT !.c.buf = arr], sent[o], will, body),
                       SubSeq(pipe[o], k + 1, Len(pipe[o])))

\* CloseConnectionToChild, an error of the socket, or the other end's close.
Close(e) == /\ child[e].open
            /\ Finish(e, Closed(Work(e)), pipe[Other(e)])

\* Mutant: an old call gets a new term instead of being forgotten.
DoNode_Renews(e) ==
    LET calls == child[e].calls
    IN  /\ e \in HotEnds
        /\ child[e].open
        /\ child' = [child EXCEPT ![e].calls = [id \in DOMAIN calls |->
                       [calls[id] EXCEPT !.age = IF @ > AliveTicks THEN 0 ELSE @ + 1]]]
        /\ UNCHANGED <<pipe, sent, handled, ran, badNum>>

\* DoNode: every second the calls of hot children grow old and are forgotten.
DoNode(e) ==
    LET calls == child[e].calls
        young == {id \in DOMAIN calls : calls[id].age <= AliveTicks}
        aged == [id \in young |-> [calls[id] EXCEPT !.age = @ + 1]]
    IN  /\ e \in HotEnds
        /\ child[e].open
        /\ child' = [child EXCEPT ![e].calls = aged]
        /\ UNCHANGED <<pipe, sent, handled, ran, badNum>>

Next == \E e \in Ends : Send(e) \/ Receive(e) \/ Close(e) \/ DoNode(e)

Spec == Init /\ [][Next]_vars

\* Weak fairness of Receive and DoNode, with what enables them written out:
\* bytes in the stream arrive (nothing but Receive takes them out), and the
\* timer goes on.
FairSpec ==
    /\ Spec
    /\ \A e \in Ends :
         /\ []<>(pipe[e] = << >>) \/ []<><<Len(pipe'[e]) < Len(pipe[e])>>_vars
         /\ []<>(child[e].calls = << >> \/ ~child[e].open \/ e \notin HotEnds)
              \/ []<><<DoNode(e)>>_vars

-----------------------------------------------------------------------------
Packets == [num : Nat, call : BOOLEAN, method : Methods, ctx : Nat, of : Nat,
            len : {HeaderSize + b : b \in Bodies}]

\* Every variable has its type; a context is a number this end has given out.
TypeOK ==
    /\ \A e \in Ends :
         /\ child[e].open \in BOOLEAN
         /\ child[e].sendCount = Len(sent[e])
         /\ child[e].recvCount \in Nat
         /\ DOMAIN child[e].calls \subseteq 1..child[e].ids
         /\ \A id \in DOMAIN child[e].calls :
              sent[e][child[e].calls[id].packet].ctx = id
         /\ \A i \in 1..Len(sent[e]) : sent[e][i] \in Packets
    /\ badNum \in BOOLEAN

AllFit == \A e \in Ends : \A i \in 1..Len(sent[e]) : sent[e][i].len <= MaxPacketSize

\* The counter of received packets, raised before it is known whether the
\* packet has arrived and taken back when it has not, agrees with the sender's
\* however the stream is cut: "Bad packet num" is reported only behind a packet
\* above the limit (TweakOneMethod).
NoBadNum == badNum => ~AllFit

\* A callback runs at most once, and with the answer to the call it was given
\* for, also when contexts have been forgotten and calls of the same method
\* overlap (CallMethodOnReceive, DoNode).
OwnAnswer ==
    \A e \in Ends : \A i, j \in 1..Len(ran[e]) :
        /\ ran[e][i].of = ran[e][i].packet
        /\ ran[e][i] = ran[e][j] => i = j

\* The stream of bytes implements a channel of packets.
Channel == INSTANCE MessageChannel
             WITH isOpen <- [e \in Ends |-> child[e].open]

\* Packets are handled whole, once each, in order, and none after the end that
\* handles them has closed, even if it closed while packets behind the current
\* one were already in its buffer.
IsChannel == Channel!ChannelSpec

Gone == \E e \in Ends : ~child[e].open

\* A packet that has been sent is handled, or the connection ends, or a packet
\* above the limit has made the receiver deaf: packets that arrive in one piece
\* do not wait in the buffer for the next piece.
Delivered ==
    \A e \in Ends : \A i \in 1..MaxCalls[e] + MaxCalls[Other(e)] :
        Len(sent[e]) >= i ~> Len(handled[Other(e)]) >= i \/ Gone \/ ~AllFit

\* A call on a hot connection does not wait for ever, whether the other end
\* answers, stays silent or has sent its answer too late.
CallsEnd ==
    \A e \in HotEnds : \A id \in 1..MaxCalls[e] :
        id \in DOMAIN child[e].calls ~> id \notin DOMAIN child[e].calls \/ Gone

=============================================================================
