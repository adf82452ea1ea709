----------------------------- MODULE StreamFraming -----------------------------
(***************************************************************************)
(* A streamed answer on its way (proxy.service.ts, forwardStreamRequest):  *)
(* the upstream's lines go to the client one by one, its data: [DONE] is   *)
(* withheld until the receipt is written, and the two SDKs read what       *)
(* arrives (sdk/index.ts and client.py, the generators over the response). *)
(* How bytes fall into chunks is left out: a line buffer puts them         *)
(* together on both ends.  A line of content is known by its place in the  *)
(* upstream's stream.                                                      *)
(***************************************************************************)
EXTENDS Naturals, Sequences, SequencesExt

CONSTANT MaxLines   \* a bound on the upstream's lines

VARIABLES
    sent,           \* the upstream's lines so far
    wire,           \* the lines written to the client
    upstreamDone,   \* the sentinel was seen, and withheld
    stream          \* [pc, close, waits]: "none", "open", "receipt",
                    \* "sentinel", "ended" or "abandoned"; how it closed;
                    \* and whether a write waits for the client to read

streaming == <<sent, wire, upstreamDone, stream>>

Line(kind, n) == [kind |-> kind, n |-> n, newline |-> TRUE]

StreamInit ==
    /\ sent = << >> /\ wire = << >> /\ upstreamDone = FALSE
    /\ stream = [pc |-> "none", close |-> "none", waits |-> FALSE]

(* What follows a line without its newline makes one line with it, which   *)
(* neither SDK can parse.                                                  *)
Written(line) ==
    IF wire # << >> /\ ~Last(wire).newline
    THEN Append(Front(wire), Line("garbage", 0)) ELSE Append(wire, line)

(* The next step of a handler that no write holds up.                      *)
Writable(pc) == stream.pc = pc /\ ~stream.waits

(* writeChunk: a client that reads slowly, or no more, holds up the next   *)
(* step until it drains or closes, for which there is no timer.            *)
MayWait == stream' \in {stream, [stream EXCEPT !.waits = TRUE]}
DrainOrClose ==
    /\ stream.waits
    /\ stream' = [stream EXCEPT !.waits = FALSE]
    /\ UNCHANGED <<sent, wire, upstreamDone>>

forwardStreamRequest ==
    /\ stream.pc = "none"
    /\ stream' = [stream EXCEPT !.pc = "open"]
    /\ UNCHANGED <<sent, wire, upstreamDone>>

(* The sentinel forwarded as it comes.                                     *)
ForwardLine_Sentinel(kind) ==
    /\ Writable("open") /\ Len(sent) < MaxLines
    /\ sent' = Append(sent, kind)
    /\ wire' = Written(Line(kind, Len(sent')))
    /\ MayWait /\ UNCHANGED upstreamDone

ForwardLine(kind) ==
    /\ Writable("open") /\ Len(sent) < MaxLines
    /\ sent' = Append(sent, kind)
    /\ IF kind = "done"
       THEN upstreamDone' = TRUE /\ UNCHANGED <<wire, stream>>
       ELSE wire' = Written(Line(kind, Len(sent'))) /\ MayWait /\ UNCHANGED upstreamDone

(* The loop ends; a last line of content without a newline is flushed, a   *)
(* sentinel without one is forgotten.                                      *)
Close(how, tail) ==
    /\ wire' = IF tail = "content"
               THEN Append(wire, [Line(tail, Len(sent) + 1) EXCEPT !.newline = FALSE])
               ELSE wire
    /\ \E waits \in {FALSE, tail = "content"} :
          stream' = [pc |-> "receipt", close |-> how, waits |-> waits]
    /\ UNCHANGED <<sent, upstreamDone>>

UpstreamEnds(tail) ==
    /\ Writable("open")
    /\ Close(IF tail = "none" THEN "whole" ELSE "unterminated", tail)

(* A read fails: the client is told, with a sentinel of its own.           *)
UpstreamBreaks ==
    /\ Writable("open")
    /\ wire' = wire \o <<Line("error", 0), Line("done", 0)>>
    /\ stream' = [stream EXCEPT !.pc = "receipt", !.close = "broken"]
    /\ UNCHANGED <<sent, upstreamDone>>

(* The safety timer, after ten minutes, or a client that leaves, which     *)
(* looks the same to the gateway.  Both abort the upstream; a write that   *)
(* waits is not freed by the timer.                                        *)
StreamTimesOut ==
    /\ Writable("open")
    /\ \E tail \in {"none", "content"} : Close("cut", tail)

(* onDone: the actual cost, recorded on a metered route, as the last event *)
(* before the sentinel.                                                    *)
WriteReceipt ==
    /\ Writable("receipt")
    /\ wire' = Written(Line("receipt", 0))
    /\ stream' = [stream EXCEPT !.pc = "sentinel"]
    /\ UNCHANGED <<sent, upstreamDone>>

(* onDone rejects, as it records the cost before the receipt or the        *)
(* request after it.  The rest of the finally block is skipped, and the    *)
(* handler's own answer throws, because headers were sent: nobody writes   *)
(* to this response any more, or ends it.                                  *)
OnDoneRejects ==
    /\ Writable("receipt") \/ Writable("sentinel")
    /\ stream' = [stream EXCEPT !.pc = "abandoned"]
    /\ UNCHANGED <<sent, wire, upstreamDone>>

(* onDone returns.  Once the sentinel is drained, nothing but res.end() is *)
(* left.                                                                   *)
EndStream ==
    /\ Writable("sentinel")
    /\ wire' = IF upstreamDone THEN Written(Line("done", 0)) ELSE wire
    /\ \E waits \in BOOLEAN :
          /\ waits => upstreamDone
          /\ stream' = [stream EXCEPT !.pc = "ended", !.waits = waits]
    /\ UNCHANGED <<sent, upstreamDone>>

Upstream ==
    \/ \E kind \in {"content", "done"} : ForwardLine(kind)
    \/ \E tail \in {"none", "content", "done"} : UpstreamEnds(tail)
    \/ UpstreamBreaks \/ StreamTimesOut

Finish == WriteReceipt \/ OnDoneRejects \/ EndStream

-------------------------------------------------------------------------------
(* The SDKs' readers.  They give the lines they take in their order; which *)
(* lines those are is a set of places on the wire.                         *)

BeforeDone(lines) == {i \in DOMAIN lines : \A j \in 1 .. i : lines[j].kind # "done"}

Of(lines, kind) == {i \in DOMAIN lines : lines[i].kind = kind /\ lines[i].newline}

(* The TypeScript generator reads on after [DONE], for the receipt alone.  *)
sseGenerator(lines) ==
    [content |-> Of(lines, "content") \intersect BeforeDone(lines),
     receipt |-> Of(lines, "receipt")]

(* The Python generator returns at [DONE].                                 *)
sse_generator(lines) ==
    [content |-> Of(lines, "content") \intersect BeforeDone(lines),
     receipt |-> Of(lines, "receipt") \intersect BeforeDone(lines)]

(* proxy.service.ts, forwardStreamRequest, with the readers of both SDKs:  *)
(* of a stream that the upstream ends by itself both SDKs give every line  *)
(* of content once and in order, and one receipt; the sentinel is passed   *)
(* on once, as the last line, if the upstream sent one.  Where onDone      *)
(* failed the content is whole all the same, but there may be no receipt,  *)
(* and there is no sentinel.                                               *)
StreamComplete ==
    stream.close = "whole" /\ stream.pc \in {"ended", "abandoned"} =>
        /\ \A read \in {sseGenerator(wire), sse_generator(wire)} :
              /\ {wire[i].n : i \in read.content} = {k \in DOMAIN sent : sent[k] = "content"}
              /\ \A i, j \in read.content : i < j => wire[i].n < wire[j].n
              /\ \/ \E i \in DOMAIN wire : read.receipt = {i}
                 \/ stream.pc = "abandoned" /\ read.receipt = {}
        /\ {i \in DOMAIN wire : wire[i].kind = "done"}
              = {i \in {Len(wire)} : stream.pc = "ended" /\ \E k \in DOMAIN sent : sent[k] = "done"}

===============================================================================
