---------------------------- MODULE SessionParser ----------------------------
(***************************************************************************)
(* massdata/SessionParser.cpp: the parser that a data pipe feeds with the  *)
(* chunks of a Carrier session, and the frame of a message on the wire.    *)
(*                                                                         *)
(* The wire is a sequence of units.  The Info of a frame is two of them    *)
(* (the magic number; the version with the two sizes); a byte of a head or *)
(* of a body says where it comes from, so that a message that comes out    *)
(* can be compared with the one that went in.  Where a chunk ends inside   *)
(* the Info makes no difference to the code, which waits until it has all  *)
(* of it.                                                                  *)
(*                                                                         *)
(* The sizes in an Info are those that pack writes: naturals that fit.     *)
(* headSize is signed on the wire; a frame that no pack wrote, with a      *)
(* negative size, is outside of the model.                                 *)
(***************************************************************************)
EXTENDS Integers, SequencesExt

InfoSize == 2

Unit(f, v) == [f |-> f, v |-> v]

Bytes(f, tag, n) == [k \in 1..n |-> Unit(f, tag \o <<k>>)]

\* A message: its kind is "frame", "old" for a frame of another version, or "junk"
\* for bytes outside of every frame; the sizes of its head and of its body
Message == [kind : {"frame", "old", "junk"}, hs : Nat, bs : Nat]

\* A message on the wire
pack(tag, msg) ==
    IF msg.kind = "junk"
      THEN Bytes("junk", <<>>, msg.bs)
      ELSE <<Unit("magic", <<>>),
             Unit(IF msg.kind = "old" THEN "other" ELSE "version",
                  <<msg.hs, msg.bs>>)>>
           \o Bytes("head", tag, msg.hs) \o Bytes("body", tag, msg.bs)

-----------------------------------------------------------------------------
\* The members of the class: cachingData, and protocol with its Info, headData
\* and the body received so far; on is whether protocol is set
NewParser ==
    [cache |-> <<>>, on |-> FALSE, hs |-> 0, bs |-> 0, head |-> <<>>, body |-> <<>>]

\* protocol.reset()
Reset(p) == [NewParser EXCEPT !.cache = p.cache]

\* A new Protocol has its Info zeroed
Begun(p, cache) == [NewParser EXCEPT !.on = TRUE, !.cache = cache]

\* How much of the cache comes before the first magic number with room for an
\* Info behind it
GarbageIdx(c) ==
    LET found == {i \in 0..(Len(c) - InfoSize) : c[i + 1].f = "magic"}
    IN  IF found # {} THEN CHOOSE i \in found : \A j \in found : i <= j
        ELSE IF Len(c) < InfoSize THEN 0 ELSE Len(c) - InfoSize + 1

HeadParsed(p) == p.on /\ p.hs = Len(p.head)

\* Where the body starts in the input: prev bytes of the cache came before it,
\* garbage of them were dropped
BadBodyStart(hs, prev, garbage) == InfoSize + hs - prev
BodyStart(hs, prev, garbage) == InfoSize + hs - (prev - garbage)

HeadEnough(p) == Len(p.cache) >= InfoSize + p.hs

\* The head, once the cache holds all of it
StoreHead(p, prev, garbage) ==
    IF ~HeadEnough(p)
      THEN [parser |-> p, ret |-> 0, end |-> "short"]
      ELSE [parser |-> [p EXCEPT !.head = SubSeq(p.cache, InfoSize + 1, InfoSize + p.hs),
                                 !.cache = <<>>],
            ret |-> BodyStart(p.hs, prev, garbage), end |-> "no"]

unpackProtocol(p, data) ==
    LET all == p.cache \o data
        garbage == GarbageIdx(all)
        cache == SubSeq(all, garbage + 1, Len(all))
    IN  CASE HeadParsed(p) -> [parser |-> p, ret |-> 0, end |-> "no"]
          [] p.on /\ ~HeadParsed(p) -> StoreHead([p EXCEPT !.cache = all], Len(p.cache), 0)
          [] ~p.on /\ Len(cache) < InfoSize ->
                [parser |-> [p EXCEPT !.cache = cache], ret |-> 0, end |-> "short"]
          [] ~p.on /\ Len(cache) >= InfoSize /\ cache[2].f # "version" ->
                [parser |-> Begun(p, cache), ret |-> 0, end |-> "error"]
          [] OTHER ->
                StoreHead([Begun(p, cache) EXCEPT !.hs = cache[2].v[1], !.bs = cache[2].v[2]],
                          Len(p.cache), garbage)

RealSize(needed, data) == IF needed < Len(data) THEN needed ELSE Len(data)

\* The body takes what it lacks; a message that is complete goes to the listener
unpackBodyData(p, data) ==
    LET real == RealSize(p.bs - Len(p.body), data)
        body == p.body \o SubSeq(data, 1, real)
    IN  IF Len(body) = p.bs
          THEN [parser |-> Reset(p), ret |-> real, out |-> <<[head |-> p.head, body |-> body]>>]
          ELSE [parser |-> [p EXCEPT !.body = body], ret |-> real, out |-> <<>>]

\* One round of the loop of unpack on the data that is left: the data left
\* after it, the message handed to the listener, if any, and whether the loop
\* ends
unpack(p, data) ==
    LET first == unpackProtocol(p, data)
        rest == SubSeq(data, first.ret + 1, Len(data))
        second == unpackBodyData(first.parser, rest)
        left == SubSeq(rest, second.ret + 1, Len(rest))
    IN  IF first.end # "no"
          THEN [parser |-> first.parser, left |-> <<>>, out |-> <<>>]
          ELSE [parser |-> second.parser, left |-> left, out |-> second.out]

=============================================================================
