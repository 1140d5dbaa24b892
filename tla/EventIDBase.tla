---------------------------- MODULE EventIDBase ----------------------------
(***************************************************************************)
(* EventIDBase (GaudiKernel/GaudiKernel/EventIDBase.h): the identity of an *)
(* event as run, event and lumi-block numbers and a time stamp.  Each      *)
(* setter stores its field and sets the m_type bits of every pair of       *)
(* fields that are now defined; operator< orders by time stamp when both   *)
(* sides are time-stamped and by (run, lumi, event) otherwise; operator==  *)
(* compares run, event and lumi only.                                       *)
(*                                                                         *)
(* The objects Ids are built by any sequence of setter calls.  The         *)
(* nanosecond offset and the bunch-crossing id take no part in any         *)
(* comparison or m_type bit and are left out.  UNDEFNUM and UNDEFEVT are   *)
(* defined in EventIDBase.cpp, which is not in this repository; as the     *)
(* largest values of their unsigned types they are only compared, so any   *)
(* number above Nums stands for them.                                      *)
(***************************************************************************)
EXTENDS Naturals, Sequences, Relation, Bitwise

CONSTANTS
    Ids,        \* the EventIDBase objects
    Nums,       \* the values given to the setters
    UNDEFNUM,   \* EventIDBase::UNDEFNUM (number_type)
    UNDEFEVT    \* EventIDBase::UNDEFEVT (event_number_t)

ASSUME \A n \in Nums : n < UNDEFNUM /\ n < UNDEFEVT

VARIABLE eid   \* eid[i]: the fields and the m_type bits of object i

\* enum Type.
Invalid == 0
RunEvent == 2
TimeStamp == 4
LumiEvent == 8
RunLumi == 16

\* The default constructor and the member initializers.
Init ==
    eid = [i \in Ids |-> [run |-> UNDEFNUM, evt |-> UNDEFEVT, ts |-> UNDEFNUM,
                          lumi |-> UNDEFNUM, type |-> Invalid]]

\* setRE/setTS/setLE/setRL when the condition holds: m_type = m_type | bit.
SetIf(type, cond, bit) == IF cond THEN type | bit ELSE type

\* isRunEvent, isTimeStamp, isLumiEvent, isRunLumi (EventIDBase.cpp).
Is(o, bit) == (o.type & bit) # 0
IsTimeStamp(o) == Is(o, TimeStamp)

SetRunNumber(i, v) ==
    LET o == eid[i] IN
    eid' = [eid EXCEPT ![i] = [o EXCEPT !.run = v,
              !.type = SetIf(SetIf(@, o.evt # UNDEFEVT, RunEvent),
                             o.lumi # UNDEFNUM, RunLumi)]]

SetEventNumber(i, v) ==
    LET o == eid[i] IN
    eid' = [eid EXCEPT ![i] = [o EXCEPT !.evt = v,
              !.type = SetIf(SetIf(@, o.run # UNDEFNUM, RunEvent),
                             o.lumi # UNDEFNUM, LumiEvent)]]

\* Mutant: setTS adds the bit instead of or-ing it.
SetTimeStampAdd(i, v) ==
    eid' = [eid EXCEPT ![i].ts = v, ![i].type = @ + TimeStamp]

SetTimeStamp(i, v) ==
    eid' = [eid EXCEPT ![i].ts = v, ![i].type = @ | TimeStamp]

\* Mutant: set_lumi_block without setLE.
SetLumiBlockNoLE(i, v) ==
    LET o == eid[i] IN
    eid' = [eid EXCEPT ![i] = [o EXCEPT !.lumi = v,
              !.type = SetIf(@, o.run # UNDEFNUM, RunLumi)]]

SetLumiBlock(i, v) ==
    LET o == eid[i] IN
    eid' = [eid EXCEPT ![i] = [o EXCEPT !.lumi = v,
              !.type = SetIf(SetIf(@, o.run # UNDEFNUM, RunLumi),
                             o.evt # UNDEFEVT, LumiEvent)]]

Next ==
    \E i \in Ids, v \in Nums :
        \/ SetRunNumber(i, v)
        \/ SetEventNumber(i, v)
        \/ SetTimeStamp(i, v)
        \/ SetLumiBlock(i, v)

Spec == Init /\ [][Next]_eid

-----------------------------------------------------------------------------
\* std::tie(...) < std::tie(...): lexicographic order of equal-length tuples.
RECURSIVE TieLess(_, _)
TieLess(s, t) ==
    /\ s # << >>
    /\ \/ Head(s) < Head(t)
       \/ Head(s) = Head(t) /\ TieLess(Tail(s), Tail(t))

\* Mutant: the time stamps compared with <=.
LessTsLeq(a, b) ==
    IF IsTimeStamp(a) /\ IsTimeStamp(b) THEN a.ts <= b.ts
    ELSE TieLess(<<a.run, a.lumi, a.evt>>, <<b.run, b.lumi, b.evt>>)

\* operator<
Less(a, b) ==
    IF IsTimeStamp(a) /\ IsTimeStamp(b) THEN a.ts < b.ts
    ELSE TieLess(<<a.run, a.lumi, a.evt>>, <<b.run, b.lumi, b.evt>>)

\* Mutant: equality on run and event only.
EqualRunEvent(a, b) == a.run = b.run /\ a.evt = b.evt

\* operator==
Equal(a, b) == a.run = b.run /\ a.evt = b.evt /\ a.lumi = b.lumi

Greater(a, b) == Less(b, a)
NotEqual(a, b) == ~Equal(a, b)
LessEq(a, b) == ~Greater(a, b)
GreaterEq(a, b) == ~Less(a, b)

\* Mutant: make_cmp with std::less<> as its default comparison.
MakeCmpLess(lhs, rhs) == TieLess(lhs, rhs)

\* details::make_cmp(p) applied to the projections lhs = p(a), rhs = p(b)
\* (std::tie tuples), compared with its default Cmp, std::greater<>.
MakeCmp(lhs, rhs) == TieLess(rhs, lhs)

\* SortByRunEvent, SortByLumiEvent, SortByRunLumi.  (SortByTimeStamp also
\* projects the nanosecond offset, which the model leaves out.)
SortByRunEvent(a, b) == MakeCmp(<<a.run, a.evt>>, <<b.run, b.evt>>)
SortByLumiEvent(a, b) == MakeCmp(<<a.lumi, a.evt>>, <<b.lumi, b.evt>>)
SortByRunLumi(a, b) == MakeCmp(<<a.run, a.lumi>>, <<b.run, b.lumi>>)

-----------------------------------------------------------------------------
TypeOK ==
    eid \in [Ids -> [run : Nums \cup {UNDEFNUM}, evt : Nums \cup {UNDEFEVT},
                     ts : Nums \cup {UNDEFNUM}, lumi : Nums \cup {UNDEFNUM},
                     type : {RunEvent * a + TimeStamp * b + LumiEvent * c + RunLumi * d :
                             a, b, c, d \in 0 .. 1}]]

\* Whatever order the setters are called in, the m_type bits say exactly
\* which pairs of fields are defined, as isRunEvent, isTimeStamp,
\* isLumiEvent and isRunLumi report them.
TypeReflectsFields ==
    \A i \in Ids :
        LET o == eid[i] IN
        /\ Is(o, RunEvent)  <=> o.run # UNDEFNUM /\ o.evt # UNDEFEVT
        /\ Is(o, RunLumi)   <=> o.run # UNDEFNUM /\ o.lumi # UNDEFNUM
        /\ Is(o, LumiEvent) <=> o.lumi # UNDEFNUM /\ o.evt # UNDEFEVT
        /\ Is(o, TimeStamp) <=> o.ts # UNDEFNUM

\* Among objects with the same set of values defined (the assumption the
\* comment in operator< states) operator< is a strict weak order, as
\* std::sort and std::map require: irreflexive, transitive, and
\* incomparability is transitive.
LessIsStrictWeakOrder ==
    \A T \in {eid[i].type : i \in Ids} :
        LET S == {eid[i] : i \in {j \in Ids : eid[j].type = T}}
            Inc(a, b) == ~Less(a, b) /\ ~Less(b, a)
        IN  /\ IsStrictlyPartiallyOrderedUnder(Less, S)
            /\ \A a, b, c \in S : Inc(a, b) /\ Inc(b, c) => Inc(a, c)

\* For two objects that are not both time-stamped, operator== holds exactly
\* when neither is less than the other, and <=, >=, != agree with < and ==.
ComparisonsAgree ==
    \A i, j \in Ids :
        LET a == eid[i]
            b == eid[j]
        IN  ~(IsTimeStamp(a) /\ IsTimeStamp(b)) =>
              /\ Equal(a, b) <=> ~Less(a, b) /\ ~Less(b, a)
              /\ LessEq(a, b) <=> Less(a, b) \/ Equal(a, b)
              /\ GreaterEq(a, b) <=> Greater(a, b) \/ Equal(a, b)
              /\ NotEqual(a, b) <=> Less(a, b) \/ Greater(a, b)

\* The SortBy* comparators sort in the reverse of operator<: for objects not
\* both time-stamped, whichever sorts first by run and lumi, by run and
\* event within a lumi block, or by lumi and event within a run is the
\* greater under operator<.
SortByDescending ==
    \A i, j \in Ids :
        LET a == eid[i]
            b == eid[j]
        IN  ~(IsTimeStamp(a) /\ IsTimeStamp(b)) =>
              /\ SortByRunLumi(a, b) => Less(b, a)
              /\ SortByRunEvent(a, b) /\ a.lumi = b.lumi => Less(b, a)
              /\ SortByLumiEvent(a, b) /\ a.run = b.run => Less(b, a)

=============================================================================
