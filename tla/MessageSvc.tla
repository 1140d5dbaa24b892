------------------------------ MODULE MessageSvc ------------------------------
(***************************************************************************)
(* The Gaudi message service (GaudiCoreSvc/src/MessageSvc/MessageSvc.cpp). *)
(* Clients report messages of a source and a level; the service counts    *)
(* them (m_msgCount, and per source in m_sourceMap when suppression or     *)
(* statistics are on), replaces the message that reaches a level's limit  *)
(* by a "limit reached" warning and drops the ones after it, and writes    *)
(* the rest to the streams registered for the level, or to the default    *)
(* stream when the level is at or above the source's output level.  Its   *)
(* properties call update handlers (Property::set) that rewrite limits and *)
(* per-source thresholds.  initialize() opens the per-source log files     *)
(* (setupLogStreams / tee).  Message texts, formats and colours are left   *)
(* out: a message is its source and its level.  reportMessage holds a      *)
(* recursive mutex, so each call is one atomic step.                       *)
(***************************************************************************)
EXTENDS Integers, Sequences, SequencesExt, FiniteSets

CONSTANTS
  Srcs,              \* message sources (names)
  SrcOrder,          \* Srcs in the key order of a std::map<std::string, .>
  Lvls,              \* the message levels used (MSG::Level, 1 .. 7)
  LevelVals,         \* output levels a client may set
  LimitVals,         \* values the xxxLimit properties may take
  DefaultLimit,      \* the constructor's defaultLimit (500)
  Streams,           \* std::ostream objects passed to insertStream
  Codes,             \* StatusCode keys of the message map
  Msgs,              \* Message objects passed to insertMessage
  MsgType,           \* MsgType[m]: the level of message m
  DefaultType,       \* the level of m_defaultMessage
  Files,             \* log file names
  LoggedStreamsName, \* the loggedStreams property: source -> file or NoFile
  NoFile,
  IntWidth,          \* bits of an int
  MaxCalls,          \* bound on calls into the service
  MaxDup             \* bound on equal entries of a multimap

NIL    == 0
ALWAYS == 7
NoLevel == -1                       \* no entry in m_thresholdMap
LimitKeys == {NIL} \cup Lvls        \* m_msgLimit[MSG::NIL] is defaultLimit

ASSUME /\ ALWAYS \in Lvls /\ Lvls \subseteq 1 .. 7
       /\ Len(SrcOrder) = Cardinality(Srcs) /\ Range(SrcOrder) = Srcs
       /\ DefaultLimit \in LimitVals /\ 0 \in LimitVals

\* Two's complement wrap-around of an int of IntWidth bits.
IntRange == -(2^(IntWidth-1)) .. 2^(IntWidth-1) - 1
Wrap(n) == ((n + 2^(IntWidth-1)) % 2^IntWidth) - 2^(IntWidth-1)

VARIABLES
  msgCount,      \* m_msgCount[level]
  sourceMap,     \* m_sourceMap[source].msg[level]
  msgLimit,      \* m_msgLimit[level]
  suppress,      \* enableSuppression
  stats,         \* showStats
  outputLevel,   \* m_outputLevel
  thresholdMap,  \* m_thresholdMap: source -> level, or NoLevel
  streamMap,     \* m_streamMap: multimap level -> stream, as counts
  messageMap,    \* m_messageMap: multimap StatusCode -> Message, as counts
  loggedStreams, \* m_loggedStreams: source -> file of its ofstream, or NoFile
  opened,        \* ofstreams opened per file by the last setupLogStreams
  calls,         \* calls into the service so far
  lost,          \* <<source, level>> of which a message was written nowhere
  announced      \* "limit reached" warnings per <<source, level, limit>>

vars == <<msgCount, sourceMap, msgLimit, suppress, stats, outputLevel,
          thresholdMap, streamMap, messageMap, loggedStreams, opened,
          calls, lost, announced>>

Init ==
  /\ msgCount = [l \in Lvls |-> 0]
  /\ sourceMap = [s \in Srcs |-> [l \in Lvls |-> 0]]
  /\ msgLimit = [k \in LimitKeys |-> IF k = ALWAYS THEN 0 ELSE DefaultLimit]
  /\ suppress = FALSE
  /\ stats = FALSE
  /\ outputLevel = NIL
  /\ thresholdMap = [s \in Srcs |-> NoLevel]
  /\ streamMap = [p \in Lvls \X Streams |-> 0]
  /\ messageMap = [p \in Codes \X Msgs |-> 0]
  /\ loggedStreams = [s \in Srcs |-> NoFile]
  /\ opened = [f \in Files |-> 0]
  /\ calls = 0
  /\ lost = {}
  /\ announced = [x \in Srcs \X Lvls \X LimitVals |-> 0]

\* outputLevel(source): the source's threshold, else the global one.
SourceOutputLevel(s) ==
  IF thresholdMap[s] = NoLevel THEN outputLevel ELSE thresholdMap[s]

\* The test that picks the message to replace by the warning.
LimitReachedAtLeast(nmsg, lim) == nmsg >= lim
LimitReached(nmsg, lim) == nmsg = lim

\* reportMessage(msg, outputLevel) applied to r = [count, source, lost,
\* announced]: count, then suppress, then route.
ReportStep(r, src, key, ol) ==
  LET counted  == suppress \/ stats
      nmsg     == Wrap(r.source[src][key] + 1)
      lim      == msgLimit[key]
      limited  == suppress /\ lim # 0
      replaced == limited /\ LimitReached(nmsg, lim)
      dropped  == limited /\ ~LimitReached(nmsg, lim) /\ nmsg > lim
      routed   == \E st \in Streams : streamMap[<<key, st>>] > 0
      written  == ~dropped /\ (routed \/ key >= ol)
  IN [count  |-> [r.count EXCEPT ![key] = Wrap(@ + 1)],
      source |-> IF counted THEN [r.source EXCEPT ![src][key] = nmsg]
                 ELSE r.source,
      lost   |-> IF written /\ ~replaced THEN r.lost
                 ELSE r.lost \cup {<<src, key>>},
      announced |-> IF replaced
                    THEN [r.announced EXCEPT ![<<src, key, lim>>] =
                            IF @ < 2 THEN @ + 1 ELSE @]
                    ELSE r.announced]

RECURSIVE ReportAll(_, _, _, _)
ReportAll(r, src, keys, ol) ==
  IF keys = <<>> THEN r
  ELSE ReportAll(ReportStep(r, src, Head(keys), ol), src, Tail(keys), ol)

Current == [count |-> msgCount, source |-> sourceMap, lost |-> lost,
            announced |-> announced]

\* One more call into the service, within the bound.
Call == calls < MaxCalls /\ calls' = calls + 1

Commit(r) ==
  /\ msgCount' = r.count
  /\ sourceMap' = r.source
  /\ lost' = r.lost
  /\ announced' = r.announced
  /\ Call

ReportUnchanged ==
  UNCHANGED <<msgLimit, suppress, stats, outputLevel, thresholdMap,
              streamMap, messageMap, loggedStreams, opened>>

\* reportMessage(msg), and its (source, type, text) overloads.
ReportMessage(src, key) ==
  /\ Commit(ReportStep(Current, src, key, SourceOutputLevel(src)))
  /\ ReportUnchanged

\* reportMessage(StatusCode, source): for every message of the code, a
\* "Status Code" line of its type and the message; else the default one.
StatusKeys(code) ==
  LET ms == SetToSeq({m \in Msgs : messageMap[<<code, m>>] > 0})
  IN IF ms = <<>> THEN <<DefaultType, DefaultType>>
     ELSE FlattenSeq([i \in 1 .. Len(ms) |->
            [j \in 1 .. 2 * messageMap[<<code, ms[i]>>] |-> MsgType[ms[i]]]])

ReportStatus(code, src) ==
  /\ Commit(ReportAll(Current, src, StatusKeys(code), SourceOutputLevel(src)))
  /\ ReportUnchanged

-----------------------------------------------------------------------------
(* The stream and message multimaps.  eraseStream(key, stream) and         *)
(* eraseMessage(key, msg) loop until no equal entry is left.               *)

MapUnchanged ==
  /\ Call
  /\ UNCHANGED <<msgCount, sourceMap, msgLimit, suppress, stats, outputLevel,
                 thresholdMap, loggedStreams, opened, lost, announced>>

InsertStream(key, st) ==
  /\ streamMap[<<key, st>>] < MaxDup
  /\ streamMap' = [streamMap EXCEPT ![<<key, st>>] = @ + 1]
  /\ UNCHANGED messageMap /\ MapUnchanged

\* eraseStream(), eraseStream(type), eraseStream(type, s), eraseStream(s).
EraseStream(keys, sts) ==
  /\ streamMap' = [p \in DOMAIN streamMap |->
                     IF p[1] \in keys /\ p[2] \in sts THEN 0 ELSE streamMap[p]]
  /\ UNCHANGED messageMap /\ MapUnchanged

InsertMessage(code, m) ==
  /\ messageMap[<<code, m>>] < MaxDup
  /\ messageMap' = [messageMap EXCEPT ![<<code, m>>] = @ + 1]
  /\ UNCHANGED streamMap /\ MapUnchanged

\* eraseMessage(), eraseMessage(code), eraseMessage(code, msg).
EraseMessage(codes, ms) ==
  /\ messageMap' = [p \in DOMAIN messageMap |->
                      IF p[1] \in codes /\ p[2] \in ms THEN 0 ELSE messageMap[p]]
  /\ UNCHANGED streamMap /\ MapUnchanged

-----------------------------------------------------------------------------
(* Property writes.  Property::set stores the value, then calls the update *)
(* handler.                                                                *)

PropUnchanged ==
  /\ Call
  /\ UNCHANGED <<msgCount, sourceMap, streamMap, messageMap, loggedStreams,
                 opened, lost, announced>>

SetupLimitsNoReset(lim, k, v) ==
  IF k = NIL THEN [l \in LimitKeys |-> IF l \in Lvls \ {ALWAYS} THEN v ELSE lim[l]]
  ELSE lim

\* setupLimits: alwaysLimit is put back to 0; defaultLimit is copied to
\* every level but ALWAYS.
SetupLimits(lim, k, v) ==
  CASE k = ALWAYS /\ v # 0 -> [lim EXCEPT ![ALWAYS] = 0]
    [] k = NIL -> [l \in LimitKeys |->
                     IF l \in Lvls \ {ALWAYS} THEN v ELSE lim[l]]
    [] OTHER -> lim

\* The xxxLimit and defaultLimit properties.
SetLimit(k, v) ==
  /\ msgLimit' = SetupLimits([msgLimit EXCEPT ![k] = v], k, v)
  /\ UNCHANGED <<suppress, stats, outputLevel, thresholdMap>> /\ PropUnchanged

SetSuppress(b) ==
  /\ suppress' = b
  /\ UNCHANGED <<msgLimit, stats, outputLevel, thresholdMap>> /\ PropUnchanged

SetStats(b) ==
  /\ stats' = b
  /\ UNCHANGED <<msgLimit, suppress, outputLevel, thresholdMap>> /\ PropUnchanged

\* setOutputLevel(level).
SetOutputLevel(l) ==
  /\ outputLevel' = l
  /\ UNCHANGED <<msgLimit, suppress, stats, thresholdMap>> /\ PropUnchanged

\* The setXxx properties: setupThreshold calls setOutputLevel(source, level)
\* for every source listed; setOutputLevel(source, level) is one of them.
SetThresholdReplace(l, S) == [s \in S |-> l]
SetThreshold(l, S) == [s \in S |-> l] @@ thresholdMap

SetSourceLevel(l, S) ==
  /\ thresholdMap' = SetThreshold(l, S)
  /\ UNCHANGED <<msgLimit, suppress, stats, outputLevel>> /\ PropUnchanged

\* finalize(): switches suppression off, then prints the summary.
Finalize ==
  /\ suppress' = FALSE
  /\ UNCHANGED <<msgLimit, stats, outputLevel, thresholdMap>> /\ PropUnchanged

-----------------------------------------------------------------------------
(* setupLogStreams: for every entry of loggedStreams, in key order, tee()  *)
(* drops the source's stream, then shares the FIRST stream of              *)
(* m_loggedStreams when any other entry names the same file; else it opens *)
(* the file, keeping the stream only if the open succeeded (ok[src]).      *)

Logged == {s \in Srcs : LoggedStreamsName[s] # NoFile}

\* The file names of the other entries (outFileNames).
OutFileNames(src) == {LoggedStreamsName[j] : j \in Logged \ {src}}

FirstLogged(ls) ==
  SrcOrder[Min({i \in 1 .. Len(SrcOrder) : ls[SrcOrder[i]] # NoFile})]

\* The test of tee's loop over m_loggedStreams.
ShareUnlessNamed(ls, file, others) ==
  (\E s \in Srcs : ls[s] # NoFile) /\ file \notin others
ShareExisting(ls, file, others) ==
  (\E s \in Srcs : ls[s] # NoFile) /\ file \in others

\* tee(sourceName, outFileName, outFileNames) on r = [ls, opened].
Tee(r, src, ok) ==
  LET file == LoggedStreamsName[src]
      ls1  == [r.ls EXCEPT ![src] = NoFile]
  IN IF ShareExisting(ls1, file, OutFileNames(src))
     THEN [ls |-> [ls1 EXCEPT ![src] = ls1[FirstLogged(ls1)]], opened |-> r.opened]
     ELSE [ls |-> IF ok[src] THEN [ls1 EXCEPT ![src] = file] ELSE ls1,
           opened |-> IF ok[src] THEN [r.opened EXCEPT ![file] = @ + 1]
                      ELSE r.opened]

RECURSIVE TeeFrom(_, _, _)
TeeFrom(r, i, ok) ==
  IF i > Len(SrcOrder) THEN r
  ELSE TeeFrom(IF SrcOrder[i] \in Logged THEN Tee(r, SrcOrder[i], ok) ELSE r,
               i + 1, ok)

SetupLogStreams(ok) ==
  TeeFrom([ls |-> [s \in Srcs |-> NoFile], opened |-> [f \in Files |-> 0]], 1, ok)

\* initialize(): (properties, colour map, then) setupLogStreams.
Initialize ==
  /\ \E ok \in [Logged -> BOOLEAN] :
       LET r == SetupLogStreams(ok)
       IN loggedStreams' = r.ls /\ opened' = r.opened
  /\ UNCHANGED <<msgCount, sourceMap, msgLimit, suppress, stats, outputLevel,
                 thresholdMap, streamMap, messageMap, lost, announced>>
  /\ Call

\* reinitialize(): back to OFFLINE, then initialize().
Reinitialize == Initialize

-----------------------------------------------------------------------------
Next ==
  \/ \E s \in Srcs, l \in Lvls : ReportMessage(s, l)
  \/ \E c \in Codes, s \in Srcs : ReportStatus(c, s)
  \/ \E l \in Lvls, st \in Streams : InsertStream(l, st)
  \/ EraseStream(Lvls, Streams)
  \/ \E l \in Lvls : EraseStream({l}, Streams)
  \/ \E l \in Lvls, st \in Streams : EraseStream({l}, {st})
  \/ \E st \in Streams : EraseStream(Lvls, {st})
  \/ \E c \in Codes, m \in Msgs : InsertMessage(c, m)
  \/ EraseMessage(Codes, Msgs)
  \/ \E c \in Codes : EraseMessage({c}, Msgs)
  \/ \E c \in Codes, m \in Msgs : EraseMessage({c}, {m})
  \/ \E k \in LimitKeys, v \in LimitVals : SetLimit(k, v)
  \/ \E b \in BOOLEAN : SetSuppress(b) \/ SetStats(b)
  \/ \E l \in LevelVals : SetOutputLevel(l)
  \/ \E l \in Lvls, S \in SUBSET Srcs : S # {} /\ SetSourceLevel(l, S)
  \/ Finalize
  \/ Initialize
  \/ Reinitialize

Spec == Init /\ [][Next]_vars

-----------------------------------------------------------------------------
TypeOK ==
  /\ msgCount \in [Lvls -> IntRange]
  /\ sourceMap \in [Srcs -> [Lvls -> IntRange]]
  /\ msgLimit \in [LimitKeys -> LimitVals]
  /\ suppress \in BOOLEAN /\ stats \in BOOLEAN
  /\ thresholdMap \in [Srcs -> Lvls \cup {NoLevel}]
  /\ streamMap \in [Lvls \X Streams -> 0 .. MaxDup]
  /\ messageMap \in [Codes \X Msgs -> 0 .. MaxDup]
  /\ loggedStreams \in [Srcs -> Files \cup {NoFile}]
  /\ calls \in 0 .. MaxCalls
  /\ lost \subseteq Srcs \X Lvls

\* ALWAYS messages are never suppressed or filtered: every one reported is
\* written (setupLimits puts alwaysLimit back to 0 and defaultLimit skips
\* ALWAYS; ALWAYS is the highest level).
AlwaysShown == \A s \in Srcs : <<s, ALWAYS>> \notin lost

\* reportMessage issues the "message limit reached ... Suppressing further
\* output" warning at most once per source, level and limit value.
AnnounceOnce == \A x \in DOMAIN announced : announced[x] <= 1

\* tee: "before creating a new ofstream, make sure there is no already
\* existing one with the same file name": setupLogStreams never opens two
\* ofstreams on one file.
NoDoubleOpen == \A f \in Files : opened[f] <= 1

\* tee: every source of loggedStreams that has a log stream writes to the
\* file its entry names.
TeeTarget == \A s \in Srcs : loggedStreams[s] \in {NoFile, LoggedStreamsName[s]}
=============================================================================
