----------------------------- MODULE NTupleSvc -----------------------------
(***************************************************************************)
(* NTupleSvc (GaudiSvc/src/NTupleSvc/NTupleSvc.cpp): the n-tuple data      *)
(* service.  Every "LUN OPT=..." entry of its Output and Input properties, *)
(* and every later connect(), creates its own ConversionSvc, registers a   *)
(* file entry /NTUPLES/<lun> in the store and records the pair in          *)
(* m_connections.  Tuples booked below a file cache the conversion service *)
(* in writeRecord/readRecord; finalize saves the tuples of the connected   *)
(* files, clears the store and releases every connection.                  *)
(*                                                                         *)
(* The data store (DataSvc) is not part of this repository; of it the      *)
(* model keeps which file entries are registered and which tuples are      *)
(* booked.  A conversion service is an index 1..MaxSvcs; svc[i] says       *)
(* whether NTupleSvc still holds the reference createService took.         *)
(***************************************************************************)
EXTENDS Naturals, Sequences, SequencesExt

CONSTANTS
    LogNames,          \* the logical file names (LUNs) of the job options
    Tuples,            \* the n-tuples a client may book
    TupleFile,         \* TupleFile[t]: the file the path of tuple t lies under
    OptLetters,        \* first letters of OPT='...' given to connect
    PersistencyValues, \* possible values of ApplicationMgr.HistogramPersistency
    Output, Input,     \* the Output and Input properties: sequences of [log, opt]
    MaxSvcs            \* bound on the ConversionSvc instances ever created

VARIABLES
    phase,           \* "offline", "ready" (after initialize), "finalized"
    histPersistency, \* the ApplicationMgr property createService reads
    conns,           \* m_connections: LUN -> service index, NoSvc if absent
    entries,         \* file entry of each LUN in the store: its typ, or "none"
    svc,             \* svc[i]: "none" (not created), "live", "released"
    nSvc,            \* number of conversion services created so far
    booked,          \* tuples registered in the store
    cnv,             \* cnv[t]: TupleImp::m_pConversionSvc, NoSvc if null
    sent             \* history: services that createRep/updateRep got t from

vars == <<phase, histPersistency, conns, entries, svc, nSvc, booked, cnv, sent>>

NoSvc == 0
SvcIds == 1 .. MaxSvcs
ConnSpecs == [log : LogNames, opt : OptLetters]

\* Outcome of the two calls createService makes on the new service.
CreateOutcomes == {"ok", "initFail", "providerFail"}

\* The switch on the first letter of OPT= in connect.
OptTyp(c) ==
    CASE c \in {"C", "N", "W"} -> "N"
      [] c = "U"               -> "U"
      [] c \in {"O", "R"}      -> "O"
      [] OTHER                 -> "none"

\* The part of the state connect changes, as one record.
Cur == [conns |-> conns, entries |-> entries, svc |-> svc, n |-> nSvc]

\* createService: fails before creating anything unless the persistency is
\* HBOOK or ROOT; otherwise a new ConversionSvc is created and addRef'd, and
\* sysInitialize or setDataProvider may fail after that.
CreateService(s, oc) ==
    IF histPersistency \notin {"HBOOK", "ROOT"}
    THEN [st |-> s, ok |-> FALSE, id |-> NoSvc]
    ELSE [st |-> [s EXCEPT !.n = @ + 1, !.svc[s.n + 1] = "live"],
          ok |-> oc = "ok", id |-> s.n + 1]

\* Mutant: registerAddress replaces an existing entry.
AttachTupleReplace(s, l, typ) == [st |-> [s EXCEPT !.entries[l] = typ], ok |-> TRUE]

\* attachTuple: registerAddress of /NTUPLES/<lun> fails if the entry exists.
AttachTuple(s, l, typ) ==
    IF s.entries[l] = "none"
    THEN [st |-> [s EXCEPT !.entries[l] = typ], ok |-> TRUE]
    ELSE [st |-> s, ok |-> FALSE]

\* Mutant: the file entry is registered with the raw OPT letter.
DoConnectRawOpt(s, c, oc) ==
    LET cr == CreateService(s, oc)
        at == AttachTuple(cr.st, c.log, c.opt)
    IN  IF OptTyp(c.opt) = "none" \/ ~cr.ok \/ ~at.ok THEN at.st
        ELSE [at.st EXCEPT !.conns[c.log] = IF @ = NoSvc THEN cr.id ELSE @]

\* connect(ident, logname) with the root present: the service created is
\* only recorded when attachTuple succeeds; std::map::insert keeps an
\* existing entry.
DoConnect(s, c, oc) ==
    LET typ == OptTyp(c.opt)
        cr  == CreateService(s, oc)
        at  == AttachTuple(cr.st, c.log, typ)
    IN  IF typ = "none" THEN s
        ELSE IF ~cr.ok THEN cr.st
        ELSE IF ~at.ok THEN at.st
        ELSE [at.st EXCEPT !.conns[c.log] = IF @ = NoSvc THEN cr.id ELSE @]

SetConnState(s) ==
    /\ conns' = s.conns
    /\ entries' = s.entries
    /\ svc' = s.svc
    /\ nSvc' = s.n

Init ==
    /\ phase = "offline"
    /\ histPersistency \in PersistencyValues
    /\ conns = [l \in LogNames |-> NoSvc]
    /\ entries = [l \in LogNames |-> "none"]
    /\ svc = [i \in SvcIds |-> "none"]
    /\ nSvc = 0
    /\ booked = {}
    /\ cnv = [t \in Tuples |-> NoSvc]
    /\ sent = [t \in Tuples |-> {}]

\* initialize: set the root, then connect every Output and then every Input
\* entry; a failed connect sets the returned status but the loop goes on.
Initialize ==
    LET specs == Output \o Input
    IN  /\ phase = "offline"
        /\ nSvc + Len(specs) <= MaxSvcs
        /\ \E oc \in [1 .. Len(specs) -> CreateOutcomes] :
              SetConnState(FoldLeft(LAMBDA s, p : DoConnect(s, p[1], p[2]),
                                    Cur, Zip(specs, oc)))
        /\ phase' = "ready"
        /\ UNCHANGED <<histPersistency, booked, cnv, sent>>

\* connect called by a client; findObject(m_rootName) must succeed.
Connect(c) ==
    /\ phase = "ready"
    /\ nSvc < MaxSvcs
    /\ \E oc \in CreateOutcomes : SetConnState(DoConnect(Cur, c, oc))
    /\ UNCHANGED <<phase, histPersistency, booked, cnv, sent>>

\* Mutant: disconnect releases the service but keeps the map entry.
DisconnectKeep(l) ==
    /\ conns[l] # NoSvc
    /\ svc' = [svc EXCEPT ![conns[l]] = "released"]
    /\ UNCHANGED <<phase, histPersistency, conns, entries, nSvc, booked, cnv, sent>>

\* releaseConnection: finalize and release the service.
ReleaseConnection(sv, i) == [sv EXCEPT ![i] = "released"]

\* disconnect(nam): FAILURE, and no change, if nam is not connected.
Disconnect(l) ==
    /\ conns[l] # NoSvc
    /\ svc' = ReleaseConnection(svc, conns[l])
    /\ conns' = [conns EXCEPT ![l] = NoSvc]
    /\ UNCHANGED <<phase, histPersistency, entries, nSvc, booked, cnv, sent>>

\* disconnectAll: release every connection, then clear m_connections.
ReleaseAll(sv, cs) ==
    [i \in SvcIds |-> IF \E l \in LogNames : cs[l] = i THEN "released" ELSE sv[i]]

DisconnectAll ==
    /\ svc' = ReleaseAll(svc, conns)
    /\ conns' = [l \in LogNames |-> NoSvc]
    /\ UNCHANGED <<phase, histPersistency, entries, nSvc, booked, cnv, sent>>

\* getDataLoader: the connection named by the /NTUPLES/<lun> prefix.
GetDataLoader(t) == conns[TupleFile[t]]

\* createDirectory of the tuple's directory under its file: a new directory
\* is only kept when getDataLoader finds a service to createRep it.
CreateDirectory(t) == GetDataLoader(t) # NoSvc

\* book(fullPath): fails if the tuple exists or its directory cannot be made.
Book(t) ==
    /\ phase = "ready"
    /\ t \notin booked
    /\ CreateDirectory(t)
    /\ booked' = booked \cup {t}
    /\ UNCHANGED <<phase, histPersistency, conns, entries, svc, nSvc, cnv, sent>>

\* writeRecord/readRecord: a tuple without a conversion service takes, and
\* keeps, the one getDataLoader returns; it is never looked up again.
Loader(t) == IF cnv[t] = NoSvc THEN GetDataLoader(t) ELSE cnv[t]

CacheLoader(t) ==
    cnv' = IF cnv[t] = NoSvc THEN [cnv EXCEPT ![t] = GetDataLoader(t)] ELSE cnv

\* createRep/updateRep of tuple t on service i; NO_DATA_LOADER if i is null.
SendTo(t, i) == sent' = IF i = NoSvc THEN sent ELSE [sent EXCEPT ![t] = @ \cup {i}]

\* writeRecord (every overload: the path ones fail unless the tuple exists).
WriteRecord(t) ==
    /\ t \in booked
    /\ CacheLoader(t)
    /\ SendTo(t, Loader(t))
    /\ UNCHANGED <<phase, histPersistency, conns, entries, svc, nSvc, booked>>

ReadRecord(t) ==
    /\ t \in booked
    /\ CacheLoader(t)
    /\ UNCHANGED <<phase, histPersistency, conns, entries, svc, nSvc, booked, sent>>

\* save: updateRep through the cached service only; no lookup.
Save(t) ==
    /\ t \in booked
    /\ SendTo(t, cnv[t])
    /\ UNCHANGED <<phase, histPersistency, conns, entries, svc, nSvc, booked, cnv>>

\* updateDirectories: below every file entry of type 'R', 'N' or 'U' (attach
\* stores 'O' for READ, so input files are skipped) whose getDataLoader finds
\* a service, updateRep of every object through that service.
UpdateDirectories ==
    [t \in Tuples |->
        LET l == TupleFile[t] IN
        IF t \in booked /\ entries[l] \in {"R", "N", "U"} /\ conns[l] # NoSvc
        THEN sent[t] \cup {conns[l]} ELSE sent[t]]

\* finalize: updateDirectories (the updateRep calls write data out and change
\* no state the model keeps), clearStore, DataSvc::finalize, disconnectAll.
Finalize ==
    /\ phase = "ready"
    /\ sent' = UpdateDirectories
    /\ entries' = [l \in LogNames |-> "none"]
    /\ booked' = {}
    /\ cnv' = [t \in Tuples |-> NoSvc]
    /\ svc' = ReleaseAll(svc, conns)
    /\ conns' = [l \in LogNames |-> NoSvc]
    /\ phase' = "finalized"
    /\ UNCHANGED <<histPersistency, nSvc>>

Next ==
    \/ Initialize
    \/ \E c \in ConnSpecs : Connect(c)
    \/ \E l \in LogNames : Disconnect(l)
    \/ DisconnectAll
    \/ \E t \in Tuples : Book(t) \/ WriteRecord(t) \/ ReadRecord(t) \/ Save(t)
    \/ Finalize

Spec == Init /\ [][Next]_vars

-----------------------------------------------------------------------------
TypeOK ==
    /\ phase \in {"offline", "ready", "finalized"}
    /\ conns \in [LogNames -> {NoSvc} \cup SvcIds]
    /\ entries \in [LogNames -> {"none", "N", "U", "O"}]
    /\ svc \in [SvcIds -> {"none", "live", "released"}]
    /\ nSvc \in 0 .. MaxSvcs
    /\ booked \subseteq Tuples
    /\ cnv \in [Tuples -> {NoSvc} \cup SvcIds]
    /\ sent \in [Tuples -> SUBSET SvcIds]

\* connect, disconnect and disconnectAll keep m_connections to live
\* services of their own, each behind a registered file entry: no service
\* is named by two connections, and none that was released is still in it.
ConnectionsHeld ==
    \A l \in LogNames : conns[l] # NoSvc =>
        /\ svc[conns[l]] = "live"
        /\ entries[l] # "none"
        /\ \A m \in LogNames \ {l} : conns[m] # conns[l]

\* Everything a tuple writes (writeRecord's createRep, save's updateRep and
\* the updateRep of finalize's updateDirectories) goes to one conversion
\* service: the service writeRecord cached and the connection
\* updateDirectories looks up at finalize never differ, whatever is
\* disconnected and connected in between.
TupleDataOneService == \A t \in Tuples : Cardinality(sent[t]) <= 1

=============================================================================
