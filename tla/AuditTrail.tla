------------------------------ MODULE AuditTrail ------------------------------
(* The administrative audit log of one organization, a client that walks it
   page by page, and the organization export.

   A row carries the time its transaction began and an id taken when it was
   flushed, and is visible from the commit on: rows appear in neither order.
   Every page is a request, and every statement of the export has a snapshot
   of its own.  A trigger refuses to change or delete an audit row.  Other
   tables are sets of ids, which are committed in any order and used once, and
   lose rows as well.  The filters of a listing (action, resource type) choose
   the rows a walk is about and are left out. *)
EXTENDS Integers, FiniteSets, Sequences

CONSTANTS
    AuditWriter,     \* transactions that can write at the same time
    NoCursor,
    page_limit,      \* limit of a page of the walk
    export_limit,    \* limit of the export
    list_cap,        \* the most rows list_audit returns
    Listed,          \* tables the export lists, in the code's order
    Tallied,         \* tables it counts, in the code's order
    MaxAuditTime,    \* bound: the clock
    MaxAuditRows,    \* bound: audit rows
    MaxTableId       \* bound: ids of a table

ASSUME AuditAssumption ==
    /\ page_limit \in 1 .. list_cap /\ export_limit \in 1 .. list_cap
    /\ list_cap \in Nat /\ MaxAuditTime \in Nat /\ MaxAuditRows \in Nat
    /\ MaxTableId \in Nat
    /\ Listed \in Seq({Listed[i] : i \in DOMAIN Listed}) /\ Listed # <<>>
    /\ Tallied \in Seq({Tallied[i] : i \in DOMAIN Tallied}) /\ Tallied # <<>>

VARIABLES
    audit_log,     \* committed rows
    audit_id,      \* the last id taken
    audit_writer,  \* transactions in progress
    audit_clock,
    walk,          \* the client's walk
    tables,        \* the other tables
    export         \* the export in progress
audit_vars == <<audit_log, audit_id, audit_writer, audit_clock, walk, tables, export>>
log_vars == <<audit_log, audit_id, audit_writer, audit_clock>>

Table == {Listed[i] : i \in DOMAIN Listed} \cup {Tallied[i] : i \in DOMAIN Tallied}
NoWriter == [at |-> "idle", row |-> [created_at |-> 0, id |-> 0]]
NoWalk == [at |-> "idle", with_id |-> FALSE, cursor |-> NoCursor,
           seen |-> {}, old |-> {}]
NoExport == [at |-> "idle", step |-> 0, rows |-> [t \in Table |-> {}], audit |-> {},
             truncated |-> FALSE, kept |-> [t \in Table |-> {}], old |-> {}]

AuditInit ==
    /\ audit_log = {} /\ audit_id = 0 /\ audit_clock = 0
    /\ audit_writer = [w \in AuditWriter |-> NoWriter]
    /\ walk = NoWalk /\ export = NoExport
    /\ tables = [t \in Table |-> [ids |-> {}, used |-> {}]]
-----------------------------------------------------------------------------
(* Writers *)

\* A transaction begins; database_now is its time.
BeginAudited(w) ==
    /\ audit_writer[w].at = "idle"
    /\ audit_writer' = [audit_writer EXCEPT ![w] =
          [at |-> "begun", row |-> [created_at |-> audit_clock, id |-> 0]]]
    /\ UNCHANGED <<audit_log, audit_id, audit_clock, walk, tables, export>>

\* append_audit: the row is flushed and takes its id.
append_audit(w) ==
    /\ audit_writer[w].at = "begun" /\ audit_id < MaxAuditRows
    /\ audit_id' = audit_id + 1
    /\ audit_writer' = [audit_writer EXCEPT ![w] =
          [at |-> "flushed", row |-> [@.row EXCEPT !.id = audit_id + 1]]]
    /\ UNCHANGED <<audit_log, audit_clock, walk, tables, export>>

EndAudited(w) ==
    /\ audit_writer' = [audit_writer EXCEPT ![w] = NoWriter]
    /\ UNCHANGED <<audit_id, audit_clock, walk, tables, export>>

CommitAudited(w) ==
    /\ audit_writer[w].at = "flushed"
    /\ audit_log' = audit_log \cup {audit_writer[w].row}
    /\ EndAudited(w)

RollBackAudited(w) ==
    /\ audit_writer[w].at # "idle"
    /\ EndAudited(w)
    /\ UNCHANGED audit_log

AuditTick ==
    /\ audit_clock < MaxAuditTime
    /\ audit_clock' = audit_clock + 1
    /\ UNCHANGED <<audit_log, audit_id, audit_writer, walk, tables, export>>
-----------------------------------------------------------------------------
(* The walk *)

\* s comes before r in a listing: newer, or as new with the larger id.
Before(s, r) ==
    s.created_at > r.created_at \/ (s.created_at = r.created_at /\ s.id > r.id)

\* The first n of the rows, newest first.
Newest(rows, n) == {r \in rows : Cardinality({s \in rows : Before(s, r)}) < n}

\* The rows of the log after a cursor.  The id is 0 in a cursor without one.
\* Variant: a cursor that looks at the time only.
AfterTime(cursor) == {r \in audit_log : cursor = NoCursor \/ r.created_at < cursor.created_at}
After(cursor) == {r \in audit_log : cursor = NoCursor \/ Before(cursor, r)}

list_audit(limit, cursor) == Newest(After(cursor), limit)

\* A walk begins.  A client may send the time of the last row with its id or
\* without it.
StartWalk ==
    /\ walk.at = "idle"
    /\ \E with_id \in BOOLEAN :
          walk' = [NoWalk EXCEPT !.at = "walking", !.with_id = with_id, !.old = audit_log]
    /\ UNCHANGED <<log_vars, tables, export>>

\* A page is read.  A short one is the last.
NextPage ==
    /\ walk.at = "walking"
    /\ LET page == list_audit(page_limit, walk.cursor)
           last == CHOOSE r \in page : \A s \in page : ~Before(r, s)
           full == Cardinality(page) = page_limit
       IN  walk' = [walk EXCEPT
              !.at = IF full THEN "walking" ELSE "done",
              !.cursor = IF full THEN [last EXCEPT !.id = IF walk.with_id THEN @ ELSE 0] ELSE NoCursor,
              !.seen = @ \cup page]
    /\ UNCHANGED <<log_vars, tables, export>>
-----------------------------------------------------------------------------
(* The export *)

\* Another request inserts a row with a new id, or deletes one.
InsertTableRow(t) ==
    /\ \E id \in (1 .. MaxTableId) \ tables[t].used :
          tables' = [tables EXCEPT ![t].ids = @ \cup {id}, ![t].used = @ \cup {id}]
    /\ UNCHANGED <<log_vars, walk, export>>

DeleteTableRow(t) ==
    /\ \E id \in tables[t].ids :
          /\ tables' = [tables EXCEPT ![t].ids = @ \ {id}]
          /\ export' = [export EXCEPT !.kept[t] = @ \ {id}]
    /\ UNCHANGED <<log_vars, walk>>

\* export_organization is authorized; kept and old are what exists now.
StartExport ==
    /\ export.at = "idle"
    /\ export' = [NoExport EXCEPT !.at = "list", !.step = 1, !.old = audit_log,
                                   !.kept = [t \in Table |-> tables[t].ids]]
    /\ UNCHANGED <<log_vars, walk, tables>>

\* The first n ids of a table.
Lowest(ids, n) == {i \in ids : Cardinality({j \in ids : j < i}) < n}

\* How many rows a statement asks for: one more than the export returns.
\* Variant: no more than it returns.
AskedWithoutSpare(cap) == IF export_limit < cap THEN export_limit ELSE cap
AskedWithSpare(cap) == IF export_limit + 1 < cap THEN export_limit + 1 ELSE cap

Overflows(rows) == Cardinality(rows) > export_limit

\* The next listed table is read; the last is followed by the audit log.
ListTable ==
    /\ export.at = "list"
    /\ LET t == Listed[export.step]
           rows == Lowest(tables[t].ids, export_limit + 1)
           last == export.step = Len(Listed)
       IN  export' = [export EXCEPT !.rows[t] = Lowest(rows, export_limit),
                                    !.truncated = @ \/ Overflows(rows),
                                    !.at = IF last THEN "audit" ELSE "list",
                                    !.step = IF last THEN 1 ELSE @ + 1]
    /\ UNCHANGED <<log_vars, walk, tables>>

\* The audit log is listed, no further than list_audit goes.
ListAudit ==
    /\ export.at = "audit"
    /\ LET rows == list_audit(AskedWithSpare(list_cap), NoCursor)
       IN  export' = [export EXCEPT !.audit = Newest(rows, export_limit),
                                    !.truncated = @ \/ Overflows(rows), !.at = "count"]
    /\ UNCHANGED <<log_vars, walk, tables>>

\* The next table is counted, up to one more than the limit; the last count
\* completes the answer.
bounded_count ==
    /\ export.at = "count"
    /\ LET last == export.step = Len(Tallied)
       IN  export' = [export EXCEPT
              !.truncated = @ \/ Overflows(Lowest(tables[Tallied[export.step]].ids, export_limit + 1)),
              !.at = IF last THEN "done" ELSE "count",
              !.step = IF last THEN 0 ELSE @ + 1]
    /\ UNCHANGED <<log_vars, walk, tables>>
-----------------------------------------------------------------------------
WriterNext ==
    \/ AuditTick
    \/ \E w \in AuditWriter :
          BeginAudited(w) \/ append_audit(w) \/ CommitAudited(w) \/ RollBackAudited(w)
WalkNext == WriterNext \/ StartWalk \/ NextPage
ExportNext ==
    \/ WriterNext \/ StartExport \/ ListTable \/ ListAudit \/ bounded_count
    \/ \E t \in Table : InsertTableRow(t) \/ DeleteTableRow(t)

AuditSpec == AuditInit /\ [][WalkNext \/ ExportNext]_audit_vars

\* A walk whose cursors carry the id returns every row that was committed
\* when it began.  Rows of one time may be split between two pages, and rows
\* committed later may have an earlier time than the cursor.
WalkComplete == walk.at = "done" /\ walk.with_id => walk.old \subseteq walk.seen

\* An export that does not say it is truncated holds every row that existed
\* from its first statement to its last, although rows come and go between
\* the statements: given that list_audit can return one row more than the
\* export does.
ExportComplete ==
    export.at = "done" /\ ~export.truncated /\ export_limit < list_cap =>
        /\ \A i \in DOMAIN Listed : export.kept[Listed[i]] \subseteq export.rows[Listed[i]]
        /\ export.old \subseteq export.audit
=============================================================================
