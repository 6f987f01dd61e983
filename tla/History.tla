------------------------------- MODULE History -------------------------------
(***************************************************************************)
(* Reading the rotation history page by page while rotations add to it:    *)
(* GetRotations and GetRotationCount (internal/store/queries.go), the      *)
(* history handlers of the API (internal/api/handlers_rotation.go) and the *)
(* dashboard's table with its button (internal/web/handler.go,             *)
(* templates/ip_history.templ).                                            *)
(*                                                                         *)
(* Every query is one step; the API makes two for an answer.               *)
(***************************************************************************)
EXTENDS Integers, FiniteSets, Sequences

CONSTANTS
    Modem,
    None,
    Reader,   \* clients of the API that read the whole history
    Limit,    \* the limits they ask for
    MaxLimit, \* the largest page of the API (200)
    PageSize, \* the page of the dashboard (20)
    MaxRows,  \* a bound on the rows
    MaxTime   \* a bound on the clock

ASSUME HistoryAssumption ==
    /\ None \notin Modem
    /\ Limit \subseteq Int \ {0}
    /\ MaxLimit \in Nat \ {0} /\ PageSize \in Nat \ {0}
    /\ MaxRows \in Nat /\ MaxTime \in Nat

VARIABLES
    now,     \* CURRENT_TIMESTAMP
    rows,    \* ip_rotations, by id
    \* one client of the API
    pc,      \* control point
    modem,   \* whose history, None for all
    limit,   \* after handleHistory's correction
    offset,  \* of the next page
    page,    \* the rows of the last one
    seen,    \* all rows it was given
    atBegin, \* observer: the rows that were there when it began
    \* the dashboard's table
    shown,   \* the rows in it
    button,  \* the offset in the button's link, None without a button
    opened   \* observer: the rows that were there when it was opened

readerVars == <<pc, modem, limit, offset, page, seen, atBegin>>
dashboardVars == <<shown, button, opened>>
vars == <<now, rows, readerVars, dashboardVars>>

TypeOK ==
    /\ now \in 0..MaxTime
    /\ rows \in Seq([modem : Modem, rotatedAt : 0..MaxTime])
    /\ pc \in [Reader -> {"idle", "rows", "count", "done"}]
    /\ modem \in [Reader -> Modem \cup {None}]
    /\ limit \in [Reader -> Int] /\ offset \in [Reader -> Nat]
    /\ page \in [Reader -> SUBSET DOMAIN rows]
    /\ seen \in [Reader -> SUBSET DOMAIN rows]
    /\ atBegin \in [Reader -> SUBSET DOMAIN rows]
    /\ \A r \in Reader : limit[r] <= MaxLimit /\ Cardinality(seen[r]) <= offset[r]
    /\ shown \cup opened \subseteq DOMAIN rows
    /\ button \in Nat \cup {None}

Init ==
    /\ now = 0
    /\ rows = <<>>
    /\ pc = [r \in Reader |-> "idle"]
    /\ modem = [r \in Reader |-> None]
    /\ limit = [r \in Reader |-> 1]
    /\ offset = [r \in Reader |-> 0]
    /\ page = [r \in Reader |-> {}]
    /\ seen = [r \in Reader |-> {}]
    /\ atBegin = [r \in Reader |-> {}]
    /\ shown = {} /\ button = None /\ opened = {}

-----------------------------------------------------------------------------
(***************************************************************************)
(* The queries.                                                            *)
(***************************************************************************)
\* WHERE modem_id = ?
Matching(m) == {k \in DOMAIN rows : m \in {None, rows[k].modem}}

\* ORDER BY rotated_at DESC, to the second.  Rows of one second come in the order
\* of their ids, backwards where SQLite reads the index on (modem_id, rotated_at).
Before(m, j, k) ==
    \/ rows[j].rotatedAt > rows[k].rotatedAt
    \/ rows[j].rotatedAt = rows[k].rotatedAt /\ IF m = None THEN j < k ELSE j > k

Place(m, k) == Cardinality({j \in Matching(m) : Before(m, j, k)})

\* Mutant of GetRotations: a page begins with the last row of the one before.
GetRotationsOverlapping(m, lim, off) ==
    {k \in Matching(m) :
        /\ Place(m, k) >= off - 1
        /\ lim < 0 \/ Place(m, k) < off + lim}

\* LIMIT ? OFFSET ?, where a negative limit is none.
GetRotations(m, lim, off) ==
    {k \in Matching(m) :
        Place(m, k) >= off /\ (lim < 0 \/ Place(m, k) < off + lim)}

GetRotationCount(m) == Cardinality(Matching(m))

-----------------------------------------------------------------------------
(***************************************************************************)
(* A rotation ends.                                                        *)
(***************************************************************************)
InsertRotation(m) ==
    /\ Len(rows) < MaxRows
    /\ rows' = Append(rows, [modem |-> m, rotatedAt |-> now])
    /\ UNCHANGED <<now, readerVars, dashboardVars>>

Tick ==
    /\ now < MaxTime
    /\ now' = now + 1
    /\ UNCHANGED <<rows, readerVars, dashboardVars>>

(***************************************************************************)
(* handleHistory and handleAllHistory: the limit is capped, the rows and   *)
(* then their number are queried.  The client goes on behind the rows it   *)
(* was given while there are more.                                         *)
(***************************************************************************)
\* Mutant of Begin: no largest page.
BeginUncapped(r, m, l) ==
    /\ pc[r] = "idle" /\ pc' = [pc EXCEPT ![r] = "rows"]
    /\ modem' = [modem EXCEPT ![r] = m]
    /\ limit' = [limit EXCEPT ![r] = l]
    /\ atBegin' = [atBegin EXCEPT ![r] = Matching(m)]
    /\ UNCHANGED <<now, rows, offset, page, seen, dashboardVars>>

Begin(r, m, l) ==
    /\ pc[r] = "idle" /\ pc' = [pc EXCEPT ![r] = "rows"]
    /\ modem' = [modem EXCEPT ![r] = m]
    /\ limit' = [limit EXCEPT ![r] = IF l > MaxLimit THEN MaxLimit ELSE l]
    /\ atBegin' = [atBegin EXCEPT ![r] = Matching(m)]
    /\ UNCHANGED <<now, rows, offset, page, seen, dashboardVars>>

\* Mutant of HandleHistory: the offset counts from one.
HandleHistoryFromOne(r) ==
    /\ pc[r] = "rows" /\ pc' = [pc EXCEPT ![r] = "count"]
    /\ page' = [page EXCEPT ![r] = GetRotations(modem[r], limit[r], offset[r] + 1)]
    /\ UNCHANGED <<now, rows, modem, limit, offset, seen, atBegin, dashboardVars>>

HandleHistory(r) ==
    /\ pc[r] = "rows" /\ pc' = [pc EXCEPT ![r] = "count"]
    /\ page' = [page EXCEPT ![r] = GetRotations(modem[r], limit[r], offset[r])]
    /\ UNCHANGED <<now, rows, modem, limit, offset, seen, atBegin, dashboardVars>>

Answer(r) ==
    LET next == offset[r] + Cardinality(page[r]) IN
    /\ pc[r] = "count"
    /\ pc' = [pc EXCEPT ![r] = IF next < GetRotationCount(modem[r]) THEN "rows" ELSE "done"]
    /\ offset' = [offset EXCEPT ![r] = next]
    /\ seen' = [seen EXCEPT ![r] = @ \cup page[r]]
    /\ UNCHANGED <<now, rows, modem, limit, page, atBegin, dashboardVars>>

(***************************************************************************)
(* The dashboard shows the first page and, behind a full one, a button     *)
(* with the offset of the second.  The answer is put behind the rows; the  *)
(* button stays as it is.                                                  *)
(***************************************************************************)
getHistory(from) == GetRotations(None, PageSize, from)

LoadMore(first) == IF Cardinality(first) >= PageSize THEN Cardinality(first) ELSE None

Dashboard ==
    /\ shown' = getHistory(0)
    /\ button' = LoadMore(getHistory(0))
    /\ opened' = DOMAIN rows
    /\ UNCHANGED <<now, rows, readerVars>>

\* Mutant of HistoryRows: the answer replaces the rows.
HistoryRowsReplace ==
    /\ button # None
    /\ shown' = getHistory(button)
    /\ UNCHANGED <<now, rows, button, opened, readerVars>>

HistoryRows ==
    /\ button # None
    /\ shown' = shown \cup getHistory(button)
    /\ UNCHANGED <<now, rows, button, opened, readerVars>>

Next ==
    \/ Tick
    \/ \E m \in Modem : InsertRotation(m)
    \/ \E r \in Reader :
          \/ \E m \in Modem \cup {None}, l \in Limit : Begin(r, m, l)
          \/ HandleHistory(r)
          \/ Answer(r)
    \/ Dashboard
    \/ HistoryRows

Spec == Init /\ [][Next]_vars

-----------------------------------------------------------------------------
(***************************************************************************)
(* Safety                                                                  *)
(***************************************************************************)
\* A client of handleHistory that follows the offsets has at every moment all the
\* rows in front of its offset that were there when it began, and in the end every
\* row, although rotations push rows from page to page meanwhile and the number of
\* rows is queried after the rows.
NoRowIsSkipped ==
    \A r \in Reader : \A k \in atBegin[r] :
        pc[r] = "done" \/ Place(modem[r], k) < offset[r] => k \in seen[r]

\* It is given a row twice at most as often as a rotation of that history has
\* ended since it began: the pages do not overlap by themselves.
RepeatsComeFromInserts ==
    \A r \in Reader :
        pc[r] # "idle" =>
            offset[r] - Cardinality(seen[r])
                <= Cardinality(Matching(modem[r]) \ atBegin[r])

\* Whenever the button is used, and however many rotations have ended since the
\* dashboard was opened, its table has no gap: of the rows there at the opening
\* it leaves out only some that are older than all it shows.
DashboardHasNoGap ==
    \A k \in shown, j \in opened : Before(None, j, k) => j \in shown
=============================================================================
