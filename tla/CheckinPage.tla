----------------------------- MODULE CheckinPage -----------------------------
(***************************************************************************)
(* The check-in page of the admin interface: adminCheckins serves one page *)
(* of the store's records, and the page's script (admin.html, loadCheckins) *)
(* lets a reader go from page to page while check-ins add records and the  *)
(* server is restarted.                                                    *)
(***************************************************************************)
EXTENDS CheckinRecords

CONSTANTS
    Statuses,   \* of the records
    PageSizes,  \* the page sizes a reader may choose
    MaxAdds     \* bound: records added

ASSUME PageAssumption ==
    /\ Record = [n : 1 .. MaxAdds, status : Statuses]
    /\ PageSizes \subseteq Nat \ {0}
    /\ MaxAdds \in Nat

VARIABLES
    added,   \* records added so far: a record's number is its time
    log,     \* history: all of them, but those a restart could not bring back
    reader   \* the page in the browser

vars == <<storeVars, added, log, reader>>

\* exclude and size are what the reader chose, page and total what is shown;
\* base is what there was to read at first, seen what has been shown.
Closed == [open |-> FALSE, exclude |-> {}, size |-> 0, page |-> 0, total |-> 0,
           base |-> {}, seen |-> {}, cut |-> FALSE]

Members(s) == {s[i] : i \in DOMAIN s}

\* Math.ceil(total / size)
TotalPages(total, size) == (total + size - 1) \div size

\* adminCheckins
Response(page, size, exclude) ==
    [records |-> Page(page, size, exclude), total |-> Total(exclude)]

\* loadCheckins: the rows of the page asked for, and the new total.
Loaded(r, page) ==
    LET d == Response(page, r.size, r.exclude)
    IN  [r EXCEPT !.page = page, !.total = d.total,
                  !.seen = r.seen \cup Members(d.records)]

\* Opening the page, changing the size or the filter starts at page 1.
Open ==
    /\ \E size \in PageSizes, exclude \in {{}, {AlreadyClaimed}} :
          reader' = Loaded([Closed EXCEPT
              !.open = TRUE, !.exclude = exclude, !.size = size,
              !.base = Members(filterRecordsLocked(records, exclude))], 1)
    /\ UNCHANGED <<storeVars, added, log>>

\* The button is off on the last page of those there were at the last load.
LastPage == reader.page >= TotalPages(reader.total, reader.size)

NextPage ==
    /\ reader.open /\ ~LastPage
    /\ reader' = Loaded(reader, reader.page + 1)
    /\ UNCHANGED <<storeVars, added, log>>

\* Scheduler.checkinOne
AddRecord ==
    /\ added < MaxAdds
    /\ added' = added + 1
    /\ \E status \in Statuses :
          LET r == [n |-> added + 1, status |-> status]
          IN  Add(r) /\ log' = Append(log, r)
    /\ UNCHANGED reader

\* A restart brings back what the last save that worked has written.
Restart ==
    /\ Load
    /\ log' = IF durable THEN log ELSE file
    /\ reader' = [reader EXCEPT !.cut = reader.cut \/ ~durable]
    /\ UNCHANGED added

Init ==
    /\ StoreInit
    /\ added = 0
    /\ log = <<>>
    /\ reader = Closed

Next == AddRecord \/ Restart \/ Open \/ NextPage

Spec == Init /\ [][Next]_vars

-----------------------------------------------------------------------------
(* Properties *)

\* The store and its file hold at most MaxRecords records.
TypeOK ==
    /\ StoreTypeOK
    /\ added \in 0 .. MaxAdds
    /\ log \in Seq(Record)

\* The store holds the newest MaxRecords check-ins there were, across
\* restarts: a save that fails is made up for by the next one that works.
NewestKept ==
    /\ Len(records) = IF Len(log) < MaxRecords THEN Len(log) ELSE MaxRecords
    /\ \A i \in 1 .. Len(records) :
          records[i] = log[Len(log) - Len(records) + i]

\* Whatever the page size and the filter, the pages one after the other are
\* the records that pass the filter, newest first, each once, and there is
\* nothing on the page after the last.
PagesPartition ==
    \A size \in PageSizes, exclude \in {{}, {AlreadyClaimed}} :
        LET kept == filterRecordsLocked(records, exclude)
            pages == TotalPages(Total(exclude), size)
        IN  /\ Page(pages + 1, size, exclude) = <<>>
            /\ \A i \in 1 .. Len(kept) :
                  \E page \in 1 .. pages :
                      LET at == i - (page - 1) * size
                      IN  /\ at \in DOMAIN Page(page, size, exclude)
                          /\ Page(page, size, exclude)[at]
                                = kept[Len(kept) + 1 - i]
            /\ \A page \in 1 .. pages :
                  Len(Page(page, size, exclude)) =
                      IF page < pages THEN size
                      ELSE Len(kept) - (pages - 1) * size

\* A reader who goes through all the pages has seen every record that was
\* there from the first page to the last, although check-ins move the pages
\* on meanwhile and the server is restarted.
WalkMissesNothing ==
    reader.open /\ LastPage /\ ~reader.cut =>
        reader.base \cap Members(records) \subseteq reader.seen
=============================================================================
