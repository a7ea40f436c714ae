------------------------------ MODULE MCReport ------------------------------
(* Small instances of Report for TLC.  Amounts of money are in thousands. *)
EXTENDS Report

CONSTANT noReply

\* A week without any signal, next to itself.
Plain ==
  [c \in RequiredColumns |->
     CASE c \in {"ad_spend_google", "refunds", "new_clients_organic"} -> Num(1, 1)
       [] c \in {"gross_revenue", "leads_paid", "bookings_total"} -> Num(5, 1)
       [] c \in {"appointments_completed", "variable_cost", "returning_clients"} -> Num(2, 1)
       [] c \in {"new_clients_paid", "appointments_cancelled", "leads_organic"} -> Num(3, 1)
       [] OTHER -> Zero]

\* Less than anything in the sheets, more, and halves between.
Halves == {Num(n, 2) : n \in -4..16}

Two(prev, curr) == [columns |-> RequiredColumns, rows |-> [prev |-> prev, curr |-> curr]]

Money ==
  {[Plain EXCEPT !.gross_revenue = Num(g, 1), !.variable_cost = Num(v, 1),
                 !.ad_spend_google = Num(a, 1)] :
     g \in {0, 1, 4, 5, 8}, v \in {0, 2, 4}, a \in {0, 1, 6}}

Visits ==
  {[Plain EXCEPT !.bookings_total = Num(b, 1), !.appointments_completed = Num(c, 1),
                 !.appointments_cancelled = Num(x, 1)] :
     b \in {0, 3, 5, 6}, c \in {0, 2}, x \in {0, 3}}

Clients ==
  {[Plain EXCEPT !.leads_paid = Num(l, 1), !.new_clients_paid = Num(p, 1),
                 !.new_clients_organic = Num(o, 1)] :
     l \in {0, 4, 5}, p \in {0, 1, 3}, o \in {0, 1, 4}}

\* One cell of a changed week is empty, no number, or no integer.
Damaged ==
  {[row EXCEPT ![c] = cell] :
     row \in {Plain, [Plain EXCEPT !.gross_revenue = Num(2, 1), !.bookings_total = Num(2, 1)]},
     c \in RequiredColumns, cell \in {NaN, Text, Num(1, 2)}}

Sheets ==
       {Two(p, c) : p \in Money, c \in Money}
  \cup {Two(p, c) : p \in Visits, c \in Visits}
  \cup {Two(p, c) : p \in Clients, c \in Clients}
  \cup {Two(p, Plain) : p \in Damaged} \cup {Two(Plain, c) : c \in Damaged}

\* Sheets the run gives up on.
Unusable ==
  {[columns |-> RequiredColumns \ {"refunds"}, rows |-> [prev |-> Plain, curr |-> Plain]],
   [columns |-> RequiredColumns, rows |-> [curr |-> Plain]]}

\* No signal, a surge, a decline alone, a cluster of two and one of three.
Told ==
  {Two(Plain, Plain),
   Two(Plain, [Plain EXCEPT !.gross_revenue = Num(8, 1), !.bookings_total = Num(3, 1)]),
   Two([Plain EXCEPT !.variable_cost = Zero], [Plain EXCEPT !.variable_cost = Zero, !.gross_revenue = Num(4, 1)]),
   Two(Plain, [Plain EXCEPT !.variable_cost = Num(3, 1)]),
   Two(Plain, [Plain EXCEPT !.bookings_total = Num(3, 1), !.appointments_completed = Zero,
                            !.gross_revenue = Num(4, 1)])}

Runs ==
       {[sheet |-> s, mode |-> "off"] : s \in Sheets \cup Unusable}
  \cup {[sheet |-> s, mode |-> m] : s \in Told, m \in {"summary", "full"}}

-----------------------------------------------------------------------------
Texts(keys) == UNION {[ks -> {"blank", "text"}] : ks \in SUBSET keys}

\* Two spellings of one category, a label, and a category of no signal.
Spellings ==
  [operations |-> "operations", OPERATIONS |-> "operations", Revenue |-> "revenue",
   weather |-> "weather"]

Groups ==
  UNION {{g \in [1..n -> [key : DOMAIN Spellings, text : {"blank", "text"}]] :
            \A i, j \in 1..n : g[i].key = g[j].key => i = j} : n \in 0..3}

Plainly ==
  [form |-> "object", summary |-> "text", situation |-> "text", key_story |-> "text",
   signal_narratives |-> [narratives |-> [r \in {"A1"} |-> "text"]],
   groups |-> << >>, watch |-> << >>]

Entries ==
  {[ref |-> "A1", observation |-> "text", complete |-> TRUE],
   [ref |-> "net_revenue", observation |-> "text", complete |-> TRUE],
   [ref |-> "Z9", observation |-> "text", complete |-> TRUE],
   [ref |-> "A1", observation |-> "advice", complete |-> TRUE],
   [ref |-> "A1", observation |-> "blank", complete |-> TRUE],
   [ref |-> "A1", observation |-> "text", complete |-> FALSE]}

Answers ==
       {[Plainly EXCEPT !.form = f] : f \in {"not_json", "not_object", "ill_typed"}}
  \cup {[Plainly EXCEPT !.summary = s, !.situation = t, !.key_story = k] :
          s \in {"blank", "text", "long"}, t \in {"null", "blank", "text"},
          k \in {"null", "blank", "text"}}
  \cup {[Plainly EXCEPT !.signal_narratives = n] : n \in Texts({"A1", "F1", "Z9"})}
  \cup {[Plainly EXCEPT !.signal_narratives = [narratives |-> n]] : n \in Texts({"A1", "F1", "Z9"})}
  \cup {[Plainly EXCEPT !.groups = g] : g \in Groups}
  \cup {[Plainly EXCEPT !.watch = w] : w \in UNION {[1..n -> Entries] : n \in 1..2}}
  \cup {[Plainly EXCEPT !.watch = <<e, e, e>>] : e \in Entries}
=============================================================================
