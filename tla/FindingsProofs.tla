--------------------------- MODULE FindingsProofs ---------------------------
(***************************************************************************)
(* Lemmas about Findings for all cells: which numbers a metric, a change   *)
(* and a fired rule rest on.                                               *)
(***************************************************************************)
EXTENDS Findings, TLAPS

\* A column holds floats after validation (validate_dataframe).
LEMMA CoercedFloat == ASSUME NEW c \in Cell PROVE Coerced(c) \in Float
BY DEF Coerced, Cell, Float, NaN, Text, Num

LEMMA PositiveProduct ==
  ASSUME NEW a \in Nat \ {0}, NEW b \in Nat \ {0} PROVE a * b \in Nat \ {0}
BY SMT

\* Sums and differences are floats, and numbers only if both operands are.
LEMMA SumFloat ==
  ASSUME NEW x \in Float, NEW y \in Float
  PROVE  /\ Plus(x, y) \in Float /\ Minus(x, y) \in Float
         /\ IsNum(Plus(x, y)) => IsNum(x) /\ IsNum(y)
         /\ IsNum(Minus(x, y)) => IsNum(x) /\ IsNum(y)
<1>1. CASE IsNum(x) /\ IsNum(y)
  <2>1. x \in [n : Int, d : Nat \ {0}] /\ y \in [n : Int, d : Nat \ {0}]
    BY <1>1 DEF Float, IsNum, NaN, Num
  <2>2. x.d * y.d \in Nat \ {0} /\ x.n * y.d + y.n * x.d \in Int /\ x.n * y.d - y.n * x.d \in Int
    BY <2>1, PositiveProduct
  <2> QED  BY <1>1, <2>2 DEF Plus, Minus, Num, Float
<1>2. CASE ~ (IsNum(x) /\ IsNum(y))
  BY <1>2 DEF Plus, Minus, IsNum, NaN, Num, Float
<1> QED  BY <1>1, <1>2

\* A quotient is a number only if both operands are and the divisor is not zero
\* (safe_div).
LEMMA SafeDivNumber ==
  ASSUME NEW x \in Float, NEW y \in Float
  PROVE  /\ SafeDiv(x, y) \in Float \cup {None}
         /\ IsNum(SafeDiv(x, y)) => IsNum(x) /\ IsNum(y) /\ y.n # 0
<1>1. x # None /\ y # None
  BY DEF Float, NaN, None, Num
<1>2. CASE IsNum(x) /\ IsNum(y) /\ y.n # 0
  <2>1. x \in [n : Int, d : Nat \ {0}] /\ y \in [n : Int, d : Nat \ {0}]
    BY <1>2 DEF Float, IsNum, NaN, Num
  <2>2. /\ y.n > 0 => x.d * y.n \in Nat \ {0}
        /\ ~ (y.n > 0) => x.d * (-y.n) \in Nat \ {0}
    BY <1>2, <2>1, PositiveProduct
  <2>3. x.d * (-y.n) = -(x.d * y.n) /\ x.n * y.d \in Int
    BY <2>1
  <2>4. Quotient(x, y) \in Float
    BY <2>2, <2>3 DEF Quotient, Num, Float
  <2>5. SafeDiv(x, y) = Quotient(x, y)
    BY <1>1, <1>2, <2>1 DEF SafeDiv, IsZero, NaN, Num
  <2> QED  BY <1>2, <2>4, <2>5
<1>3. CASE ~ (IsNum(x) /\ IsNum(y) /\ y.n # 0)
  BY <1>1, <1>3 DEF SafeDiv, IsZero, IsNum, NaN, None, Num, Float
<1> QED  BY <1>2, <1>3

\* A change is a number only if both values are (compute_delta).
LEMMA DeltaNumber ==
  ASSUME NEW is \in Float \cup {None}, NEW was \in Float \cup {None}
  PROVE  /\ IsNum(DeltaPct(is, was)) => IsNum(is) /\ IsNum(was)
         /\ IsNum(DeltaAbs(is, was)) => IsNum(is) /\ IsNum(was)
<1>1. ~ IsNum(None)
  BY DEF IsNum, None, Num
<1>2. CASE is = None \/ was = None
  BY <1>1, <1>2 DEF DeltaPct, DeltaAbs
<1>3. CASE is # None /\ was # None
  <2>1. Minus(is, was) \in Float /\ (IsNum(Minus(is, was)) => IsNum(is) /\ IsNum(was))
    BY <1>3, SumFloat
  <2>2. Magnitude(was) \in Float
    BY <1>3 DEF Magnitude, Float, NaN, IsNum, Num
  <2>3. IsNum(DeltaPct(is, was)) => IsNum(Minus(is, was))
    BY <1>3, <2>1, <2>2, SafeDivNumber DEF DeltaPct
  <2> QED  BY <1>3, <2>1, <2>3 DEF DeltaAbs
<1> QED  BY <1>2, <1>3

\* A condition holds of numbers only: of the current value, and of the previous
\* one too unless the threshold is absolute.  A NaN or a None never fires a
\* rule, whatever its threshold (evaluate_rules).
LEMMA HoldsOfNumbers ==
  ASSUME NEW rule, NEW is \in Float \cup {None}, NEW was \in Float \cup {None},
         Holds(rule, was, is)
  PROVE  /\ IsNum(is)
         /\ rule.condition \notin {"absolute_lt", "absolute_gt"} => IsNum(was)
BY DeltaNumber DEF Holds, Leq, Lt

\* The metrics the rules look at, spelled out (compute_metrics).
LEMMA MetricFormulas ==
  ASSUME NEW row \in [RequiredColumns -> Cell]
  PROVE  LET v(c) == Coerced(row[c])
             ad == Plus(Plus(v("ad_spend_google"), v("ad_spend_meta")), v("ad_spend_other"))
             net == Minus(v("gross_revenue"), v("refunds"))
             margin == Minus(net, v("variable_cost"))
             M == ComputeMetrics(row)
         IN /\ M["net_revenue"] = net
            /\ M["cac_paid"] = SafeDiv(ad, v("new_clients_paid"))
            /\ M["paid_lead_to_client"] = SafeDiv(v("new_clients_paid"), v("leads_paid"))
            /\ M["show_rate"] = SafeDiv(v("appointments_completed"), v("bookings_total"))
            /\ M["cancel_rate"] = SafeDiv(v("appointments_cancelled"), v("bookings_total"))
            /\ M["bookings_total"] = v("bookings_total")
            /\ M["new_clients_total"] = Plus(v("new_clients_paid"), v("new_clients_organic"))
            /\ M["gross_margin"] = SafeDiv(margin, net)
            /\ M["marketing_pct_revenue"] = SafeDiv(ad, net)
            /\ M["contribution_after_marketing"] = Minus(margin, ad)
BY DEF ComputeMetrics, RequiredColumns, FloatColumns, IntColumns

-----------------------------------------------------------------------------
(***************************************************************************)
(* Order: what is computed from a smaller number is smaller.               *)
(***************************************************************************)

Number == [n : Int, d : Nat \ {0}]

LEMMA Scaled ==
  ASSUME NEW a \in Int, NEW b \in Int, NEW k \in Nat \ {0}
  PROVE  a <= b <=> a * k <= b * k
<1>1. ASSUME a <= b PROVE a * k <= b * k
  BY <1>1, SMT
<1>2. ASSUME a > b PROVE a * k > b * k
  BY <1>2, SMT
<1>3. a * k \in Int /\ b * k \in Int
  OBVIOUS
<1> QED  BY <1>1, <1>2, <1>3

LEMMA LeqTransitive ==
  ASSUME NEW x \in Number, NEW y \in Number, NEW z \in Number, Leq(x, y), Leq(y, z)
  PROVE  Leq(x, z)
<1>1. PICK xn \in Int, xd \in Nat \ {0} : x = Num(xn, xd)
  BY DEF Number, Num
<1>2. PICK yn \in Int, yd \in Nat \ {0} : y = Num(yn, yd)
  BY DEF Number, Num
<1>3. PICK zn \in Int, zd \in Nat \ {0} : z = Num(zn, zd)
  BY DEF Number, Num
<1>4. xn * yd <= yn * xd /\ yn * zd <= zn * yd
  BY <1>1, <1>2, <1>3 DEF Leq, Num
<1>5. /\ xn * yd \in Int /\ yn * xd \in Int /\ yn * zd \in Int /\ zn * yd \in Int
      /\ xn * zd \in Int /\ zn * xd \in Int
  OBVIOUS
<1>6. (xn * yd) * zd <= (yn * xd) * zd /\ (yn * zd) * xd <= (zn * yd) * xd
  BY <1>4, <1>5, Scaled
<1>7. (xn * zd) * yd <= (zn * xd) * yd
  <2>1. (xn * zd) * yd = (xn * yd) * zd
    BY SMT
  <2>2. (yn * xd) * zd = (yn * zd) * xd
    BY SMT
  <2>3. (zn * yd) * xd = (zn * xd) * yd
    BY SMT
  <2>4. (xn * yd) * zd \in Int /\ (yn * xd) * zd \in Int /\ (zn * yd) * xd \in Int
    OBVIOUS
  <2> QED  BY <1>6, <2>1, <2>2, <2>3, <2>4
<1>8. xn * zd <= zn * xd
  BY <1>5, <1>7, Scaled
<1> QED  BY <1>1, <1>3, <1>8 DEF Leq, IsNum, Num

LEMMA SumMonotone ==
  ASSUME NEW x \in Number, NEW y \in Number, NEW z \in Number, Leq(x, y)
  PROVE  /\ Plus(x, z) \in Number /\ Plus(y, z) \in Number /\ Leq(Plus(x, z), Plus(y, z))
         /\ Plus(z, x) \in Number /\ Plus(z, y) \in Number /\ Leq(Plus(z, x), Plus(z, y))
         /\ Minus(x, z) \in Number /\ Minus(y, z) \in Number /\ Leq(Minus(x, z), Minus(y, z))
<1>1. PICK xn \in Int, xd \in Nat \ {0} : x = Num(xn, xd)
  BY DEF Number, Num
<1>2. PICK yn \in Int, yd \in Nat \ {0} : y = Num(yn, yd)
  BY DEF Number, Num
<1>3. PICK zn \in Int, zd \in Nat \ {0} : z = Num(zn, zd)
  BY DEF Number, Num
<1>4. xn * yd <= yn * xd
  BY <1>1, <1>2 DEF Leq, Num
<1>5. /\ xd * zd \in Nat \ {0} /\ yd * zd \in Nat \ {0} /\ zd * xd \in Nat \ {0} /\ zd * yd \in Nat \ {0}
      /\ zd * zd \in Nat \ {0}
  BY PositiveProduct
<1>6. /\ Plus(x, z) = Num(xn * zd + zn * xd, xd * zd)
      /\ Plus(y, z) = Num(yn * zd + zn * yd, yd * zd)
      /\ Plus(z, x) = Num(zn * xd + xn * zd, zd * xd)
      /\ Plus(z, y) = Num(zn * yd + yn * zd, zd * yd)
      /\ Minus(x, z) = Num(xn * zd - zn * xd, xd * zd)
      /\ Minus(y, z) = Num(yn * zd - zn * yd, yd * zd)
  BY <1>1, <1>2, <1>3 DEF Plus, Minus, IsNum, Num
<1>7. \A v, w : v \in Int /\ w \in Nat \ {0} => Num(v, w) \in Number
  BY DEF Num, Number
<1>8. /\ xn * zd + zn * xd \in Int /\ yn * zd + zn * yd \in Int
      /\ zn * xd + xn * zd \in Int /\ zn * yd + yn * zd \in Int
      /\ xn * zd - zn * xd \in Int /\ yn * zd - zn * yd \in Int
  OBVIOUS
<1>9. (xn * yd) * (zd * zd) <= (yn * xd) * (zd * zd)
  BY <1>4, <1>5, Scaled
<1>10. /\ (xn * zd + zn * xd) * (yd * zd) = (xn * yd) * (zd * zd) + (zn * xd) * (yd * zd)
       /\ (yn * zd + zn * yd) * (xd * zd) = (yn * xd) * (zd * zd) + (zn * xd) * (yd * zd)
       /\ (zn * xd + xn * zd) * (zd * yd) = (xn * yd) * (zd * zd) + (zn * xd) * (yd * zd)
       /\ (zn * yd + yn * zd) * (zd * xd) = (yn * xd) * (zd * zd) + (zn * xd) * (yd * zd)
       /\ (xn * zd - zn * xd) * (yd * zd) = (xn * yd) * (zd * zd) - (zn * xd) * (yd * zd)
       /\ (yn * zd - zn * yd) * (xd * zd) = (yn * xd) * (zd * zd) - (zn * xd) * (yd * zd)
  BY SMT
<1> DEFINE u == (xn * yd) * (zd * zd)
           v == (yn * xd) * (zd * zd)
           w == (zn * xd) * (yd * zd)
<1>11. u \in Int /\ v \in Int /\ w \in Int /\ u <= v
  BY <1>9
<1> HIDE DEF u, v, w
<1>12. u + w <= v + w /\ u - w <= v - w
  BY <1>11
<1>13. /\ (xn * zd + zn * xd) * (yd * zd) <= (yn * zd + zn * yd) * (xd * zd)
       /\ (zn * xd + xn * zd) * (zd * yd) <= (zn * yd + yn * zd) * (zd * xd)
       /\ (xn * zd - zn * xd) * (yd * zd) <= (yn * zd - zn * yd) * (xd * zd)
  BY <1>10, <1>12 DEF u, v, w
<1>14. \A a, b : a \in Nat \ {0} /\ b \in Nat \ {0}
         => \A e, g : Leq(Num(e, a), Num(g, b)) <=> e * b <= g * a
  BY DEF Leq, IsNum, Num
<1> QED  BY <1>5, <1>6, <1>7, <1>8, <1>13, <1>14

\* Dividing by a positive number keeps the order.
LEMMA QuotientMonotone ==
  ASSUME NEW x \in Number, NEW y \in Number, NEW z \in Number, z.n > 0, Leq(x, y)
  PROVE  /\ SafeDiv(x, z) \in Number /\ SafeDiv(y, z) \in Number
         /\ Leq(SafeDiv(x, z), SafeDiv(y, z))
<1>1. PICK xn \in Int, xd \in Nat \ {0} : x = Num(xn, xd)
  BY DEF Number, Num
<1>2. PICK yn \in Int, yd \in Nat \ {0} : y = Num(yn, yd)
  BY DEF Number, Num
<1>3. PICK zn \in Nat \ {0}, zd \in Nat \ {0} : z = Num(zn, zd)
  BY DEF Number, Num
<1>4. xn * yd <= yn * xd
  BY <1>1, <1>2 DEF Leq, Num
<1>5. xd * zn \in Nat \ {0} /\ yd * zn \in Nat \ {0} /\ zd * zn \in Nat \ {0}
  BY PositiveProduct
<1>6. SafeDiv(x, z) = Num(xn * zd, xd * zn) /\ SafeDiv(y, z) = Num(yn * zd, yd * zn)
  BY <1>1, <1>2, <1>3 DEF SafeDiv, Quotient, IsZero, IsNum, None, NaN, Num
<1>7. xn * zd \in Int /\ yn * zd \in Int /\ xn * yd \in Int /\ yn * xd \in Int
  OBVIOUS
<1>8. (xn * zd) * (yd * zn) <= (yn * zd) * (xd * zn)
  <2>1. (xn * yd) * (zd * zn) <= (yn * xd) * (zd * zn)
    BY <1>4, <1>5, <1>7, Scaled
  <2>2. /\ (xn * zd) * (yd * zn) = (xn * yd) * (zd * zn)
        /\ (yn * zd) * (xd * zn) = (yn * xd) * (zd * zn)
    BY SMT
  <2> QED  BY <2>1, <2>2
<1> QED  BY <1>5, <1>6, <1>7, <1>8 DEF Number, Leq, IsNum, Num

LEMMA NumberOf ==
  ASSUME NEW x \in Float \cup {None}
  PROVE  IsNum(x) <=> x \in Number
BY DEF Float, Number, IsNum, NaN, None, Num

\* What falls further has fallen as far (compute_delta and the two conditions
\* on a fall).
LEMMA FallsFurther ==
  ASSUME NEW was \in Float \cup {None}, NEW is \in Number, NEW less \in Number, Leq(less, is),
         NEW t \in Number
  PROVE  /\ Leq(DeltaAbs(is, was), t) => Leq(DeltaAbs(less, was), t)
         /\ Leq(DeltaPct(is, was), t) => Leq(DeltaPct(less, was), t)
<1>1. is # None /\ less # None /\ is \in Float \cup {None}
  BY DEF Number, None, Num, Float
<1>2. CASE was \in Number
  <2>1. was # None
    BY <1>2 DEF Number, None, Num
  <2>2. /\ Minus(less, was) \in Number /\ Minus(is, was) \in Number
        /\ Leq(Minus(less, was), Minus(is, was))
    BY <1>2, SumMonotone
  <2>3. /\ DeltaAbs(is, was) = Minus(is, was) /\ DeltaAbs(less, was) = Minus(less, was)
        /\ DeltaPct(is, was) = SafeDiv(Minus(is, was), Magnitude(was))
        /\ DeltaPct(less, was) = SafeDiv(Minus(less, was), Magnitude(was))
    BY <1>1, <2>1 DEF DeltaAbs, DeltaPct
  <2>4. Leq(DeltaAbs(is, was), t) => Leq(DeltaAbs(less, was), t)
    BY <2>2, <2>3, LeqTransitive
  <2>5. CASE was.n = 0
    <3>1. Magnitude(was) = was /\ IsZero(was)
      BY <1>2, <2>5 DEF Magnitude, IsZero, IsNum, Number
    <3>2. DeltaPct(is, was) = None
      BY <2>3, <3>1 DEF SafeDiv
    <3>3. ~ Leq(DeltaPct(is, was), t)
      BY <3>2 DEF Leq, IsNum, None, Num
    <3> QED  BY <2>4, <3>3
  <2>6. CASE was.n # 0
    <3>1. Magnitude(was) \in Number /\ Magnitude(was).n > 0
      BY <1>2, <2>6 DEF Magnitude, Number, IsNum, Num
    <3>2. /\ DeltaPct(less, was) \in Number /\ DeltaPct(is, was) \in Number
          /\ Leq(DeltaPct(less, was), DeltaPct(is, was))
      BY <2>2, <2>3, <3>1, QuotientMonotone
    <3> QED  BY <2>4, <3>2, LeqTransitive
  <2> QED  BY <2>5, <2>6
<1>3. CASE was \notin Number
  <2>1. ~ IsNum(was)
    BY <1>3, NumberOf
  <2>2. ~ IsNum(DeltaAbs(is, was)) /\ ~ IsNum(DeltaPct(is, was))
    BY <1>1, <2>1, DeltaNumber
  <2> QED  BY <2>2 DEF Leq
<1> QED  BY <1>2, <1>3

LEMMA FallTypes ==
  ASSUME NEW row \in [RequiredColumns -> Cell]
  PROVE  /\ ComputeMetrics(row)["net_revenue"] \in Float
         /\ ComputeMetrics(row)["new_clients_total"] \in Float
         /\ ComputeMetrics(row)["bookings_total"] \in Float
         /\ Coerced(row["bookings_total"]) \in Float
<1>1. {"gross_revenue", "refunds", "bookings_total", "new_clients_paid", "new_clients_organic"}
        \subseteq RequiredColumns
  BY DEF RequiredColumns, FloatColumns, IntColumns
<1>2. \A c \in RequiredColumns : Coerced(row[c]) \in Float
  BY CoercedFloat
<1>3. /\ ComputeMetrics(row)["net_revenue"]
           = Minus(Coerced(row["gross_revenue"]), Coerced(row["refunds"]))
      /\ ComputeMetrics(row)["bookings_total"] = Coerced(row["bookings_total"])
      /\ ComputeMetrics(row)["new_clients_total"]
           = Plus(Coerced(row["new_clients_paid"]), Coerced(row["new_clients_organic"]))
  BY MetricFormulas
<1> QED  BY <1>1, <1>2, <1>3, SumFloat

\* The three metrics whose fall is warned about fall with each of the columns
\* they are summed from.
LEMMA FallenMetrics ==
  ASSUME NEW row \in [RequiredColumns -> Cell], NEW less \in Number,
         NEW column \in {"gross_revenue", "bookings_total", "new_clients_paid", "new_clients_organic"},
         Lt(less, row[column]),
         NEW m \in {"net_revenue", "bookings_total", "new_clients_total"},
         m = "net_revenue" => column = "gross_revenue",
         m = "bookings_total" => column = "bookings_total",
         m = "new_clients_total" => column \in {"new_clients_paid", "new_clients_organic"},
         NEW worse, worse = [row EXCEPT ![column] = less],
         IsNum(ComputeMetrics(row)[m])
  PROVE  /\ ComputeMetrics(row)[m] \in Number /\ ComputeMetrics(worse)[m] \in Number
         /\ Leq(ComputeMetrics(worse)[m], ComputeMetrics(row)[m])
<1> DEFINE v(c) == Coerced(row[c])
           u(c) == Coerced(worse[c])
<1>0. /\ {"gross_revenue", "refunds", "bookings_total", "new_clients_paid", "new_clients_organic"}
           \subseteq RequiredColumns
      /\ column \in RequiredColumns
  BY DEF RequiredColumns, FloatColumns, IntColumns
<1>1. less \in Number /\ less \in Cell
  BY DEF Number, Cell, Float
<1>2. worse \in [RequiredColumns -> Cell] /\ worse[column] = less
      /\ \A c \in RequiredColumns : c # column => worse[c] = row[c]
  BY <1>0, <1>1
<1>3. \A c \in RequiredColumns : v(c) \in Float
  BY CoercedFloat
<1>4. row[column] \in Number /\ v(column) = row[column] /\ u(column) = less
  <2>1. row[column] \in Cell /\ IsNum(row[column])
    BY <1>0 DEF Lt
  <2>2. row[column] \in Number /\ row[column] # Text /\ less # Text
    BY <2>1 DEF Cell, Float, Number, IsNum, NaN, Text, Num
  <2> QED  BY <1>2, <2>2 DEF Coerced
<1>5. Leq(u(column), v(column))
  BY <1>4 DEF Lt, Leq, Num, Number
<1>6. /\ \A c \in RequiredColumns : c # column => u(c) = v(c)
      /\ \A c \in RequiredColumns : IsNum(v(c)) => v(c) \in Number
      /\ v(column) \in Number /\ u(column) \in Number
  BY <1>1, <1>2, <1>3, <1>4, NumberOf
<1>7. /\ ComputeMetrics(row)["net_revenue"] = Minus(v("gross_revenue"), v("refunds"))
      /\ ComputeMetrics(worse)["net_revenue"] = Minus(u("gross_revenue"), u("refunds"))
      /\ ComputeMetrics(row)["bookings_total"] = v("bookings_total")
      /\ ComputeMetrics(worse)["bookings_total"] = u("bookings_total")
      /\ ComputeMetrics(row)["new_clients_total"] = Plus(v("new_clients_paid"), v("new_clients_organic"))
      /\ ComputeMetrics(worse)["new_clients_total"] = Plus(u("new_clients_paid"), u("new_clients_organic"))
  BY <1>2, MetricFormulas
<1> HIDE DEF v, u
<1>8. CASE m = "net_revenue"
  <2>1. column = "gross_revenue" /\ u("refunds") = v("refunds")
    BY <1>0, <1>6, <1>8
  <2>2. v("refunds") \in Number
    BY <1>0, <1>3, <1>6, <1>7, <1>8, SumFloat
  <2> QED  BY <1>5, <1>6, <1>7, <1>8, <2>1, <2>2, SumMonotone
<1>9. CASE m = "bookings_total"
  BY <1>5, <1>6, <1>7, <1>9
<1>10. CASE m = "new_clients_total" /\ column = "new_clients_paid"
  <2>1. u("new_clients_organic") = v("new_clients_organic")
    BY <1>0, <1>6, <1>10
  <2>2. v("new_clients_organic") \in Number
    BY <1>0, <1>3, <1>6, <1>7, <1>10, SumFloat
  <2> QED  BY <1>5, <1>6, <1>7, <1>10, <2>1, <2>2, SumMonotone
<1>11. CASE m = "new_clients_total" /\ column = "new_clients_organic"
  <2>1. u("new_clients_paid") = v("new_clients_paid")
    BY <1>0, <1>6, <1>11
  <2>2. v("new_clients_paid") \in Number
    BY <1>0, <1>3, <1>6, <1>7, <1>11, SumFloat
  <2> QED  BY <1>5, <1>6, <1>7, <1>11, <2>1, <2>2, SumMonotone
<1> QED  BY <1>8, <1>9, <1>10, <1>11

\* A warning of a fall stays when the fall is deeper: the guards of A1, F1 and
\* G1 and the choice of the hybrid condition look at the previous week only.
LEMMA FallStaysWarned ==
  ASSUME NEW prev \in [RequiredColumns -> Cell], NEW curr \in [RequiredColumns -> Cell],
         NEW drop \in {<<"A1", "gross_revenue">>, <<"F1", "bookings_total">>,
                      <<"G1", "new_clients_paid">>, <<"G1", "new_clients_organic">>},
         NEW less \in Float, drop[1] \in Signals(prev, curr), Lt(less, curr[drop[2]])
  PROVE  drop[1] \in Signals(prev, [curr EXCEPT ![drop[2]] = less])
<1> PICK r, column : r = drop[1] /\ column = drop[2]
  OBVIOUS
<1> PICK worse : worse = [curr EXCEPT ![column] = less]
  OBVIOUS
<1> PICK m : m = Rules[r].metric
  OBVIOUS
<1> DEFINE before == WithCounts(ComputeMetrics(prev), prev)
           is == ComputeMetrics(curr)[m]
           now == ComputeMetrics(worse)[m]
<1>1. \/ r = "A1" /\ column = "gross_revenue" /\ m = "net_revenue"
      \/ r = "F1" /\ column = "bookings_total" /\ m = "bookings_total"
      \/ r = "G1" /\ column \in {"new_clients_paid", "new_clients_organic"} /\ m = "new_clients_total"
  BY DEF Rules, Rule
<1>2. /\ r \in RuleIds /\ ~ Guarded(Rules[r], before, ComputeMetrics(curr))
      /\ Holds(Rules[r], before[m], is)
  BY DEF Signals
<1>3. /\ Rules[r].guards \cap {"curr_net"} = {} /\ Rules[r].threshold \in Number
      /\ Rules[r].condition \in {"delta_pct_lte", "hybrid_delta_pct_lte"}
      /\ ThresholdAbs \in Number
  BY <1>1 DEF Rules, Rule, Number, Num, ThresholdAbs
<1>4. ~ Guarded(Rules[r], before, ComputeMetrics(worse))
  BY <1>2, <1>3 DEF Guarded
<1>5. before[m] \in Float \cup {None}
  <2>1. /\ ComputeMetrics(prev)["net_revenue"] \in Float
        /\ ComputeMetrics(prev)["new_clients_total"] \in Float
        /\ Coerced(prev["bookings_total"]) \in Float
    BY FallTypes
  <2>2. m \in MetricIds
    BY <1>1 DEF MetricIds
  <2>3. before[m] = IF m = "bookings_total" THEN Coerced(prev[m]) ELSE ComputeMetrics(prev)[m]
    BY <1>1, <2>2 DEF WithCounts, AtLeast
  <2> QED  BY <1>1, <2>1, <2>3
<1>6. IsNum(is)
  <2>1. is \in Float \cup {None}
    BY <1>1, FallTypes
  <2> HIDE DEF before, is
  <2> QED  BY <1>2, <1>5, <2>1, HoldsOfNumbers
<1>7. is \in Number /\ now \in Number /\ Leq(now, is)
  <2>1. less \in Number
    BY NumberOf DEF Lt
  <2> QED  BY <1>1, <1>6, <2>1, FallenMetrics
<1> HIDE DEF before, is, now
<1>8. Holds(Rules[r], before[m], now)
  BY <1>2, <1>3, <1>5, <1>7, FallsFurther DEF Holds
<1> QED  BY <1>2, <1>4, <1>8 DEF Signals, before, now

-----------------------------------------------------------------------------
(***************************************************************************)
(* A loss of contribution is signalled.                                    *)
(***************************************************************************)

Abs(i) == IF i < 0 THEN -i ELSE i

\* A change in percent, against a threshold.
LEMMA PercentOf ==
  ASSUME NEW cn \in Int, NEW cd \in Nat \ {0}, NEW pn \in Int, NEW pd \in Nat \ {0}, pn # 0,
         NEW k \in Int
  PROVE  Leq(DeltaPct(Num(cn, cd), Num(pn, pd)), Num(k, 100))
           <=> ((cn * pd - pn * cd) * pd) * 100 <= k * ((cd * pd) * Abs(pn))
<1> DEFINE q == Abs(pn)
<1>1. Magnitude(Num(pn, pd)) = Num(q, pd) /\ q \in Nat \ {0}
  BY DEF Abs, Magnitude, IsNum, Num
<1> HIDE DEF q
<1> DEFINE mn == cn * pd - pn * cd
           md == cd * pd
<1>2. Minus(Num(cn, cd), Num(pn, pd)) = Num(mn, md)
  BY DEF Minus, IsNum, Num
<1>3. mn \in Int /\ md \in Nat \ {0} /\ md * q \in Nat \ {0}
  BY <1>1, PositiveProduct
<1> HIDE DEF mn, md
<1>4. DeltaPct(Num(cn, cd), Num(pn, pd)) = SafeDiv(Num(mn, md), Num(q, pd))
  BY <1>1, <1>2 DEF DeltaPct, None, Num
<1>5. SafeDiv(Num(mn, md), Num(q, pd)) = Num(mn * pd, md * q)
  BY <1>1, <1>3 DEF SafeDiv, Quotient, IsZero, IsNum, None, NaN, Num
<1>6. Leq(Num(mn * pd, md * q), Num(k, 100)) <=> (mn * pd) * 100 <= k * (md * q)
  BY <1>3 DEF Leq, IsNum, Num
<1> QED  BY <1>4, <1>5, <1>6 DEF mn, md, q

\* A contribution that is a number rests on a net revenue that is one.
LEMMA NetUnderContribution ==
  ASSUME NEW row \in [RequiredColumns -> Cell]
  PROVE  /\ ComputeMetrics(row)["contribution_after_marketing"] \in Float
         /\ IsNum(ComputeMetrics(row)["contribution_after_marketing"])
              => ComputeMetrics(row)["net_revenue"] \in Number
<1> DEFINE v(c) == Coerced(row[c])
           ad == Plus(Plus(v("ad_spend_google"), v("ad_spend_meta")), v("ad_spend_other"))
           net == Minus(v("gross_revenue"), v("refunds"))
           margin == Minus(net, v("variable_cost"))
<1>1. /\ v("ad_spend_google") \in Float /\ v("ad_spend_meta") \in Float /\ v("ad_spend_other") \in Float
      /\ v("gross_revenue") \in Float /\ v("refunds") \in Float /\ v("variable_cost") \in Float
  <2>1. \A c \in RequiredColumns : v(c) \in Float
    BY CoercedFloat
  <2> QED  BY <2>1 DEF RequiredColumns, FloatColumns
<1>2. /\ ComputeMetrics(row)["contribution_after_marketing"] = Minus(margin, ad)
      /\ ComputeMetrics(row)["net_revenue"] = net
  BY MetricFormulas
<1> HIDE DEF v
<1>3. net \in Float
  BY <1>1, SumFloat
<1>4. ad \in Float
  <2>1. Plus(v("ad_spend_google"), v("ad_spend_meta")) \in Float
    BY <1>1, SumFloat
  <2> QED  BY <1>1, <2>1, SumFloat
<1> HIDE DEF ad, net
<1>5. margin \in Float /\ (IsNum(margin) => IsNum(net))
  BY <1>1, <1>3, SumFloat
<1> HIDE DEF margin
<1>6. Minus(margin, ad) \in Float /\ (IsNum(Minus(margin, ad)) => IsNum(margin))
  BY <1>4, <1>5, SumFloat
<1> QED  BY <1>2, <1>3, <1>5, <1>6, NumberOf

\* After a week with enough revenue, the loss of a quarter of the contribution
\* fires H3, or A1 where the guard on the current revenue silences H3.
LEMMA LossFires ==
  ASSUME MinPrevNetRevenue \in Nat \ {0},
         NEW prev \in [RequiredColumns -> Cell], NEW curr \in [RequiredColumns -> Cell],
         NEW p, p = ComputeMetrics(prev)["contribution_after_marketing"],
         NEW c, c = ComputeMetrics(curr)["contribution_after_marketing"],
         Leq(Num(MinPrevNetRevenue, 1), ComputeMetrics(prev)["net_revenue"]),
         IsNum(Minus(p, c)), ~ IsZero(p),
         Leq(Magnitude(p), Num(4 * Minus(p, c).n, Minus(p, c).d))
  PROVE  "A1" \in Signals(prev, curr) \/ "H3" \in Signals(prev, curr)
<1> DEFINE was == WithCounts(ComputeMetrics(prev), prev)
           is == ComputeMetrics(curr)
<1>1. /\ was["net_revenue"] = ComputeMetrics(prev)["net_revenue"]
      /\ was["contribution_after_marketing"] = p
  BY DEF WithCounts, MetricIds, AtLeast
<1>2. /\ p \in Number /\ c \in Number
      /\ was["net_revenue"] \in Number /\ is["net_revenue"] \in Number
  <2>1. p \in Float /\ c \in Float
    BY NetUnderContribution
  <2>2. IsNum(p) /\ IsNum(c)
    BY <2>1, SumFloat
  <2> QED  BY <1>1, <2>1, <2>2, NetUnderContribution, NumberOf
<1>3. PICK pn \in Int, pd \in Nat \ {0} : p = Num(pn, pd)
  BY <1>2 DEF Number, Num
<1>4. PICK cn \in Int, cd \in Nat \ {0} : c = Num(cn, cd)
  BY <1>2 DEF Number, Num
<1>5. PICK a \in Int, b \in Nat \ {0} : was["net_revenue"] = Num(a, b)
  BY <1>2 DEF Number, Num
<1>6. PICK e \in Int, f \in Nat \ {0} : is["net_revenue"] = Num(e, f)
  BY <1>2 DEF Number, Num
<1>7. MinPrevNetRevenue * b <= a /\ a > 0
  <2>1. MinPrevNetRevenue * b <= a * 1
    BY <1>1, <1>5 DEF Leq, IsNum, Num
  <2>2. MinPrevNetRevenue * b \in Nat \ {0}
    BY PositiveProduct
  <2> QED  BY <2>1, <2>2
<1>8. ~ Lt(was["net_revenue"], Num(MinPrevNetRevenue, 1))
  <2>1. MinPrevNetRevenue * b \in Int
    OBVIOUS
  <2>2. ~ (a * 1 < MinPrevNetRevenue * b)
    BY <1>7, <2>1
  <2> QED  BY <1>5, <2>2 DEF Lt, IsNum, Num
<1> HIDE DEF was, is
<1>9. CASE e <= 0
  <2>1. ~ Guarded(Rules["A1"], was, is)
    BY <1>8 DEF Guarded, Rules, Rule, AtLeast
  <2>2. Leq(DeltaPct(Num(e, f), Num(a, b)), Num(-15, 100))
    <3> DEFINE x == (e * b) * b
               y == (f * b) * a
    <3>1. y \in Nat
      BY <1>7, PositiveProduct
    <3>2. x \in Int /\ x <= 0
      <4>1. b * b \in Nat \ {0} /\ x = e * (b * b)
        BY PositiveProduct, SMT
      <4>2. e * (b * b) <= 0 * (b * b)
        BY <1>9, <4>1, Scaled
      <4> QED  BY <4>1, <4>2
    <3>3. ((e * b - a * f) * b) * 100 = 100 * x - 100 * y
      BY SMT
    <3> HIDE DEF x, y
    <3>4. 100 * x - 100 * y <= -15 * y
      BY <3>1, <3>2
    <3>5. ((e * b - a * f) * b) * 100 <= -15 * ((f * b) * a)
      BY <3>3, <3>4 DEF y
    <3>6. a # 0 /\ a = Abs(a)
      BY <1>7 DEF Abs
    <3> PICK k \in Int : k = -15
      OBVIOUS
    <3>7. Leq(DeltaPct(Num(e, f), Num(a, b)), Num(k, 100))
            <=> ((e * b - a * f) * b) * 100 <= k * ((f * b) * a)
      BY ONLY <3>6, PercentOf, a \in Int, b \in Nat \ {0}, e \in Int, f \in Nat \ {0}, k \in Int
    <3>8. ((e * b - a * f) * b) * 100 <= k * ((f * b) * a)
      BY ONLY <3>5, k = -15
    <3>9. Leq(DeltaPct(Num(e, f), Num(a, b)), Num(k, 100))
      BY ONLY <3>7, <3>8
    <3> QED  BY <3>9
  <2>3. Holds(Rules["A1"], was["net_revenue"], is["net_revenue"])
    BY <1>5, <1>6, <2>2 DEF Holds, Rules, Rule
  <2>4. "A1" \in RuleIds /\ Rules["A1"].metric = "net_revenue"
    BY DEF RuleIds, Rules, Rule
  <2> QED  BY <2>1, <2>3, <2>4 DEF Signals, was, is
<1>10. CASE e > 0
  <2>1. ~ Leq(is["net_revenue"], Zero)
    BY <1>6, <1>10 DEF Leq, IsNum, Num, Zero
  <2>2. ~ Guarded(Rules["H3"], was, is)
    BY <1>8, <2>1 DEF Guarded, Rules, Rule, AtLeast
  <2>3. Leq(DeltaPct(Num(cn, cd), Num(pn, pd)), Num(-25, 100))
    <3> PICK q : q = Abs(pn)
      OBVIOUS
    <3>1. pn # 0 /\ q \in Nat \ {0} /\ q = Abs(pn)
      BY <1>3 DEF IsZero, IsNum, Num, Abs
    <3>2. Magnitude(p) = Num(q, pd) /\ Minus(p, c) = Num(pn * cd - cn * pd, pd * cd)
      BY <1>3, <1>4, <3>1 DEF Abs, Magnitude, Minus, IsNum, Num
    <3>3. q * (pd * cd) <= (4 * (pn * cd - cn * pd)) * pd
      BY <3>2 DEF Leq, IsNum, Num
    <3> DEFINE x == (pn * cd - cn * pd) * pd
               y == (cd * pd) * q
    <3>4. x \in Int /\ y \in Int
      BY <3>1
    <3>5. q * (pd * cd) = y /\ (4 * (pn * cd - cn * pd)) * pd = 4 * x
      BY <3>1, SMT
    <3>6. ((cn * pd - pn * cd) * pd) * 100 = -100 * x
      BY SMT
    <3>7. y <= 4 * x
      BY <3>3, <3>5
    <3> HIDE DEF x, y
    <3> PICK k \in Int : k = -25
      OBVIOUS
    <3>8. -100 * x <= k * y
      BY <3>4, <3>7
    <3>9. ((cn * pd - pn * cd) * pd) * 100 <= k * y
      BY <3>6, <3>8
    <3>10. Leq(DeltaPct(Num(cn, cd), Num(pn, pd)), Num(k, 100))
             <=> ((cn * pd - pn * cd) * pd) * 100 <= k * ((cd * pd) * q)
      BY ONLY <3>1, PercentOf, k \in Int,
              cn \in Int, cd \in Nat \ {0}, pn \in Int, pd \in Nat \ {0}
    <3>11. y = (cd * pd) * q
      BY DEF y
    <3>12. Leq(DeltaPct(Num(cn, cd), Num(pn, pd)), Num(k, 100))
      BY ONLY <3>9, <3>10, <3>11
    <3> QED  BY <3>12
  <2>4. Holds(Rules["H3"], was["contribution_after_marketing"], is["contribution_after_marketing"])
    BY <1>1, <1>3, <1>4, <2>3 DEF Holds, Rules, Rule, is
  <2>5. "H3" \in RuleIds /\ Rules["H3"].metric = "contribution_after_marketing"
    BY DEF RuleIds, Rules, Rule
  <2> QED  BY <2>2, <2>4, <2>5 DEF Signals, was, is
<1> QED  BY <1>9, <1>10
=============================================================================
