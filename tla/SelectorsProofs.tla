--------------------------- MODULE SelectorsProofs ---------------------------
(***************************************************************************)
(* Proofs about the selectors and the periods they give to observations.   *)
(*                                                                         *)
(* For every date and frequency, a period consists of dates, contains the  *)
(* date it was derived from, and but for weeks, which start wherever the   *)
(* provider's date is, two periods of one frequency are the same or have   *)
(* no day in common.  For every answer and configuration, extract gives    *)
(* each selected row as one observation, in the answer's order, or         *)
(* nothing.                                                                *)
(*                                                                         *)
(* For every text, the service reads the compressed query back.  A step of *)
(* the decompressor depends on bits that are written later, so what is     *)
(* invariant of the compression speaks of every way to go on: whatever is  *)
(* written after them, the bits so far take the decompressor to a state in *)
(* step with the compressor (Follows).  Once the query is finished, what   *)
(* the service can reach is a set of decompressors that no step leaves     *)
(* and none of which has read anything but the text (Serves).              *)
(***************************************************************************)
EXTENDS Selectors, SequenceTheorems, WellFoundedInduction, TLAPS

Within(d, period) == NotAfter(period.start, d) /\ NotAfter(d, period.end)

\* The days from the first of one month to the last of another of its year.
LEMMA MonthsBounds ==
  ASSUME NEW y \in Nat \ {0}, NEW f \in 1..12, NEW l \in f..12
  PROVE  /\ IsDate(Months(y, f, l).start) /\ IsDate(Months(y, f, l).end)
         /\ \A d : IsDate(d) /\ Within(d, Months(y, f, l)) => d.year = y /\ d.month \in f..l
         /\ \A d : IsDate(d) /\ d.year = y /\ d.month \in f..l => Within(d, Months(y, f, l))
<1>1. \A x \in Nat \ {0}, m \in 1..12 : MonthLength(x, m) \in 28..31
  BY DEF MonthLength
<1>2. Months(y, f, l).start = Date(y, f, 1) /\ Months(y, f, l).end = Date(y, l, MonthLength(y, l))
  BY DEF Months
<1>3. IsDate(Date(y, f, 1)) /\ IsDate(Date(y, l, MonthLength(y, l)))
  BY <1>1 DEF IsDate, Date
<1>4. ASSUME NEW d, IsDate(d)
      PROVE  Within(d, Months(y, f, l)) <=> d.year = y /\ d.month \in f..l
  <2>1. d.year \in Nat /\ d.month \in 1..12 /\ d.day \in Nat /\ 1 <= d.day /\ d.day <= MonthLength(d.year, d.month)
    BY <1>1, <1>4 DEF IsDate
  <2>2. NotAfter(Date(y, f, 1), d) <=> y < d.year \/ (y = d.year /\ f <= d.month)
    BY <2>1 DEF NotAfter, Date
  <2>3. NotAfter(d, Date(y, l, MonthLength(y, l))) <=> d.year < y \/ (d.year = y /\ d.month <= l)
    <3>1. MonthLength(y, l) \in Nat
      BY <1>1
    <3> QED BY <2>1, <3>1 DEF NotAfter, Date
  <2> QED BY <1>2, <2>1, <2>2, <2>3 DEF Within
<1> QED BY <1>2, <1>3, <1>4

\* A week ends on a date, six days on.
LEMMA WeekBounds ==
  ASSUME NEW d, IsDate(d)
  PROVE  IsDate(WeekAfter(d)) /\ NotAfter(d, WeekAfter(d))
<1>1. d.year \in Nat \ {0} /\ d.month \in 1..12 /\ d.day \in 1..MonthLength(d.year, d.month)
  BY DEF IsDate
<1>2. \A x \in Nat \ {0}, m \in 1..12 : MonthLength(x, m) \in 28..31
  BY DEF MonthLength
<1> DEFINE last == MonthLength(d.year, d.month)
<1>3. last \in 28..31
  BY <1>1, <1>2
<1>4. CASE d.day + 6 <= last
  <2>1. WeekAfter(d) = Date(d.year, d.month, d.day + 6)
    BY <1>4 DEF WeekAfter
  <2>2. d.day + 6 \in 1..last
    BY <1>1, <1>3, <1>4
  <2> QED BY <1>1, <1>3, <2>1, <2>2 DEF IsDate, NotAfter, Date
<1>5. CASE d.day + 6 > last /\ d.month < 12
  <2>1. WeekAfter(d) = Date(d.year, d.month + 1, d.day + 6 - last)
    BY <1>1, <1>3, <1>5 DEF WeekAfter
  <2>2. MonthLength(d.year, d.month + 1) \in 28..31
    BY <1>1, <1>2, <1>5
  <2>3. d.day + 6 - last \in 1..MonthLength(d.year, d.month + 1)
    BY <1>1, <1>3, <1>5, <2>2
  <2> QED BY <1>1, <1>5, <2>1, <2>3 DEF IsDate, NotAfter, Date
<1>6. CASE d.day + 6 > last /\ d.month = 12
  <2>1. WeekAfter(d) = Date(d.year + 1, 1, d.day + 6 - last)
    BY <1>1, <1>3, <1>6 DEF WeekAfter
  <2>2. MonthLength(d.year + 1, 1) \in 28..31
    BY <1>1, <1>2
  <2>3. d.day + 6 - last \in 1..MonthLength(d.year + 1, 1)
    BY <1>1, <1>3, <1>6, <2>2
  <2> QED BY <1>1, <2>1, <2>3 DEF IsDate, NotAfter, Date
<1> QED BY <1>1, <1>3, <1>4, <1>5, <1>6

\* The first and last month of the period a month is in.
FirstMonth(m, f) == CASE f = "M" -> m [] f = "Q" -> QuarterStart(m)
                      [] f = "S" -> IF m <= 6 THEN 1 ELSE 7 [] f = "A" -> 1
LastMonth(m, f) == CASE f = "M" -> m [] f = "Q" -> QuarterStart(m) + 2
                     [] f = "S" -> IF m <= 6 THEN 6 ELSE 12 [] f = "A" -> 12
MonthFrequencies == {"M", "Q", "S", "A"}

\* The months of a year are parted, and every month is in its own part.
LEMMA MonthsParted ==
  ASSUME NEW f \in MonthFrequencies, NEW m \in 1..12
  PROVE  /\ FirstMonth(m, f) \in 1..m /\ LastMonth(m, f) \in m..12
         /\ \A n \in FirstMonth(m, f)..LastMonth(m, f) :
              FirstMonth(n, f) = FirstMonth(m, f) /\ LastMonth(n, f) = LastMonth(m, f)
<1>1. CASE f = "M"
  BY <1>1 DEF FirstMonth, LastMonth
<1>2. CASE f = "Q"
  <2>1. \A n \in 1..12 : FirstMonth(n, f) = QuarterStart(n) /\ LastMonth(n, f) = QuarterStart(n) + 2
    BY <1>2 DEF FirstMonth, LastMonth
  <2>2. /\ \A n \in 1..3 : QuarterStart(n) = 1
        /\ \A n \in 4..6 : QuarterStart(n) = 4
        /\ \A n \in 7..9 : QuarterStart(n) = 7
        /\ \A n \in 10..12 : QuarterStart(n) = 10
    BY DEF QuarterStart
  <2>3. CASE m \in 1..3
    BY <2>1, <2>2, <2>3
  <2>4. CASE m \in 4..6
    BY <2>1, <2>2, <2>4
  <2>5. CASE m \in 7..9
    BY <2>1, <2>2, <2>5
  <2>6. CASE m \in 10..12
    BY <2>1, <2>2, <2>6
  <2> QED BY <2>3, <2>4, <2>5, <2>6
<1>3. CASE f = "S"
  <2>1. \A n : /\ FirstMonth(n, f) = IF n <= 6 THEN 1 ELSE 7
               /\ LastMonth(n, f) = IF n <= 6 THEN 6 ELSE 12
    BY <1>3 DEF FirstMonth, LastMonth
  <2> QED BY <2>1
<1>4. CASE f = "A"
  <2>1. \A n : FirstMonth(n, f) = 1 /\ LastMonth(n, f) = 12
    BY <1>4 DEF FirstMonth, LastMonth
  <2> QED BY <2>1
<1> QED BY <1>1, <1>2, <1>3, <1>4 DEF MonthFrequencies

\* The period of a date is that of the months it is in.
LEMMA PeriodOfMonths ==
  ASSUME NEW f \in MonthFrequencies, NEW d, IsDate(d)
  PROVE  PeriodBounds(d, f) = Months(d.year, FirstMonth(d.month, f), LastMonth(d.month, f))
<1>1. CASE f = "M"
  BY <1>1 DEF PeriodBounds, FirstMonth, LastMonth
<1>2. CASE f = "Q"
  BY <1>2 DEF PeriodBounds, FirstMonth, LastMonth
<1>3. CASE f = "S"
  BY <1>3 DEF PeriodBounds, FirstMonth, LastMonth
<1>4. CASE f = "A"
  BY <1>4 DEF PeriodBounds, FirstMonth, LastMonth
<1> QED BY <1>1, <1>2, <1>3, <1>4 DEF MonthFrequencies

\* A period consists of dates and contains the date it was derived from.
THEOREM PeriodContainsItsDate ==
  ASSUME NEW d, IsDate(d), NEW f \in Frequencies
  PROVE  /\ IsDate(PeriodBounds(d, f).start) /\ IsDate(PeriodBounds(d, f).end)
         /\ Within(d, PeriodBounds(d, f))
<1>1. d.year \in Nat \ {0} /\ d.month \in 1..12 /\ d.day \in Int
  BY DEF IsDate
<1>2. NotAfter(d, d)
  BY <1>1 DEF NotAfter
<1>3. CASE f = "D"
  BY <1>2, <1>3 DEF PeriodBounds, Within
<1>4. CASE f = "W"
  <2>1. PeriodBounds(d, f).start = d /\ PeriodBounds(d, f).end = WeekAfter(d)
    BY <1>4 DEF PeriodBounds
  <2> QED BY <1>2, <2>1, WeekBounds DEF Within
<1>5. CASE f \in MonthFrequencies
  <2> DEFINE first == FirstMonth(d.month, f)
             final == LastMonth(d.month, f)
  <2>1. first \in 1..d.month /\ final \in d.month..12
    BY <1>1, <1>5, MonthsParted
  <2>2. first \in 1..12 /\ final \in first..12 /\ d.month \in first..final
    BY <1>1, <2>1
  <2>3. PeriodBounds(d, f) = Months(d.year, first, final)
    BY <1>5, PeriodOfMonths
  <2> HIDE DEF first, final
  <2>4. d.year \in Nat \ {0} /\ first \in 1..12 /\ final \in first..12
    BY <1>1, <2>2
  <2>5. /\ IsDate(Months(d.year, first, final).start) /\ IsDate(Months(d.year, first, final).end)
        /\ IsDate(d) /\ d.year = d.year /\ d.month \in first..final => Within(d, Months(d.year, first, final))
    BY ONLY <2>4, MonthsBounds
  <2> QED BY <2>2, <2>3, <2>5
<1> QED BY <1>3, <1>4, <1>5 DEF Frequencies, MonthFrequencies

\* Every day of a period has that very period, at any frequency but the weekly.
LEMMA DayHasItsPeriod ==
  ASSUME NEW d, IsDate(d), NEW e, IsDate(e), NEW f \in Frequencies \ {"W"},
         Within(e, PeriodBounds(d, f))
  PROVE  PeriodBounds(e, f) = PeriodBounds(d, f)
<1>1. /\ d.year \in Nat \ {0} /\ d.month \in 1..12 /\ d.day \in Int
      /\ e.year \in Nat \ {0} /\ e.month \in 1..12 /\ e.day \in Int
  <2>1. \A x \in Nat \ {0}, m \in 1..12 : MonthLength(x, m) \in 28..31
    BY DEF MonthLength
  <2> QED BY <2>1 DEF IsDate
<1>2. CASE f = "D"
  <2>1. NotAfter(d, e) /\ NotAfter(e, d)
    BY <1>2 DEF PeriodBounds, Within
  <2>2. d.year = e.year /\ d.month = e.month /\ d.day = e.day
    BY <1>1, <2>1 DEF NotAfter
  <2>3. d = Date(d.year, d.month, d.day) /\ e = Date(e.year, e.month, e.day)
    BY DEF IsDate
  <2> QED BY <2>2, <2>3
<1>3. CASE f \in MonthFrequencies
  <2> DEFINE first == FirstMonth(d.month, f)
             final == LastMonth(d.month, f)
  <2>1. first \in 1..d.month /\ final \in d.month..12
    BY <1>1, <1>3, MonthsParted
  <2>2. PeriodBounds(d, f) = Months(d.year, first, final)
    BY <1>3, PeriodOfMonths
  <2>3. e.year = d.year /\ e.month \in first..final
    <3>1. d.year \in Nat \ {0} /\ first \in 1..12 /\ final \in first..12
      BY <1>1, <2>1
    <3> HIDE DEF first, final
    <3>2. IsDate(e) /\ Within(e, Months(d.year, first, final)) => e.year = d.year /\ e.month \in first..final
      BY ONLY <3>1, MonthsBounds
    <3> QED BY <2>2, <3>2
  <2>4. FirstMonth(e.month, f) = first /\ LastMonth(e.month, f) = final
    BY <1>1, <1>3, <2>3, MonthsParted
  <2> QED BY <1>3, <2>2, <2>3, <2>4, PeriodOfMonths
<1> QED BY <1>2, <1>3 DEF Frequencies, MonthFrequencies

\* Two periods of a frequency other than weekly that share a day are the same:
\* the unique key of an observation, which holds both ends, cannot tell apart
\* two dates of one period, and periods of one series never overlap in part.
THEOREM PeriodsPart ==
  ASSUME NEW d, IsDate(d), NEW e, IsDate(e), NEW day, IsDate(day),
         NEW f \in Frequencies \ {"W"},
         Within(day, PeriodBounds(d, f)), Within(day, PeriodBounds(e, f))
  PROVE  PeriodBounds(d, f) = PeriodBounds(e, f)
<1>1. PeriodBounds(day, f) = PeriodBounds(d, f)
  BY DayHasItsPeriod
<1>2. PeriodBounds(day, f) = PeriodBounds(e, f)
  BY DayHasItsPeriod
<1> QED BY <1>1, <1>2
-------------------------------------------------------------------------------
(* The rows of a listing *)

AnsweredRows(answer) == {answer.rows[i] : i \in DOMAIN answer.rows}
Calls == [kind : Kinds, config : Configs, answer : Answers, rows : {call.rows},
          observations : {call.observations}, result : {call.result}]
Observable == {ParsedRow(k).observation : k \in {k \in DOMAIN AnswerRows :
                                                   ParsedRow(k).status = "observed"}}

\* Of the first n rows of the listing, every one that is not skipped has been observed.
Progress(n) ==
  /\ \A k \in Selected(n) : ParsedRow(k).status = "observed"
  /\ InOrder(call.observations, Selected(n))

\* The rows to read are the last of the listing, and the observations those of the others.
Reading ==
  /\ IsValid(call.kind, call.config) /\ AnswerRows # None
  /\ call.rows \in Seq(AnsweredRows(call.answer))
  /\ Len(call.rows) <= Len(AnswerRows)
  /\ \A i \in 1..Len(call.rows) :
       call.rows[i] = AnswerRows[Len(AnswerRows) - Len(call.rows) + i]
  /\ Progress(Len(AnswerRows) - Len(call.rows))

CallInv ==
  call # None =>
    /\ call \in Calls
    /\ AnswerRows # None => AnswerRows \in Seq(AnsweredRows(call.answer))
    /\ call.observations \in Seq(Observable)
    /\ call.observations # <<>> => IsValid(call.kind, call.config) /\ AnswerRows # None
    /\ call.result = None => Reading
    /\ ExtractsTheSelectedRows

\* What is said of the rows of an answer does not depend on how far the call has come.
LEMMA SameAnswer ==
  ASSUME call'.kind = call.kind, call'.config = call.config, call'.answer = call.answer
  PROVE  /\ AnswerRows' = AnswerRows
         /\ \A k : ParsedRow(k)' = ParsedRow(k)
         /\ \A n : Selected(n)' = Selected(n)
         /\ Observable' = Observable
         /\ \A observations, selected :
              InOrder(observations, selected) => InOrder(observations, selected)'
<1>1. AnswerRows' = AnswerRows
  BY DEF AnswerRows
<1>2. \A k : ParsedRow(k)' = ParsedRow(k)
  BY <1>1 DEF ParsedRow
<1>3. \A n : Selected(n)' = Selected(n)
  BY <1>2 DEF Selected
<1>4. Observable' = Observable
  BY <1>1, <1>2 DEF Observable
<1>5. \A observations, selected :
         InOrder(observations, selected) => InOrder(observations, selected)'
  BY <1>2 DEF InOrder
<1> QED BY <1>1, <1>2, <1>3, <1>4, <1>5

\* A row is bad, skipped or observed.
LEMMA StatusOfRow ==
  ASSUME NEW kind \in Kinds, NEW config, NEW row
  PROVE  Parsed(kind, config, row).status \in {"bad", "skip", "observed"}
<1>1. \A date, value, vintage : Observed(config, date, value, vintage).status \in {"bad", "observed"}
  BY DEF Observed, Bad
<1> QED BY <1>1 DEF Kinds, Parsed, JsonPathRow, CsvColumnRow, CenstatdJsonRow, EstatValueRow, Bad, Skip

\* The selectors find the rows of an answer, if any, in its order.
LEMMA RowsOfAnswer ==
  ASSUME NEW kind \in Kinds, NEW answer \in Answers, Rows(kind, answer) # None
  PROVE  /\ Rows(kind, answer) \in Seq(AnsweredRows(answer))
         /\ \A k \in DOMAIN Rows(kind, answer) :
              k \in DOMAIN answer.rows /\ Rows(kind, answer)[k] = answer.rows[k]
<1>1. Rows(kind, answer) = answer.rows \/ Rows(kind, answer) = <<>>
  BY DEF Rows, CsvRows, EstatRows, JsonRows
<1>2. answer.rows \in Seq(AnsweredRows(answer)) /\ <<>> \in Seq(AnsweredRows(answer))
  BY SelectorsAssumption DEF AnsweredRows
<1>3. CASE Rows(kind, answer) = answer.rows
  BY <1>2, <1>3
<1>4. CASE Rows(kind, answer) = <<>>
  <2>1. DOMAIN Rows(kind, answer) = {}
    BY <1>4
  <2> QED BY <1>2, <1>4, <2>1
<1> QED BY <1>1, <1>3, <1>4

-------------------------------------------------------------------------------
(* The steps of extract *)

\* The call begins: its listing is all to read, or it has its result.
LEMMA ExtractStep ==
  ASSUME NEW kind \in Kinds, NEW config \in Configs, NEW answer \in Answers,
         Extract(kind, config, answer)
  PROVE  CallInv'
<1> DEFINE rows == Rows(kind, answer)
           begin(result) == [kind |-> kind, config |-> config, answer |-> answer,
                             rows |-> <<>>, observations |-> <<>>, result |-> result]
<1>1. \/ ~IsValid(kind, config) /\ call' = begin(Raised)
      \/ IsValid(kind, config) /\ call' = begin(Result("provider_error", <<>>))
      \/ IsValid(kind, config) /\ rows = None /\ call' = begin(Raised)
      \/ IsValid(kind, config) /\ rows # None /\ call' = [begin(None) EXCEPT !.rows = rows]
  BY DEF Extract
<1>2. /\ call'.kind = kind /\ call'.config = config /\ call'.answer = answer
      /\ call'.observations = <<>> /\ call' \in Calls'
  BY <1>1 DEF Calls
<1>3. AnswerRows' = rows
  BY <1>2 DEF AnswerRows
<1>4. rows # None => rows \in Seq(AnsweredRows(answer))
  BY RowsOfAnswer
<1>5. <<>> \in Seq(Observable')
  OBVIOUS
<1>6. CASE (~IsValid(kind, config) \/ rows = None) /\ call' = begin(Raised)
  <2>1. call'.result = Raised
    BY <1>6
  <2>2. ExtractsTheSelectedRows'
    BY <1>2, <1>3, <1>6, <2>1 DEF ExtractsTheSelectedRows
  <2> QED BY <1>2, <1>3, <1>4, <1>5, <2>1, <2>2, SelectorsAssumption DEF CallInv
<1>7. CASE call' = begin(Result("provider_error", <<>>))
  <2>1. call'.result = Result("provider_error", <<>>) /\ call'.result.outcome = "provider_error"
    BY <1>7 DEF Result
  <2>2. ExtractsTheSelectedRows'
    BY <2>1 DEF ExtractsTheSelectedRows
  <2> QED BY <1>2, <1>3, <1>4, <1>5, <2>1, <2>2, SelectorsAssumption DEF CallInv
<1>8. CASE /\ IsValid(kind, config) /\ rows # None
           /\ call' = [begin(None) EXCEPT !.rows = rows]
  <2>1. call'.rows = rows /\ call'.result = None
    BY <1>8
  <2>2. Len(rows) \in Nat /\ Len(rows) - Len(rows) = 0
    BY <1>4, <1>8
  <2>3. Progress(0)'
    <3>1. Selected(0)' = {}
      BY DEF Selected
    <3>2. InOrder(<<>>, {})'
      <4>1. DOMAIN <<>> = {}
        OBVIOUS
      <4>2. [i \in {} |-> 0] \in [DOMAIN <<>> -> {}]
        BY <4>1
      <4> QED BY <4>1, <4>2 DEF InOrder
    <3> QED BY <1>2, <3>1, <3>2 DEF Progress
  <2>4. Reading'
    BY <1>2, <1>3, <1>4, <1>8, <2>1, <2>2, <2>3 DEF Reading
  <2>5. ExtractsTheSelectedRows'
    BY <2>1 DEF ExtractsTheSelectedRows
  <2> QED BY <1>2, <1>3, <1>4, <1>5, <1>8, <2>4, <2>5 DEF CallInv
<1> QED BY <1>1, <1>6, <1>7, <1>8

\* A step that leaves the call as it is.
LEMMA CallFrame ==
  ASSUME CallInv, UNCHANGED call PROVE CallInv'
<1>1. /\ AnswerRows' = AnswerRows /\ \A k : ParsedRow(k)' = ParsedRow(k)
      /\ \A n : Selected(n)' = Selected(n) /\ Observable' = Observable
      /\ \A observations, selected :
           InOrder(observations, selected) => InOrder(observations, selected)'
  BY SameAnswer
<1>2. Reading => Reading'
  BY <1>1 DEF Reading, Progress
<1>3. ExtractsTheSelectedRows => ExtractsTheSelectedRows'
  BY <1>1 DEF ExtractsTheSelectedRows
<1> QED BY <1>1, <1>2, <1>3 DEF CallInv, Calls

\* How far a call that reads has come: the row to read next is one of the listing's.
LEMMA NextRow ==
  ASSUME CallInv, call # None, call.result = None, call.rows # <<>>,
         NEW n, n = Len(AnswerRows) - Len(call.rows)
  PROVE  /\ n \in Nat /\ Len(AnswerRows) \in Nat /\ n + 1 \in 1..Len(AnswerRows)
         /\ Len(call.rows) \in Nat \ {0}
         /\ Head(call.rows) = AnswerRows[n + 1] /\ Len(Tail(call.rows)) = Len(call.rows) - 1
         /\ Tail(call.rows) \in Seq(AnsweredRows(call.answer))
         /\ \A i \in 1..Len(Tail(call.rows)) : Tail(call.rows)[i] = AnswerRows[n + 1 + i]
<1>1. Reading /\ AnswerRows \in Seq(AnsweredRows(call.answer))
  BY DEF CallInv, Reading
<1>2. /\ call.rows \in Seq(AnsweredRows(call.answer)) /\ Len(call.rows) \in Nat \ {0}
      /\ Len(AnswerRows) \in Nat /\ Len(call.rows) <= Len(AnswerRows)
      /\ \A i \in 1..Len(call.rows) : call.rows[i] = AnswerRows[n + i]
  <2>1. call.rows \in Seq(AnsweredRows(call.answer)) /\ Len(call.rows) <= Len(AnswerRows)
    BY <1>1 DEF Reading
  <2>2. Len(call.rows) \in Nat \ {0}
    BY <2>1, EmptySeq
  <2>3. Len(AnswerRows) \in Nat
    BY <1>1, LenProperties
  <2> QED BY <1>1, <2>1, <2>2, <2>3 DEF Reading
<1>3. n \in Nat /\ n + 1 \in 1..Len(AnswerRows)
  BY <1>2
<1>4. Head(call.rows) = AnswerRows[n + 1]
  <2>1. Head(call.rows) = call.rows[1]
    BY <1>2
  <2>2. 1 \in 1..Len(call.rows)
    BY <1>2
  <2>3. call.rows[1] = AnswerRows[n + 1]
    BY <1>2, <2>2
  <2> QED BY <2>1, <2>3
<1>5. /\ Tail(call.rows) \in Seq(AnsweredRows(call.answer)) /\ Len(Tail(call.rows)) = Len(call.rows) - 1
      /\ \A i \in 1..Len(Tail(call.rows)) : Tail(call.rows)[i] = call.rows[i + 1]
  BY <1>2, HeadTailProperties
<1>6. ASSUME NEW i \in 1..Len(Tail(call.rows))
      PROVE  Tail(call.rows)[i] = AnswerRows[n + 1 + i]
  <2>1. i + 1 \in 1..Len(call.rows) /\ n + (i + 1) = n + 1 + i
    BY <1>2, <1>3, <1>5
  <2>2. Tail(call.rows)[i] = call.rows[i + 1]
    BY <1>5
  <2> QED BY <1>2, <2>1, <2>2
<1> QED BY <1>2, <1>3, <1>4, <1>5, <1>6

\* A call that has read a row and goes on.
LEMMA Advance ==
  ASSUME CallInv, call # None, call.result = None, call.rows # <<>>,
         NEW n, n = Len(AnswerRows) - Len(call.rows),
         call' \in Calls', call'.kind = call.kind, call'.config = call.config,
         call'.answer = call.answer, call'.result = None, call'.rows = Tail(call.rows),
         call'.observations \in Seq(Observable), Progress(n + 1)'
  PROVE  CallInv'
<1>1. /\ n \in Nat /\ Len(AnswerRows) \in Nat /\ n + 1 \in 1..Len(AnswerRows)
      /\ Len(call.rows) \in Nat \ {0} /\ Len(Tail(call.rows)) = Len(call.rows) - 1
      /\ Tail(call.rows) \in Seq(AnsweredRows(call.answer))
      /\ \A i \in 1..Len(Tail(call.rows)) : Tail(call.rows)[i] = AnswerRows[n + 1 + i]
  BY NextRow
<1>2. AnswerRows' = AnswerRows /\ Observable' = Observable
  BY SameAnswer
<1>3. Len(call'.rows) \in Nat /\ Len(AnswerRows') - Len(call'.rows) = n + 1
  <2>1. PICK l \in Nat : l = Len(call.rows) /\ l # 0
    BY NextRow
  <2>2. PICK a \in Nat : a = Len(AnswerRows)
    BY <1>1
  <2>3. n = a - l
    BY <2>1, <2>2
  <2>4. l - 1 \in Nat /\ a - (l - 1) = n + 1
    <3>1. \A x, y \in Nat : y # 0 => y - 1 \in Nat /\ x - (y - 1) = (x - y) + 1
      OBVIOUS
    <3> QED BY <2>1, <2>3, <3>1
  <2>5. Len(call'.rows) = l - 1 /\ Len(AnswerRows') = a
    BY <1>1, <1>2, <2>1, <2>2
  <2> QED BY <2>4, <2>5
<1>4. Reading'
  <2>1. IsValid(call.kind, call.config) /\ AnswerRows # None
    BY DEF CallInv, Reading
  <2>2. IsValid(call.kind, call.config)'
    BY <2>1 DEF IsValid, IsComplete
  <2>3. Len(call'.rows) <= Len(AnswerRows')
    BY <1>1, <1>2, <1>3
  <2>4. \A i \in 1..Len(call'.rows) :
          call'.rows[i] = AnswerRows'[Len(AnswerRows') - Len(call'.rows) + i]
    BY <1>1, <1>2, <1>3
  <2>5. Progress(Len(AnswerRows) - Len(call.rows))'
    BY <1>3
  <2> QED BY <1>1, <1>2, <2>1, <2>2, <2>3, <2>4, <2>5 DEF Reading
<1>5. ExtractsTheSelectedRows'
  BY DEF ExtractsTheSelectedRows
<1> QED BY <1>2, <1>4, <1>5 DEF CallInv, Reading

\* One more row is selected, or none.
LEMMA SelectedNext ==
  ASSUME NEW n \in Nat
  PROVE  Selected(n + 1) = IF ParsedRow(n + 1).status = "skip" THEN Selected(n)
                                                              ELSE Selected(n) \cup {n + 1}
<1>1. 1..(n + 1) = 1..n \cup {n + 1}
  OBVIOUS
<1> QED BY <1>1 DEF Selected

\* One more observation, of the next row.
LEMMA ObservedNext ==
  ASSUME NEW n \in Nat, NEW observations, NEW S, observations \in Seq(S), NEW o \in S,
         InOrder(observations, Selected(n)), o = ParsedRow(n + 1).observation
  PROVE  InOrder(Append(observations, o), Selected(n) \cup {n + 1})
<1> DEFINE m == Len(observations)
           new == Append(observations, o)
<1>1. PICK row \in [DOMAIN observations -> Selected(n)] :
        /\ \A i, j \in DOMAIN observations : i < j => row[i] < row[j]
        /\ \A k \in Selected(n) : \E i \in DOMAIN observations : row[i] = k
        /\ \A i \in DOMAIN observations : observations[i] = ParsedRow(row[i]).observation
  BY DEF InOrder
<1> DEFINE row2 == [i \in 1..(m + 1) |-> IF i = m + 1 THEN n + 1 ELSE row[i]]
<1>2. m \in Nat /\ DOMAIN observations = 1..m /\ DOMAIN new = 1..(m + 1)
      /\ new[m + 1] = o /\ \A i \in 1..m : new[i] = observations[i]
  OBVIOUS
<1>3. \A k \in Selected(n) : k \in Nat /\ k < n + 1
  BY DEF Selected
<1>4. \A i \in 1..m : row2[i] = row[i] /\ row[i] \in Selected(n)
  BY <1>1, <1>2
<1>5. row2[m + 1] = n + 1 /\ DOMAIN row2 = 1..(m + 1)
  BY <1>2
<1>6. 1..(m + 1) = 1..m \cup {m + 1}
  BY <1>2
<1>7. row2 \in [1..(m + 1) -> Selected(n) \cup {n + 1}]
  BY <1>4, <1>5, <1>6
<1> HIDE DEF row2, new, m
<1>8. \A i, j \in 1..(m + 1) : i < j => row2[i] < row2[j]
  <2> SUFFICES ASSUME NEW i \in 1..(m + 1), NEW j \in 1..(m + 1), i < j PROVE row2[i] < row2[j]
    OBVIOUS
  <2>1. i \in 1..m
    BY <1>2
  <2>2. CASE j = m + 1
    BY <1>3, <1>4, <1>5, <2>1, <2>2
  <2>3. CASE j \in 1..m
    BY <1>1, <1>2, <1>4, <2>1, <2>3
  <2> QED BY <1>6, <2>2, <2>3
<1>9. \A k \in Selected(n) \cup {n + 1} : \E i \in 1..(m + 1) : row2[i] = k
  BY <1>1, <1>2, <1>4, <1>5, <1>6
<1>10. \A i \in 1..(m + 1) : new[i] = ParsedRow(row2[i]).observation
  BY <1>1, <1>2, <1>4, <1>5, <1>6
<1>11. DOMAIN new = 1..(m + 1)
  BY <1>2
<1> HIDE <1>2
<1>12. /\ row2 \in [DOMAIN new -> Selected(n) \cup {n + 1}]
       /\ \A i, j \in DOMAIN new : i < j => row2[i] < row2[j]
       /\ \A k \in Selected(n) \cup {n + 1} : \E i \in DOMAIN new : row2[i] = k
       /\ \A i \in DOMAIN new : new[i] = ParsedRow(row2[i]).observation
  BY <1>7, <1>8, <1>9, <1>10, <1>11
<1>13. InOrder(new, Selected(n) \cup {n + 1})
  BY <1>12 DEF InOrder
<1> QED BY <1>13 DEF new

\* A row that is read.
LEMMA ReadRowStep ==
  ASSUME CallInv, ReadRow PROVE CallInv'
<1>0. PICK n : n = Len(AnswerRows) - Len(call.rows)
  OBVIOUS
<1> DEFINE row == Parsed(call.kind, call.config, Head(call.rows))
<1>1. /\ call \in Calls /\ call.result = None /\ call.rows # <<>> /\ call # None
      /\ Reading /\ call.observations \in Seq(Observable)
  BY DEF CallInv, ReadRow
<1>2. n \in Nat /\ Len(AnswerRows) \in Nat /\ n + 1 \in 1..Len(AnswerRows)
  BY <1>0, <1>1, NextRow
<1>3. row = ParsedRow(n + 1)
  BY <1>0, <1>1, NextRow DEF ParsedRow
<1>4. row.status \in {"bad", "skip", "observed"}
  BY <1>1, StatusOfRow DEF Calls
<1>5. Progress(n)
  BY <1>0, <1>1 DEF Reading
<1>6. CASE row.status = "bad"
  <2>1. call' = [call EXCEPT !.result = Raised]
    BY <1>6 DEF ReadRow
  <2>2. /\ call' \in Calls' /\ call'.kind = call.kind /\ call'.config = call.config
        /\ call'.answer = call.answer /\ call'.observations = call.observations
        /\ call'.result = Raised
    BY <1>1, <2>1 DEF Calls
  <2>3. /\ AnswerRows' = AnswerRows /\ \A k : ParsedRow(k)' = ParsedRow(k)
        /\ \A m : Selected(m)' = Selected(m) /\ Observable' = Observable
    BY <2>2, SameAnswer
  <2>4. n + 1 \in Selected(Len(AnswerRows)) /\ ParsedRow(n + 1).status = "bad"
    BY <1>2, <1>3, <1>6 DEF Selected
  <2>5. ExtractsTheSelectedRows'
    BY <1>1, <2>2, <2>3, <2>4 DEF ExtractsTheSelectedRows, Reading
  <2>6. call'.result # None
    BY <2>2, SelectorsAssumption
  <2> HIDE DEF row
  <2> QED BY <1>1, <2>2, <2>3, <2>5, <2>6 DEF CallInv, Reading
<1>7. CASE row.status = "skip"
  <2>1. call' = [call EXCEPT !.rows = Tail(@)]
    BY <1>7 DEF ReadRow
  <2>2. /\ call' \in Calls' /\ call'.kind = call.kind /\ call'.config = call.config
        /\ call'.answer = call.answer /\ call'.observations = call.observations
        /\ call'.result = None /\ call'.rows = Tail(call.rows)
    BY <1>1, <2>1 DEF Calls
  <2>3. Selected(n + 1) = Selected(n)
    BY <1>2, <1>3, <1>7, SelectedNext
  <2>4. /\ \A k : ParsedRow(k)' = ParsedRow(k) /\ Selected(n + 1)' = Selected(n + 1)
        /\ \A o, selected : InOrder(o, selected) => InOrder(o, selected)'
    BY <2>2, SameAnswer
  <2>5. Progress(n + 1)'
    BY <1>5, <2>2, <2>3, <2>4 DEF Progress
  <2> HIDE DEF row
  <2> QED BY <1>0, <1>1, <2>2, <2>5, Advance
<1>8. CASE row.status = "observed"
  <2>1. call' = [call EXCEPT !.rows = Tail(@), !.observations = Append(@, row.observation)]
    BY <1>8 DEF ReadRow
  <2>2. /\ call' \in Calls' /\ call'.kind = call.kind /\ call'.config = call.config
        /\ call'.answer = call.answer
        /\ call'.observations = Append(call.observations, row.observation)
        /\ call'.result = None /\ call'.rows = Tail(call.rows)
    BY <1>1, <2>1 DEF Calls
  <2>3. Selected(n + 1) = Selected(n) \cup {n + 1}
    BY <1>2, <1>3, <1>8, SelectedNext
  <2>4. row.observation \in Observable
    <3>1. DOMAIN AnswerRows = 1..Len(AnswerRows)
      BY <1>1 DEF CallInv, Reading
    <3> QED BY <1>2, <1>3, <1>8, <3>1 DEF Observable
  <2> HIDE DEF row
  <2>5. InOrder(Append(call.observations, row.observation), Selected(n + 1))
    BY <1>1, <1>2, <1>3, <1>5, <2>3, <2>4, ObservedNext DEF Progress
  <2>6. /\ \A k : ParsedRow(k)' = ParsedRow(k) /\ Selected(n + 1)' = Selected(n + 1)
        /\ \A o, selected : InOrder(o, selected) => InOrder(o, selected)'
    BY <2>2, SameAnswer
  <2>7. Progress(n + 1)'
    <3>1. \A k \in Selected(n + 1) : ParsedRow(k).status = "observed"
      BY <1>3, <1>5, <1>8, <2>3 DEF Progress
    <3>2. InOrder(call.observations, Selected(n + 1))'
      BY <2>2, <2>5, <2>6
    <3>3. \A k \in Selected(n + 1)' : ParsedRow(k)'.status = "observed"
      BY <2>6, <3>1
    <3> QED BY <3>2, <3>3 DEF Progress
  <2>8. call'.observations \in Seq(Observable)
    BY <1>1, <2>2, <2>4
  <2> QED BY <1>0, <1>1, <2>2, <2>7, <2>8, Advance
<1> QED BY <1>4, <1>6, <1>7, <1>8

\* The end of the listing.
LEMMA ReadAllStep ==
  ASSUME CallInv, ReadAll PROVE CallInv'
<1> DEFINE result == IF call.observations = <<>> THEN Result("empty", <<>>)
                                                 ELSE Result("data", call.observations)
<1>1. /\ call \in Calls /\ call.result = None /\ call.rows = <<>> /\ call # None
      /\ Reading /\ call.observations \in Seq(Observable)
      /\ AnswerRows \in Seq(AnsweredRows(call.answer))
  BY DEF CallInv, ReadAll, Reading
<1>2. call' = [call EXCEPT !.result = result]
  BY DEF ReadAll
<1> HIDE DEF result
<1>3. /\ call' \in Calls' /\ call'.kind = call.kind /\ call'.config = call.config
      /\ call'.answer = call.answer /\ call'.observations = call.observations
      /\ call'.result = result /\ call'.rows = <<>>
  BY <1>1, <1>2 DEF Calls
<1>4. PICK n \in Nat : n = Len(AnswerRows)
  BY <1>1, LenProperties
<1>5. Progress(n)
  <2>1. Len(call.rows) = 0
    BY <1>1, EmptySeq
  <2>2. Len(AnswerRows) - Len(call.rows) = n
    BY <1>4, <2>1
  <2> QED BY <1>1, <2>2 DEF Reading
<1>6. /\ AnswerRows' = AnswerRows /\ \A k : ParsedRow(k)' = ParsedRow(k)
      /\ \A m : Selected(m)' = Selected(m) /\ Observable' = Observable
      /\ \A o, selected : InOrder(o, selected) => InOrder(o, selected)'
  BY <1>3, SameAnswer
<1>7. Selected(n) = {} <=> call.observations = <<>>
  <2>1. PICK row \in [DOMAIN call.observations -> Selected(n)] :
          \A k \in Selected(n) : \E i \in DOMAIN call.observations : row[i] = k
    BY <1>5 DEF Progress, InOrder
  <2>2. DOMAIN call.observations = 1..Len(call.observations)
    BY <1>1, LenProperties
  <2>3. CASE call.observations = <<>>
    <3>1. DOMAIN call.observations = {}
      BY <2>3
    <3> QED BY <2>1, <2>3, <3>1
  <2>4. CASE call.observations # <<>>
    <3>1. Len(call.observations) \in Nat \ {0}
      BY <1>1, <2>4, EmptySeq
    <3>2. 1 \in DOMAIN call.observations
      BY <2>2, <3>1
    <3> QED BY <2>1, <2>4, <3>2
  <2> QED BY <2>3, <2>4
<1>8. ~\E k \in Selected(n) : ParsedRow(k).status = "bad"
  BY <1>5 DEF Progress
<1>9. IsValid(call.kind, call.config) /\ AnswerRows # None
  BY <1>1 DEF Reading
<1>10. ExtractsTheSelectedRows'
  <2>1. IsValid(call'.kind, call'.config) /\ AnswerRows' # None
    BY <1>3, <1>6, <1>9
  <2>2. Len(AnswerRows') = n /\ Selected(n)' = Selected(n)
    BY <1>4, <1>6
  <2>3. ~\E k \in Selected(n)' : ParsedRow(k)'.status = "bad"
    BY <1>6, <1>8
  <2>4. CASE call.observations = <<>>
    <3>1. Selected(n)' = {} /\ call'.result = Result("empty", <<>>)
      BY <1>3, <1>7, <2>2, <2>4 DEF result
    <3> QED BY <2>1, <2>2, <2>3, <3>1 DEF ExtractsTheSelectedRows
  <2>5. CASE call.observations # <<>>
    <3>1. Selected(n)' # {} /\ call'.result = Result("data", call.observations)
      BY <1>3, <1>7, <2>2, <2>5 DEF result
    <3>2. call'.result.outcome = "data" /\ call'.result.observations = call.observations
      BY <3>1 DEF Result
    <3>3. InOrder(call.observations, Selected(n))'
      BY <1>3, <1>5, <1>6 DEF Progress
    <3>4. InOrder(call.result.observations, Selected(n))'
      BY <1>3, <3>2, <3>3
    <3> QED BY <2>1, <2>2, <2>3, <3>1, <3>2, <3>4 DEF ExtractsTheSelectedRows
  <2> QED BY <2>4, <2>5
<1>11. Reading'
  <2>1. Progress(n)'
    <3>1. InOrder(call.observations, Selected(n))'
      BY <1>3, <1>5, <1>6 DEF Progress
    <3>2. \A k \in Selected(n)' : ParsedRow(k)'.status = "observed"
      BY <1>5, <1>6 DEF Progress
    <3> QED BY <3>1, <3>2 DEF Progress
  <2>2. Len(<<>>) = 0 /\ <<>> \in Seq(AnsweredRows(call.answer))
    BY EmptySeq
  <2>3. Len(AnswerRows') - Len(call'.rows) = n
    BY <1>3, <1>4, <1>6, <2>2
  <2>4. Progress(Len(AnswerRows) - Len(call.rows))'
    BY <2>1, <2>3
  <2>5. IsValid(call.kind, call.config)' /\ AnswerRows' # None
    BY <1>3, <1>6, <1>9 DEF IsValid, IsComplete
  <2>6. /\ call'.rows \in Seq(AnsweredRows(call'.answer)) /\ Len(call'.rows) <= Len(AnswerRows')
        /\ 1..Len(call'.rows) = {}
    BY <1>3, <1>4, <1>6, <2>2
  <2> QED BY <2>4, <2>5, <2>6 DEF Reading, AnsweredRows
<1>12. AnswerRows' \in Seq(AnsweredRows(call'.answer))
  BY <1>1, <1>3, <1>6
<1>13. call'.observations \in Seq(Observable')
  BY <1>1, <1>3, <1>6
<1>14. IsValid(call.kind, call.config)' /\ AnswerRows' # None
  BY <1>3, <1>6, <1>9 DEF IsValid, IsComplete
<1> QED BY <1>3, <1>10, <1>11, <1>12, <1>13, <1>14 DEF CallInv, AnsweredRows

\* The other steps end the call, or are not of extract.
LEMMA CallStep ==
  ASSUME CallInv, [Next]_selectorVars PROVE CallInv'
<1>1. ASSUME NEW kind \in Kinds, NEW config \in Configs, NEW answer \in Answers,
             Extract(kind, config, answer)
      PROVE  CallInv'
  BY <1>1, ExtractStep
<1>2. CASE ReadRow
  BY <1>2, ReadRowStep
<1>3. CASE ReadAll
  BY <1>3, ReadAllStep
<1>4. CASE Return
  BY <1>4 DEF Return, CallInv
<1>5. ASSUME NEW text \in Texts, Prepare(text) PROVE CallInv'
  BY <1>5, CallFrame DEF Prepare
<1>6. CASE CompressChar
  BY <1>6, CallFrame DEF CompressChar
<1>7. CASE Compressed
  BY <1>7, CallFrame DEF Compressed
<1>8. CASE Serve \/ Served
  BY <1>8, CallFrame DEF Serve, Served
<1>9. CASE UNCHANGED selectorVars
  BY <1>9, CallFrame DEF selectorVars
<1> QED BY <1>1, <1>2, <1>3, <1>4, <1>5, <1>6, <1>7, <1>8, <1>9 DEF Next

\* What a call has observed is always what it has read of the answer, in its order.
THEOREM CallsAreRead == Spec => []CallInv
<1>1. Init => CallInv
  BY DEF Init, CallInv
<1> QED BY <1>1, CallStep, PTL DEF Spec

\* extract gives every selected row of the answer, in its order, or raises: whatever the
\* answer, however many its rows.
THEOREM EverySelectedRow == Spec => []ExtractsTheSelectedRows
<1>1. CallInv => ExtractsTheSelectedRows
  BY DEF CallInv, ExtractsTheSelectedRows
<1> QED BY <1>1, CallsAreRead, PTL

-------------------------------------------------------------------------------
(* The periods of a listing *)

\* What a selector reads as a date is one, or it reads none.
LEMMA DateRead ==
  ASSUME NEW answer \in Answers, NEW i \in DOMAIN answer.rows,
         NEW time, time = answer.rows[i].time
  PROVE  \A date \in {IsoDate(time), CenstatdDate(time), EstatDate(time)} :
           date = None \/ IsDate(date)
<1>1. /\ time.form \in {"date", "basic"} => IsDate(time.date)
      /\ time.form = "month" => IsDate(Date(time.year, time.month, 1))
  BY SelectorsAssumption
<1>2. \A date : DateOrNone(date) = None \/ IsDate(DateOrNone(date))
  BY DEF DateOrNone
<1>3. IsoDate(time) = None \/ IsDate(IsoDate(time))
  BY <1>1, <1>2 DEF IsoDate
<1>4. CenstatdDate(time) = None \/ IsDate(CenstatdDate(time))
  BY <1>1, <1>3 DEF CenstatdDate
<1>5. EstatDate(time) = None \/ IsDate(EstatDate(time))
  BY <1>2, <1>3 DEF EstatDate
<1> QED BY <1>3, <1>4, <1>5

\* A row that is observed has a date, and its observation the period of that date.
LEMMA ObservedRow ==
  ASSUME NEW kind \in Kinds, NEW config, NEW answer \in Answers, NEW i \in DOMAIN answer.rows,
         NEW row, row = Parsed(kind, config, answer.rows[i]), row.status = "observed"
  PROVE  /\ IsDate(row.date)
         /\ row.observation.start = PeriodBounds(row.date, config.frequency).start
         /\ row.observation.end = PeriodBounds(row.date, config.frequency).end
<1> DEFINE time == answer.rows[i].time
           dates == {IsoDate(time), CenstatdDate(time), EstatDate(time)}
<1>1. PICK date \in dates : \E value, vintage : row = Observed(config, date, value, vintage)
  <2>1. Bad.status # "observed" /\ Skip.status # "observed"
    BY DEF Bad, Skip
  <2>2. CASE kind = "json_path"
    BY <2>1, <2>2 DEF Parsed, JsonPathRow
  <2>3. CASE kind = "csv_column"
    BY <2>1, <2>3 DEF Parsed, CsvColumnRow
  <2>4. CASE kind = "censtatd_json"
    BY <2>1, <2>4 DEF Parsed, CenstatdJsonRow
  <2>5. CASE kind = "estat_value_filter"
    BY <2>1, <2>5 DEF Parsed, EstatValueRow
  <2> QED BY <2>2, <2>3, <2>4, <2>5 DEF Kinds
<1>2. PICK value, vintage : row = Observed(config, date, value, vintage)
  BY <1>1
<1>3. date # None /\ row = [status |-> "observed", date |-> date,
        observation |-> [start |-> PeriodBounds(date, config.frequency).start,
                         end |-> PeriodBounds(date, config.frequency).end,
                         value |-> value, vintage |-> vintage]]
  BY <1>2 DEF Observed, Bad
<1>4. IsDate(date)
  BY <1>1, <1>3, DateRead
<1> QED BY <1>3, <1>4

\* Of two dates one is not after the other.
LEMMA DatesOrdered ==
  ASSUME NEW d, IsDate(d), NEW e, IsDate(e)
  PROVE  NotAfter(d, e) \/ NotAfter(e, d)
<1>1. d.year \in Nat /\ d.month \in Nat /\ e.year \in Nat /\ e.month \in Nat
  BY DEF IsDate
<1>2. d.day \in Int /\ e.day \in Int
  <2>1. \A x \in Nat \ {0}, m \in 1..12 : MonthLength(x, m) \in 28..31
    BY DEF MonthLength
  <2> QED BY <2>1 DEF IsDate
<1> QED BY <1>1, <1>2 DEF NotAfter

\* Two periods with a day in common have the later of their first days in common.
LEMMA PeriodsMeet ==
  ASSUME NEW d, IsDate(d), NEW e, IsDate(e), NEW f \in Frequencies \ {"W"},
         NEW p, p = PeriodBounds(d, f), NEW q, q = PeriodBounds(e, f),
         NotAfter(q.start, p.end), NotAfter(p.start, q.end)
  PROVE  p = q
<1>1. /\ IsDate(p.start) /\ IsDate(p.end) /\ Within(d, p)
      /\ IsDate(q.start) /\ IsDate(q.end) /\ Within(e, q)
  BY PeriodContainsItsDate
<1>2. NotAfter(p.start, p.start) /\ NotAfter(q.start, q.start)
  BY <1>1, DatesOrdered
<1>3. NotAfter(p.start, p.end) /\ NotAfter(q.start, q.end)
  <2>1. \A a, b, c : IsDate(a) /\ IsDate(b) /\ IsDate(c) /\ NotAfter(a, b) /\ NotAfter(b, c)
          => NotAfter(a, c)
    <3>1. \A x \in Nat \ {0}, m \in 1..12 : MonthLength(x, m) \in 28..31
      BY DEF MonthLength
    <3>2. \A a : IsDate(a) => a.year \in Nat /\ a.month \in Nat /\ a.day \in Int
      BY <3>1 DEF IsDate
    <3> QED BY <3>2 DEF NotAfter
  <2> QED BY <1>1, <2>1 DEF Within
<1>4. CASE NotAfter(p.start, q.start)
  <2>1. Within(q.start, p) /\ Within(q.start, q)
    BY <1>2, <1>3, <1>4 DEF Within
  <2> QED BY <1>1, <2>1, PeriodsPart
<1>5. CASE NotAfter(q.start, p.start)
  <2>1. Within(p.start, p) /\ Within(p.start, q)
    BY <1>2, <1>3, <1>5 DEF Within
  <2> QED BY <1>1, <2>1, PeriodsPart
<1> QED BY <1>1, <1>4, <1>5, DatesOrdered

LEMMA CallInvParts ==
  CallInv => PeriodsPartitionDates
<1> SUFFICES ASSUME CallInv, call # None, call.observations # <<>> PROVE PeriodsPartitionDates
  BY DEF PeriodsPartitionDates
<1> DEFINE f == call.config.frequency
<1>1. /\ call \in Calls /\ IsValid(call.kind, call.config) /\ AnswerRows # None
      /\ call.observations \in Seq(Observable)
  BY DEF CallInv
<1>2. call.kind \in Kinds /\ call.answer \in Answers
  BY <1>1 DEF Calls
<1>3. f \in Frequencies
  BY <1>1 DEF IsValid, IsComplete
<1>4. ASSUME NEW p \in Observable
      PROVE  \E k \in DOMAIN AnswerRows :
               /\ ParsedRow(k).status = "observed" /\ ParsedRow(k).observation = p
               /\ IsDate(ParsedRow(k).date)
               /\ p.start = PeriodBounds(ParsedRow(k).date, f).start
               /\ p.end = PeriodBounds(ParsedRow(k).date, f).end
  <2>1. PICK k \in DOMAIN AnswerRows :
          ParsedRow(k).status = "observed" /\ ParsedRow(k).observation = p
    BY DEF Observable
  <2>2. k \in DOMAIN call.answer.rows /\ AnswerRows[k] = call.answer.rows[k]
    BY <1>1, <1>2, <2>1, RowsOfAnswer DEF AnswerRows
  <2>3. ParsedRow(k) = Parsed(call.kind, call.config, call.answer.rows[k])
    BY <2>2 DEF ParsedRow
  <2>4. /\ IsDate(ParsedRow(k).date)
        /\ ParsedRow(k).observation.start = PeriodBounds(ParsedRow(k).date, f).start
        /\ ParsedRow(k).observation.end = PeriodBounds(ParsedRow(k).date, f).end
    BY <1>2, <2>1, <2>2, <2>3, ObservedRow
  <2> QED BY <2>1, <2>4
<1>5. \A i \in DOMAIN call.observations : call.observations[i] \in Observable
  BY <1>1, LenProperties
<1> HIDE DEF f
<1>6. ASSUME NEW i \in DOMAIN call.observations, NEW p, p = call.observations[i]
      PROVE  \E k \in DOMAIN AnswerRows :
               /\ ParsedRow(k).status = "observed" /\ ParsedRow(k).observation = p
               /\ NotAfter(p.start, ParsedRow(k).date) /\ NotAfter(ParsedRow(k).date, p.end)
  <2>1. PICK k \in DOMAIN AnswerRows :
          /\ ParsedRow(k).status = "observed" /\ ParsedRow(k).observation = p
          /\ IsDate(ParsedRow(k).date)
          /\ p.start = PeriodBounds(ParsedRow(k).date, f).start
          /\ p.end = PeriodBounds(ParsedRow(k).date, f).end
    BY <1>4, <1>5, <1>6
  <2>2. Within(ParsedRow(k).date, PeriodBounds(ParsedRow(k).date, f))
    BY <1>3, <2>1, PeriodContainsItsDate
  <2> QED BY <2>1, <2>2 DEF Within
<1>7. ASSUME f # "W", NEW i \in DOMAIN call.observations, NEW j \in DOMAIN call.observations,
             NEW p, p = call.observations[i], NEW q, q = call.observations[j],
             NotAfter(q.start, p.end), NotAfter(p.start, q.end)
      PROVE  p.start = q.start /\ p.end = q.end
  <2>1. PICK d : /\ IsDate(d) /\ p.start = PeriodBounds(d, f).start
                 /\ p.end = PeriodBounds(d, f).end
    BY <1>4, <1>5, <1>7
  <2>2. PICK e : /\ IsDate(e) /\ q.start = PeriodBounds(e, f).start
                 /\ q.end = PeriodBounds(e, f).end
    BY <1>4, <1>5, <1>7
  <2>3. PeriodBounds(d, f) = PeriodBounds(e, f)
    BY <1>3, <1>7, <2>1, <2>2, PeriodsMeet
  <2> QED BY <2>1, <2>2, <2>3
<1> QED BY <1>6, <1>7 DEF PeriodsPartitionDates, f

\* Every observation's period contains the date of its row, and the periods of a listing
\* are the same or have no day in common: whatever dates the provider gives.
THEOREM ListingsPart == Spec => []PeriodsPartitionDates
BY CallsAreRead, CallInvParts, PTL
-------------------------------------------------------------------------------
(***************************************************************************)
(* The compressed query                                                    *)
(***************************************************************************)

(* Recursion over numbers *)

\* A set of numbers that is not empty has a least one.
LEMMA LeastOf ==
  ASSUME NEW S \in SUBSET Nat, S # {}
  PROVE  \E i \in S : \A j \in S : i <= j
<1>1. PICK i \in S : \A j \in S : <<j, i>> \notin OpToRel(<, Nat)
  BY NatLessThanWellFounded, WFMin, Zenon
<1>2. ASSUME NEW j \in S, ~(i <= j) PROVE FALSE
  <2>1. <<j, i>> \in {ss \in Nat \X Nat : ss[1] < ss[2]} BY <1>2
  <2> QED BY <1>1, <2>1 DEF OpToRel
<1> QED BY <1>2

Recurs(f, n, a, next) == f[0] = a /\ \A i \in 1..n : f[i] = next[i][f[i - 1]]

\* A recursion over 0..n that a table of next values gives.
LEMMA Recursion ==
  ASSUME NEW n \in Nat, NEW S, NEW a \in S, NEW next \in [1..n -> [S -> S]]
  PROVE  \E f \in [0..n -> S] : Recurs(f, n, a, next)
<1> USE DEF Recurs
<1> DEFINE Upto(m) == \E f \in [0..m -> S] : Recurs(f, m, a, next)
<1>1. Upto(0)
  <2>1. [i \in 0..0 |-> a] \in [0..0 -> S] /\ [i \in 0..0 |-> a][0] = a /\ 1..0 = {}
    OBVIOUS
  <2> QED BY <2>1
<1>2. ASSUME NEW m \in 1..n, Upto(m - 1) PROVE Upto(m)
  <2>4. PICK g \in [0..(m - 1) -> S] : g[0] = a /\ \A i \in 1..(m - 1) : g[i] = next[i][g[i - 1]]
    BY <1>2
  <2> DEFINE f == [i \in 0..m |-> IF i = m THEN next[m][g[m - 1]] ELSE g[i]]
  <2>5. f \in [0..m -> S]
    <3>1. next[m][g[m - 1]] \in S
      BY <2>4
    <3> QED BY <2>4, <3>1
  <2>6. f[0] = a /\ \A i \in 1..m : f[i] = next[i][f[i - 1]]
    BY <2>4
  <2> HIDE DEF f
  <2> QED BY <2>5, <2>6
<1> HIDE DEF Upto
<1> DEFINE Broken == {m \in 0..n : ~Upto(m)}
<1>3. Broken = {}
  <2> SUFFICES ASSUME Broken # {} PROVE FALSE
    OBVIOUS
  <2>1. Broken \in SUBSET Nat
    OBVIOUS
  <2>2. PICK m \in Broken : \A k \in Broken : m <= k
    BY <2>1, LeastOf
  <2>3. m # 0
    BY <1>1, <2>2
  <2>4. m - 1 \in 0..n /\ m - 1 \notin Broken /\ m \in 1..n
    BY <2>2, <2>3
  <2> QED BY <1>2, <2>2, <2>4
<1>4. Upto(n)
  BY <1>3
<1> QED BY <1>4 DEF Upto

-------------------------------------------------------------------------------
(* Powers of two *)

Power(f, n) == f = [i \in 0..n |-> IF i = 0 THEN 1 ELSE 2 * f[i - 1]]
Doubles(f, n) == f[0] = 1 /\ \A i \in 1..n : f[i] = 2 * f[i - 1]

\* A power of two is what doubling gives.
LEMMA PowerIs ==
  ASSUME NEW n \in Nat
  PROVE  \E f \in [0..n -> Nat] : TwoTo(n) = f[n] /\ Doubles(f, n)
<1> DEFINE next == [i \in 1..n |-> [x \in Nat |-> 2 * x]]
<1>1. next \in [1..n -> [Nat -> Nat]] /\ 1 \in Nat
  OBVIOUS
<1>2. PICK g \in [0..n -> Nat] : Recurs(g, n, 1, next)
  <2> HIDE DEF next
  <2> QED BY <1>1, Recursion
<1>3. ASSUME NEW i \in 0..n PROVE g[i] = IF i = 0 THEN 1 ELSE 2 * g[i - 1]
  <2>1. CASE i = 0
    BY <1>2, <2>1 DEF Recurs
  <2>2. CASE i # 0
    <3>1. i \in 1..n /\ i - 1 \in 0..n
      BY <2>2
    <3>2. g[i - 1] \in Nat /\ g[i] = next[i][g[i - 1]]
      BY <1>2, <3>1 DEF Recurs
    <3> QED BY <2>2, <3>1, <3>2
  <2> QED BY <2>1, <2>2
<1>4. Power(g, n)
  BY <1>3 DEF Power
<1> DEFINE f == CHOOSE x : Power(x, n)
<1>5. Power(f, n)
  BY <1>4
<1>6. TwoTo(n) = f[n]
  BY DEF TwoTo, Power
<1> HIDE DEF f, next
<1>7. \A i \in 0..n : f[i] = IF i = 0 THEN 1 ELSE 2 * f[i - 1]
  BY <1>5 DEF Power
<1>8. f = g
  <2> DEFINE Broken == {i \in 0..n : f[i] # g[i]}
  <2>1. Broken = {}
    <3> SUFFICES ASSUME Broken # {} PROVE FALSE
      OBVIOUS
    <3>1. Broken \in SUBSET Nat
      OBVIOUS
    <3> HIDE DEF Broken
    <3>2. PICK i \in Broken : \A j \in Broken : i <= j
      BY <3>1, LeastOf
    <3>3. i \in 0..n /\ f[i] # g[i]
      BY <3>2 DEF Broken
    <3>4. i # 0
      BY <1>3, <1>7, <3>3
    <3>5. i - 1 \in 0..n /\ i - 1 \notin Broken /\ i \in 1..n
      BY <3>1, <3>2, <3>3, <3>4
    <3>6. f[i - 1] = g[i - 1]
      BY <3>5 DEF Broken
    <3> QED BY <1>3, <1>7, <3>3, <3>4, <3>6
  <2>2. DOMAIN f = 0..n /\ f = [i \in 0..n |-> f[i]]
    <3>1. f = [i \in 0..n |-> IF i = 0 THEN 1 ELSE 2 * f[i - 1]]
      BY <1>5 DEF Power
    <3>2. DOMAIN f = 0..n
      BY ONLY <3>1
    <3> QED BY ONLY <3>1, <3>2, <1>7
  <2>3. \A i \in 0..n : f[i] = g[i]
    BY <2>1
  <2>4. g = [i \in 0..n |-> g[i]]
    BY <1>2
  <2> QED BY <2>2, <2>3, <2>4
<1>9. Doubles(g, n)
  <2>1. \A i \in 1..n : i \in 0..n /\ i # 0
    OBVIOUS
  <2> QED BY <1>3, <2>1 DEF Doubles
<1> QED BY <1>6, <1>8, <1>9

\* Doubling gives one number, however far it goes on.
LEMMA DoublesSame ==
  ASSUME NEW n \in Nat, NEW m \in Nat, n <= m, NEW f, NEW g, Doubles(f, n), Doubles(g, m)
  PROVE  f[n] = g[n]
<1> DEFINE Broken == {i \in 0..n : f[i] # g[i]}
<1>1. Broken = {}
  <2> SUFFICES ASSUME Broken # {} PROVE FALSE
    OBVIOUS
  <2>1. Broken \in SUBSET Nat
    OBVIOUS
  <2> HIDE DEF Broken
  <2>2. PICK i \in Broken : \A j \in Broken : i <= j
    BY <2>1, LeastOf
  <2>3. i \in 0..n /\ f[i] # g[i]
    BY <2>2 DEF Broken
  <2>4. i # 0
    BY <2>3 DEF Doubles
  <2>5. i - 1 \in 0..n /\ i - 1 \notin Broken /\ i \in 1..n /\ i \in 1..m
    BY <2>1, <2>2, <2>3, <2>4
  <2>6. f[i - 1] = g[i - 1]
    BY <2>5 DEF Broken
  <2> QED BY <2>3, <2>5, <2>6 DEF Doubles
<1> QED BY <1>1

\* The powers of two, one from the other.
LEMMA TwoToNext ==
  /\ TwoTo(0) = 1
  /\ \A n \in Nat : TwoTo(n) \in Nat
  /\ \A n \in Nat : TwoTo(n + 1) = 2 * TwoTo(n)
<1>1. TwoTo(0) = 1
  <2>1. \E f \in [0..0 -> Nat] : TwoTo(0) = f[0] /\ Doubles(f, 0)
    BY PowerIs
  <2> QED BY <2>1 DEF Doubles
<1>2. ASSUME NEW n \in Nat PROVE TwoTo(n) \in Nat
  <2>1. \E f \in [0..n -> Nat] : TwoTo(n) = f[n] /\ Doubles(f, n)
    BY PowerIs
  <2> QED BY <2>1
<1>3. ASSUME NEW n \in Nat PROVE TwoTo(n + 1) = 2 * TwoTo(n)
  <2>1. PICK f \in [0..n -> Nat] : TwoTo(n) = f[n] /\ Doubles(f, n)
    BY PowerIs
  <2>2. n + 1 \in Nat
    OBVIOUS
  <2>3. PICK g \in [0..(n + 1) -> Nat] : TwoTo(n + 1) = g[n + 1] /\ Doubles(g, n + 1)
    BY <2>2, PowerIs
  <2>4. f[n] = g[n]
    BY <2>1, <2>2, <2>3, DoublesSame
  <2>5. g[n + 1] = 2 * g[n]
    BY <2>3 DEF Doubles
  <2> QED BY <2>1, <2>3, <2>4, <2>5
<1> QED BY <1>1, <1>2, <1>3

\* The powers that the widths of a first code and of a character give.
LEMMA TwoToEight ==
  TwoTo(8) = 256 /\ TwoTo(2) = 4
<1>1. TwoTo(1) = 2
  BY TwoToNext
<1>2. TwoTo(2) = 4
  BY <1>1, TwoToNext
<1>3. TwoTo(3) = 8
  BY <1>2, TwoToNext
<1>4. TwoTo(4) = 16
  BY <1>3, TwoToNext
<1>5. TwoTo(5) = 32
  BY <1>4, TwoToNext
<1>6. TwoTo(6) = 64
  BY <1>5, TwoToNext
<1>7. TwoTo(7) = 128
  BY <1>6, TwoToNext
<1> QED BY <1>2, <1>7, TwoToNext

\* Two bits and more tell four values apart.
LEMMA TwoToGrows ==
  ASSUME NEW n \in Nat, n >= 2
  PROVE  TwoTo(n) >= 4
<1> DEFINE Broken == {i \in Nat : i >= 2 /\ TwoTo(i) < 4}
<1>1. Broken = {}
  <2> SUFFICES ASSUME Broken # {} PROVE FALSE
    OBVIOUS
  <2>0. Broken \in SUBSET Nat
    OBVIOUS
  <2>1. PICK i \in Broken : \A j \in Broken : i <= j
    BY <2>0, LeastOf
  <2>2. i # 2
    BY <2>1, TwoToEight
  <2>3. i - 1 \in Nat /\ i - 1 >= 2 /\ i - 1 \notin Broken
    BY <2>1, <2>2
  <2>4. TwoTo(i - 1) \in Nat /\ TwoTo(i - 1) >= 4
    BY <2>3, TwoToNext
  <2>5. TwoTo((i - 1) + 1) = 2 * TwoTo(i - 1) /\ (i - 1) + 1 = i
    BY <2>3, TwoToNext
  <2> QED BY <2>1, <2>4, <2>5
<1>2. TwoTo(n) \in Nat
  BY TwoToNext
<1> QED BY <1>1, <1>2

-------------------------------------------------------------------------------
(* Values and their bits *)

Half(f, width, value) == f = [i \in 0..width |-> IF i = 0 THEN value ELSE f[i - 1] \div 2]
Halved(f, width, value) == f[0] = value /\ \A i \in 1..width : f[i] = f[i - 1] \div 2

\* The halves of a value are numbers, each half of the one before.
LEMMA HalvesAre ==
  ASSUME NEW value \in Nat, NEW width \in Nat
  PROVE  Halved(Halves(value, width), width, value) /\ \A i \in 0..width : Halves(value, width)[i] \in Nat
<1> DEFINE next == [i \in 1..width |-> [x \in Nat |-> x \div 2]]
<1>1. next \in [1..width -> [Nat -> Nat]]
  OBVIOUS
<1>2. PICK g \in [0..width -> Nat] : Recurs(g, width, value, next)
  <2> HIDE DEF next
  <2> QED BY <1>1, Recursion
<1>3. ASSUME NEW i \in 0..width PROVE g[i] = IF i = 0 THEN value ELSE g[i - 1] \div 2
  <2>1. CASE i = 0
    BY <1>2, <2>1 DEF Recurs
  <2>2. CASE i # 0
    <3>1. i \in 1..width /\ i - 1 \in 0..width
      BY <2>2
    <3>2. g[i - 1] \in Nat /\ g[i] = next[i][g[i - 1]]
      BY <1>2, <3>1 DEF Recurs
    <3> QED BY <2>2, <3>1, <3>2
  <2> QED BY <2>1, <2>2
<1>4. Half(g, width, value)
  BY <1>3 DEF Half
<1> DEFINE f == CHOOSE x : Half(x, width, value)
<1>5. Half(f, width, value)
  BY <1>4
<1>6. Halves(value, width) = f
  BY DEF Halves, Half
<1> HIDE DEF f, next
<1>7. \A i \in 0..width : f[i] = IF i = 0 THEN value ELSE f[i - 1] \div 2
  BY <1>5 DEF Half
<1>8. Halved(f, width, value)
  <2>1. \A i \in 1..width : i \in 0..width /\ i # 0
    OBVIOUS
  <2> QED BY <1>7, <2>1 DEF Halved
<1>9. \A i \in 0..width : f[i] \in Nat
  <2> DEFINE Broken == {i \in 0..width : f[i] \notin Nat}
  <2>1. Broken = {}
    <3> SUFFICES ASSUME Broken # {} PROVE FALSE
      OBVIOUS
    <3>1. Broken \in SUBSET Nat
      OBVIOUS
    <3> HIDE DEF Broken
    <3>2. PICK i \in Broken : \A j \in Broken : i <= j
      BY <3>1, LeastOf
    <3>3. i \in 0..width /\ f[i] \notin Nat
      BY <3>2 DEF Broken
    <3>4. i # 0
      BY <1>7, <3>3
    <3>5. i - 1 \in 0..width /\ i - 1 \notin Broken
      BY <3>1, <3>2, <3>3, <3>4
    <3>6. f[i - 1] \in Nat
      BY <3>5 DEF Broken
    <3> QED BY <1>7, <3>3, <3>4, <3>6
  <2> QED BY <2>1
<1> QED BY <1>6, <1>8, <1>9

AllBits(bits) == Len(bits) \in Nat /\ \A i \in 1..Len(bits) : bits[i] \in {0, 1}
Value(f, bits) == f = [n \in 0..Len(bits) |-> IF n = 0 THEN 0 ELSE 2 * f[n - 1] + bits[n]]
Valued(f, bits) == f[0] = 0 /\ \A i \in 1..Len(bits) : f[i] = 2 * f[i - 1] + bits[i]

\* The value of bits is what doubling and adding them gives.
LEMMA ValueIs ==
  ASSUME NEW bits, AllBits(bits)
  PROVE  \E f : /\ ValueOfBits(bits) = f[Len(bits)] /\ Valued(f, bits)
                /\ \A i \in 0..Len(bits) : f[i] \in Nat
<1> DEFINE n == Len(bits)
<1> DEFINE next == [i \in 1..n |-> [x \in Nat |-> 2 * x + bits[i]]]
<1>1. next \in [1..n -> [Nat -> Nat]] /\ n \in Nat /\ 0 \in Nat
  BY DEF AllBits
<1>2. PICK g \in [0..n -> Nat] : Recurs(g, n, 0, next)
  <2> HIDE DEF next, n
  <2> QED BY <1>1, Recursion
<1>3. ASSUME NEW i \in 0..n PROVE g[i] = IF i = 0 THEN 0 ELSE 2 * g[i - 1] + bits[i]
  <2> HIDE DEF n
  <2>1. CASE i = 0
    BY <1>2, <2>1 DEF Recurs
  <2>2. CASE i # 0
    <3>1. i \in 1..n /\ i - 1 \in 0..n
      BY <1>1, <2>2
    <3>2. g[i - 1] \in Nat /\ g[i] = next[i][g[i - 1]]
      BY <1>2, <3>1 DEF Recurs
    <3> QED BY <2>2, <3>1, <3>2
  <2> QED BY <2>1, <2>2
<1>4. Value(g, bits)
  BY <1>3 DEF Value
<1> DEFINE f == CHOOSE x : Value(x, bits)
<1>5. Value(f, bits)
  BY <1>4
<1>6. ValueOfBits(bits) = f[n]
  BY DEF ValueOfBits, Value
<1> HIDE DEF f, next
<1>7. \A i \in 0..n : f[i] = IF i = 0 THEN 0 ELSE 2 * f[i - 1] + bits[i]
  BY <1>5 DEF Value
<1>8. Valued(f, bits)
  <2>1. 0 \in 0..n /\ \A i \in 1..n : i \in 0..n /\ i # 0
    BY <1>1
  <2> QED BY <1>7, <2>1 DEF Valued
<1>9. \A i \in 0..n : f[i] \in Nat
  <2> DEFINE Broken == {i \in 0..n : f[i] \notin Nat}
  <2>1. Broken = {}
    <3> SUFFICES ASSUME Broken # {} PROVE FALSE
      OBVIOUS
    <3>1. Broken \in SUBSET Nat
      BY <1>1
    <3> HIDE DEF Broken
    <3>2. PICK i \in Broken : \A j \in Broken : i <= j
      BY <3>1, LeastOf
    <3>3. i \in 0..n /\ f[i] \notin Nat
      BY <3>2 DEF Broken
    <3>4. i # 0
      BY <1>7, <3>3
    <3>5. i - 1 \in 0..n /\ i - 1 \notin Broken /\ i \in 1..n
      BY <1>1, <3>1, <3>2, <3>3, <3>4
    <3>6. f[i - 1] \in Nat
      BY <3>5 DEF Broken
    <3>7. bits[i] \in {0, 1}
      BY <3>5 DEF AllBits
    <3> QED BY <1>7, <3>3, <3>4, <3>6, <3>7
  <2> QED BY <2>1
<1> QED BY <1>6, <1>8, <1>9

\* Bits read the highest first give the value whose bits were written the lowest first.
LEMMA ValueReadBack ==
  ASSUME NEW value \in Nat, NEW width \in Nat, value < TwoTo(width),
         NEW bits, Len(bits) = width,
         \A i \in 1..width : bits[i] = BitsOf(value, width)[width + 1 - i]
  PROVE  ValueOfBits(bits) = value
<1> DEFINE h == Halves(value, width)
<1>1. h[0] = value /\ (\A i \in 1..width : h[i] = h[i - 1] \div 2) /\ \A i \in 0..width : h[i] \in Nat
  BY HalvesAre DEF Halved
<1>2. \A i \in 1..width : bits[i] = h[width - i] % 2
  BY DEF BitsOf
<1> HIDE DEF h
<1>3. AllBits(bits)
  <2>1. \A i \in 1..width : width - i \in 0..width
    OBVIOUS
  <2>2. \A i \in 1..width : h[width - i] \in Nat
    BY <1>1, <2>1
  <2>3. \A x \in Nat : x % 2 \in {0, 1}
    OBVIOUS
  <2>4. \A i \in 1..width : bits[i] \in {0, 1}
    BY <1>2, <2>2, <2>3
  <2> QED BY <2>4 DEF AllBits
<1>4. PICK f : /\ ValueOfBits(bits) = f[Len(bits)] /\ Valued(f, bits)
               /\ \A i \in 0..Len(bits) : f[i] \in Nat
  BY <1>3, ValueIs
<1>5. \A i \in 0..width : h[i] < TwoTo(width - i)
  <2> DEFINE Broken == {i \in 0..width : ~(h[i] < TwoTo(width - i))}
  <2>1. Broken = {}
    <3> SUFFICES ASSUME Broken # {} PROVE FALSE
      OBVIOUS
    <3>1. Broken \in SUBSET Nat
      OBVIOUS
    <3> HIDE DEF Broken
    <3>2. PICK i \in Broken : \A j \in Broken : i <= j
      BY <3>1, LeastOf
    <3>3. i \in 0..width /\ ~(h[i] < TwoTo(width - i))
      BY <3>2 DEF Broken
    <3>4. i # 0
      <4>1. width - 0 = width
        OBVIOUS
      <4> QED BY <1>1, <3>3, <4>1
    <3>5. i - 1 \in 0..width /\ i - 1 \notin Broken /\ i \in 1..width
      BY <3>1, <3>2, <3>3, <3>4
    <3>6. h[i - 1] < TwoTo(width - (i - 1))
      BY <3>5 DEF Broken
    <3>7. width - i \in Nat /\ width - (i - 1) = (width - i) + 1
      BY <3>5
    <3>8. TwoTo(width - (i - 1)) = 2 * TwoTo(width - i) /\ TwoTo(width - i) \in Nat
      BY <3>7, TwoToNext
    <3>9. h[i] = h[i - 1] \div 2 /\ h[i - 1] \in Nat
      BY <1>1, <3>5
    <3> QED BY <3>3, <3>6, <3>8, <3>9
  <2> QED BY <2>1
<1>6. h[width] = 0
  <2>1. h[width] \in Nat /\ width - width = 0 /\ width \in 0..width
    BY <1>1
  <2>2. h[width] < TwoTo(width - width)
    BY <1>5, <2>1
  <2>3. h[width] < 1
    BY <2>1, <2>2, TwoToNext
  <2> QED BY <2>1, <2>3
<1>7. \A i \in 0..width : f[i] = h[width - i]
  <2> DEFINE Broken == {i \in 0..width : f[i] # h[width - i]}
  <2>1. Broken = {}
    <3> SUFFICES ASSUME Broken # {} PROVE FALSE
      OBVIOUS
    <3>1. Broken \in SUBSET Nat
      OBVIOUS
    <3> HIDE DEF Broken
    <3>2. PICK i \in Broken : \A j \in Broken : i <= j
      BY <3>1, LeastOf
    <3>3. i \in 0..width /\ f[i] # h[width - i]
      BY <3>2 DEF Broken
    <3>4. i # 0
      <4>1. width - 0 = width
        OBVIOUS
      <4> QED BY <1>4, <1>6, <3>3, <4>1 DEF Valued
    <3>5. i - 1 \in 0..width /\ i - 1 \notin Broken /\ i \in 1..width
      BY <3>1, <3>2, <3>3, <3>4
    <3>6. f[i - 1] = h[width - (i - 1)]
      BY <3>5 DEF Broken
    <3>7. width - i \in 0..width /\ (width - i) + 1 \in 1..width
          /\ width - (i - 1) = (width - i) + 1 /\ ((width - i) + 1) - 1 = width - i
      BY <3>5
    <3>8. h[(width - i) + 1] = h[width - i] \div 2 /\ h[width - i] \in Nat
      BY <1>1, <3>7
    <3>9. f[i] = 2 * f[i - 1] + bits[i] /\ bits[i] = h[width - i] % 2
      BY <1>2, <1>4, <3>5 DEF Valued
    <3>10. f[i] = 2 * (h[width - i] \div 2) + (h[width - i] % 2)
      BY <3>6, <3>7, <3>8, <3>9
    <3>11. \A x \in Nat : 2 * (x \div 2) + (x % 2) = x
      OBVIOUS
    <3> QED BY <3>3, <3>8, <3>10, <3>11
  <2> QED BY <2>1
<1>8. f[width] = h[0]
  <2>1. width - width = 0
    OBVIOUS
  <2> QED BY <1>7, <2>1
<1> QED BY <1>1, <1>4, <1>8

\* Bits read the highest first are the bits of their value.
LEMMA BitsReadBack ==
  ASSUME NEW bits, AllBits(bits)
  PROVE  /\ ValueOfBits(bits) \in Nat
         /\ \A j \in 1..Len(bits) : BitsOf(ValueOfBits(bits), Len(bits))[Len(bits) + 1 - j] = bits[j]
<1> DEFINE n == Len(bits)
<1>0. n \in Nat
  BY DEF AllBits
<1>1. PICK f : /\ ValueOfBits(bits) = f[n] /\ Valued(f, bits)
               /\ \A i \in 0..n : f[i] \in Nat
  BY ValueIs
<1>2. f[n] \in Nat
  BY <1>0, <1>1
<1> DEFINE h == Halves(f[n], n)
<1>3. h[0] = f[n] /\ (\A i \in 1..n : h[i] = h[i - 1] \div 2) /\ \A i \in 0..n : h[i] \in Nat
  <2> HIDE DEF n
  <2> QED BY <1>0, <1>2, HalvesAre DEF Halved
<1>4. \A i \in 1..n : BitsOf(f[n], n)[i] = h[i - 1] % 2
  BY DEF BitsOf
<1>5. \A i \in 1..n : f[i] = 2 * f[i - 1] + bits[i] /\ bits[i] \in {0, 1}
  BY <1>1 DEF Valued, AllBits
<1> HIDE DEF h, n
<1>6. \A i \in 0..n : h[i] = f[n - i]
  <2> DEFINE Broken == {i \in 0..n : h[i] # f[n - i]}
  <2>1. Broken = {}
    <3> SUFFICES ASSUME Broken # {} PROVE FALSE
      OBVIOUS
    <3>1. Broken \in SUBSET Nat
      BY <1>0
    <3> HIDE DEF Broken
    <3>2. PICK i \in Broken : \A j \in Broken : i <= j
      BY <3>1, LeastOf
    <3>3. i \in 0..n /\ h[i] # f[n - i]
      BY <3>2 DEF Broken
    <3>4. i # 0
      <4>1. n - 0 = n
        BY <1>0
      <4> QED BY <1>3, <3>3, <4>1
    <3>5. i - 1 \in 0..n /\ i - 1 \notin Broken /\ i \in 1..n
      BY <1>0, <3>1, <3>2, <3>3, <3>4
    <3>6. h[i - 1] = f[n - (i - 1)]
      BY <3>5 DEF Broken
    <3>7. n - i \in 0..n /\ (n - i) + 1 \in 1..n /\ n - (i - 1) = (n - i) + 1 /\ ((n - i) + 1) - 1 = n - i
      BY <1>0, <3>5
    <3>8. f[(n - i) + 1] = 2 * f[n - i] + bits[(n - i) + 1] /\ bits[(n - i) + 1] \in {0, 1} /\ f[n - i] \in Nat
      BY <1>1, <1>5, <3>7
    <3>9. h[i] = h[i - 1] \div 2
      BY <1>3, <3>5
    <3>10. h[i] = (2 * f[n - i] + bits[(n - i) + 1]) \div 2
      BY <3>6, <3>7, <3>8, <3>9
    <3>11. \A x \in Nat, b \in {0, 1} : (2 * x + b) \div 2 = x
      OBVIOUS
    <3> QED BY <3>3, <3>8, <3>10, <3>11
  <2> QED BY <2>1
<1>7. ASSUME NEW j \in 1..n PROVE BitsOf(f[n], n)[n + 1 - j] = bits[j]
  <2>1. n + 1 - j \in 1..n /\ (n + 1 - j) - 1 = n - j /\ n - j \in 0..n /\ n - (n - j) = j /\ j - 1 \in 0..n
    BY <1>0
  <2>2. BitsOf(f[n], n)[n + 1 - j] = f[j] % 2
    BY <1>4, <1>6, <2>1
  <2>3. f[j] = 2 * f[j - 1] + bits[j] /\ bits[j] \in {0, 1} /\ f[j - 1] \in Nat
    BY <1>1, <1>5, <2>1
  <2>4. \A x \in Nat, b \in {0, 1} : (2 * x + b) % 2 = b
    OBVIOUS
  <2> QED BY <2>2, <2>3, <2>4
<1> QED BY <1>1, <1>2, <1>7 DEF n

\* The characters carry the bits they were made of.
LEMMA CharsReadBack ==
  ASSUME NEW bits \in Seq({0, 1}), NEW n \in Nat, Len(bits) = 6 * n
  PROVE  BitsOfChars(Chars(bits)) = bits
<1> DEFINE six(k) == SubSeq(bits, 6 * (k - 1) + 1, 6 * k)
<1>1. ASSUME NEW k \in 1..n
      PROVE  /\ Len(six(k)) = 6 /\ AllBits(six(k))
             /\ \A r \in 1..6 : six(k)[r] = bits[6 * (k - 1) + r]
  <2> DEFINE a == 6 * (k - 1) + 1
             b == 6 * k
  <2>1. a \in Int /\ b \in Int /\ b - a + 1 = 6 /\ a <= b
    OBVIOUS
  <2>2. \A i \in a..b : bits[i] \in {0, 1}
    <3>1. \A i \in a..b : i \in 1..Len(bits)
      OBVIOUS
    <3> QED BY <3>1, ElementOfSeq
  <2>3. \A r \in 1..6 : a + r - 1 = 6 * (k - 1) + r /\ a + r - 1 \in a..b
    OBVIOUS
  <2> HIDE DEF a, b
  <2>4. /\ Len(SubSeq(bits, a, b)) = 6
        /\ \A i \in 1..6 : SubSeq(bits, a, b)[i] = bits[a + i - 1]
    BY <2>1, <2>2, SubSeqProperties
  <2>5. \A r \in 1..6 : SubSeq(bits, a, b)[r] = bits[6 * (k - 1) + r] /\ SubSeq(bits, a, b)[r] \in {0, 1}
    BY <2>2, <2>3, <2>4
  <2> QED BY <2>4, <2>5 DEF a, b, AllBits
<1> DEFINE chars == Chars(bits)
<1>2. chars = [k \in 1..n |-> ValueOfBits(six(k))]
  <2>1. Len(bits) \div 6 = n
    OBVIOUS
  <2> QED BY <2>1 DEF Chars, BitsPerChar
<1>3. Len(chars) = n
  BY <1>2
<1> HIDE DEF chars
<1>4. ASSUME NEW i \in 1..(6 * n)
      PROVE  BitsOf(chars[(i - 1) \div 6 + 1], 6)[6 - ((i - 1) % 6)] = bits[i]
  <2> DEFINE k == (i - 1) \div 6 + 1
             r == (i - 1) % 6
  <2>1. k \in 1..n /\ r \in 0..5 /\ i = 6 * (k - 1) + (r + 1) /\ r + 1 \in 1..6
    OBVIOUS
  <2> HIDE DEF k, r, six
  <2>2. chars[k] = ValueOfBits(six(k))
    BY <1>2, <2>1
  <2>3. Len(six(k)) = 6 /\ AllBits(six(k)) /\ six(k)[r + 1] = bits[6 * (k - 1) + (r + 1)]
    BY <1>1, <2>1
  <2>4. BitsOf(ValueOfBits(six(k)), 6)[6 + 1 - (r + 1)] = six(k)[r + 1]
    <3>1. r + 1 \in 1..Len(six(k))
      BY <2>1, <2>3
    <3> QED BY <2>3, <3>1, BitsReadBack
  <2>5. 6 + 1 - (r + 1) = 6 - r
    BY <2>1
  <2> QED BY <2>1, <2>2, <2>3, <2>4, <2>5 DEF k, r
<1>5. BitsOfChars(chars) = [i \in 1..(6 * n) |-> bits[i]]
  <2>1. BitsOfChars(chars) = [i \in 1..(6 * n) |-> BitsOf(chars[(i - 1) \div 6 + 1], 6)[6 - ((i - 1) % 6)]]
    BY <1>3 DEF BitsOfChars, BitsPerChar
  <2> QED BY <1>4, <2>1
<1>6. bits = [i \in 1..(6 * n) |-> bits[i]]
  <2>1. bits \in [1..(6 * n) -> {0, 1}]
    BY LenProperties
  <2> QED BY <2>1
<1> QED BY <1>5, <1>6 DEF chars

Bit == {0, 1}
CharCode == 0..255

\* A character's code fits eight bits.
LEMMA CharCodes ==
  \A c \in CharCode : c \in Nat /\ c < 256
BY DEF CharCode

\* As many bits as are asked for.
LEMMA BitsOfIs ==
  ASSUME NEW value \in Nat, NEW width \in Nat
  PROVE  BitsOf(value, width) \in Seq(Bit) /\ Len(BitsOf(value, width)) = width
<1> DEFINE b == BitsOf(value, width)
<1>1. DOMAIN b = 1..width /\ b = [i \in 1..width |-> b[i]]
  BY DEF BitsOf
<1>2. ASSUME NEW i \in 1..width PROVE b[i] \in Bit
  <2>1. i - 1 \in 0..width
    OBVIOUS
  <2>2. Halves(value, width)[i - 1] \in Nat
    BY <2>1, HalvesAre
  <2>3. \A x \in Nat : x % 2 \in Bit
    BY DEF Bit
  <2> QED BY <2>2, <2>3 DEF BitsOf
<1> HIDE DEF b
<1>3. b \in [1..width -> Bit]
  BY <1>1, <1>2
<1> QED BY <1>3 DEF b

\* A value is read where its bits are.
LEMMA ReadBitsIs ==
  ASSUME NEW bits \in Seq(Bit), NEW at \in Nat, NEW width \in Nat \ {0}, at + width <= Len(bits),
         NEW value \in Nat, value < TwoTo(width),
         \A i \in 1..width : bits[at + i] = BitsOf(value, width)[i]
  PROVE  ReadBits(bits, at, width) = value
<1> DEFINE part == SubSeq(bits, at + 1, at + width)
           x == Reverse(part)
<1>1. Len(part) = width /\ \A i \in 1..width : part[i] = bits[at + i]
  <2> DEFINE a == at + 1
             b == at + width
  <2>1. a \in Int /\ b \in Int /\ a <= b /\ b - a + 1 = width
    OBVIOUS
  <2>2. \A i \in a..b : bits[i] \in Bit
    <3>1. \A i \in a..b : i \in 1..Len(bits)
      BY LenProperties
    <3> QED BY <3>1, ElementOfSeq
  <2>3. \A i \in 1..width : a + i - 1 = at + i
    OBVIOUS
  <2> HIDE DEF a, b
  <2>4. /\ Len(SubSeq(bits, a, b)) = width
        /\ \A i \in 1..width : SubSeq(bits, a, b)[i] = bits[a + i - 1]
    BY <2>1, <2>2, SubSeqProperties
  <2> QED BY <2>3, <2>4 DEF a, b
<1> HIDE DEF part
<1>2. x = [i \in 1..width |-> part[(width - i) + 1]]
  BY <1>1 DEF Reverse
<1>3. Len(x) = width
  BY <1>2
<1> HIDE DEF x
<1>4. ASSUME NEW i \in 1..width PROVE x[i] = BitsOf(value, width)[width + 1 - i]
  <2>1. (width - i) + 1 \in 1..width /\ (width - i) + 1 = width + 1 - i
    OBVIOUS
  <2> QED BY <1>1, <1>2, <2>1
<1>5. ValueOfBits(x) = value
  BY <1>3, <1>4, ValueReadBack
<1> QED BY <1>5 DEF ReadBits, x, part

-------------------------------------------------------------------------------
(* What the steps of the compressor and the decompressor make of each field *)

CompressorFields == {"dictionary", "toCreate", "w", "enlargeIn", "dictSize", "numBits", "bits"}
DecoderFields == {"bits", "entries", "at", "w", "enlargeIn", "dictSize", "numBits", "text", "status"}

\* The codes left before they grow, and their width, one code on.
LeftAfter(left, width) == IF left = 1 THEN TwoTo(width) ELSE left - 1
WidthAfter(left, width) == IF left = 1 THEN width + 1 ELSE width

LeftAfterTwo(left, width) == LeftAfter(LeftAfter(left, width), WidthAfter(left, width))
WidthAfterTwo(left, width) == WidthAfter(LeftAfter(left, width), WidthAfter(left, width))

\* Counting a code changes what is left of its width, and the width, alone.
LEMMA CountedIs ==
  ASSUME NEW s, {"enlargeIn", "numBits"} \subseteq DOMAIN s
  PROVE  /\ DOMAIN Counted(s) = DOMAIN s
         /\ Counted(s).enlargeIn = LeftAfter(s.enlargeIn, s.numBits)
         /\ Counted(s).numBits = WidthAfter(s.enlargeIn, s.numBits)
         /\ \A x \in DOMAIN s : x \notin {"enlargeIn", "numBits"} => Counted(s)[x] = s[x]
<1>1. CASE s.enlargeIn = 1
  <2>1. Counted(s) = [s EXCEPT !.enlargeIn = TwoTo(s.numBits), !.numBits = @ + 1]
    BY <1>1 DEF Counted
  <2> QED BY <1>1, <2>1 DEF LeftAfter, WidthAfter
<1>2. CASE s.enlargeIn # 1
  <2>1. Counted(s) = [s EXCEPT !.enlargeIn = @ - 1]
    BY <1>2 DEF Counted
  <2> QED BY <1>2, <2>1 DEF LeftAfter, WidthAfter
<1> QED BY <1>1, <1>2

\* On the compressor's side.
LEMMA CountedCompressor ==
  ASSUME NEW s, DOMAIN s = CompressorFields
  PROVE  /\ DOMAIN Counted(s) = CompressorFields
         /\ Counted(s).enlargeIn = LeftAfter(s.enlargeIn, s.numBits)
         /\ Counted(s).numBits = WidthAfter(s.enlargeIn, s.numBits)
         /\ Counted(s).dictionary = s.dictionary /\ Counted(s).toCreate = s.toCreate
         /\ Counted(s).w = s.w /\ Counted(s).dictSize = s.dictSize /\ Counted(s).bits = s.bits
BY CountedIs DEF CompressorFields

\* And on the decompressor's.
LEMMA CountedDecoder ==
  ASSUME NEW d, DOMAIN d = DecoderFields
  PROVE  /\ DOMAIN Counted(d) = DecoderFields
         /\ Counted(d).enlargeIn = LeftAfter(d.enlargeIn, d.numBits)
         /\ Counted(d).numBits = WidthAfter(d.enlargeIn, d.numBits)
         /\ Counted(d).bits = d.bits /\ Counted(d).entries = d.entries /\ Counted(d).at = d.at
         /\ Counted(d).w = d.w /\ Counted(d).dictSize = d.dictSize /\ Counted(d).text = d.text
         /\ Counted(d).status = d.status
BY CountedIs DEF DecoderFields

\* Writing a string whose code is known to the other side: its code.
LEMMA EmitKnown ==
  ASSUME NEW s, DOMAIN s = CompressorFields, s.w \notin s.toCreate
  PROVE  /\ DOMAIN Emit(s) = CompressorFields
         /\ Emit(s).bits = s.bits \o BitsOf(s.dictionary[s.w], s.numBits)
         /\ Emit(s).enlargeIn = LeftAfter(s.enlargeIn, s.numBits)
         /\ Emit(s).numBits = WidthAfter(s.enlargeIn, s.numBits)
         /\ Emit(s).dictionary = s.dictionary /\ Emit(s).toCreate = s.toCreate
         /\ Emit(s).w = s.w /\ Emit(s).dictSize = s.dictSize
<1> DEFINE u == [s EXCEPT !.bits = @ \o BitsOf(s.dictionary[s.w], s.numBits)]
<1>1. Emit(s) = Counted(u)
  BY DEF Emit
<1>2. /\ DOMAIN u = CompressorFields /\ u.bits = s.bits \o BitsOf(s.dictionary[s.w], s.numBits)
      /\ u.dictionary = s.dictionary /\ u.toCreate = s.toCreate /\ u.w = s.w
      /\ u.dictSize = s.dictSize /\ u.enlargeIn = s.enlargeIn /\ u.numBits = s.numBits
  BY DEF CompressorFields
<1> HIDE DEF u
<1> QED BY <1>1, <1>2, CountedCompressor

\* Writing a character that is not: code 0, the character, and two codes are counted.
LEMMA EmitNew ==
  ASSUME NEW s, DOMAIN s = CompressorFields, s.w \in s.toCreate
  PROVE  /\ DOMAIN Emit(s) = CompressorFields
         /\ Emit(s).bits = s.bits \o BitsOf(0, s.numBits) \o BitsOf(s.w[1], 8)
         /\ Emit(s).enlargeIn = LeftAfterTwo(s.enlargeIn, s.numBits)
         /\ Emit(s).numBits = WidthAfterTwo(s.enlargeIn, s.numBits)
         /\ Emit(s).dictionary = s.dictionary /\ Emit(s).toCreate = s.toCreate \ {s.w}
         /\ Emit(s).w = s.w /\ Emit(s).dictSize = s.dictSize
<1> DEFINE u == [s EXCEPT !.bits = @ \o BitsOf(0, s.numBits) \o BitsOf(s.w[1], 8),
                          !.toCreate = @ \ {s.w}]
           v == Counted(u)
<1>1. Emit(s) = Counted(v)
  BY DEF Emit
<1>2. /\ DOMAIN u = CompressorFields /\ u.bits = s.bits \o BitsOf(0, s.numBits) \o BitsOf(s.w[1], 8)
      /\ u.dictionary = s.dictionary /\ u.toCreate = s.toCreate \ {s.w} /\ u.w = s.w
      /\ u.dictSize = s.dictSize /\ u.enlargeIn = s.enlargeIn /\ u.numBits = s.numBits
  BY DEF CompressorFields
<1> HIDE DEF u
<1>3. /\ DOMAIN v = CompressorFields /\ v.bits = u.bits /\ v.dictionary = u.dictionary
      /\ v.toCreate = u.toCreate /\ v.w = u.w /\ v.dictSize = u.dictSize
      /\ v.enlargeIn = LeftAfter(s.enlargeIn, s.numBits) /\ v.numBits = WidthAfter(s.enlargeIn, s.numBits)
  BY <1>2, CountedCompressor
<1> HIDE DEF v
<1> DEFINE e == Counted(v)
<1>4. /\ DOMAIN e = CompressorFields /\ e.bits = v.bits /\ e.dictionary = v.dictionary
      /\ e.toCreate = v.toCreate /\ e.w = v.w /\ e.dictSize = v.dictSize
      /\ e.enlargeIn = LeftAfter(v.enlargeIn, v.numBits) /\ e.numBits = WidthAfter(v.enlargeIn, v.numBits)
  BY <1>3, CountedCompressor
<1>5. Emit(s) = e
  BY <1>1
<1> HIDE DEF e
<1> QED BY <1>2, <1>3, <1>4, <1>5 DEF LeftAfterTwo, WidthAfterTwo

\* A function with one key more.
LEMMA ExtendIs ==
  ASSUME NEW f, NEW key, NEW value
  PROVE  /\ DOMAIN Extend(f, key, value) = DOMAIN f \cup {key}
         /\ Extend(f, key, value)[key] = value
         /\ \A k \in DOMAIN f : k # key => Extend(f, key, value)[k] = f[k]
BY DEF Extend

\* A string gets the next code.
LEMMA DefineIs ==
  ASSUME NEW s, DOMAIN s = CompressorFields, NEW string
  PROVE  /\ DOMAIN Define(s, string) = CompressorFields
         /\ Define(s, string).dictionary = Extend(s.dictionary, string, s.dictSize)
         /\ Define(s, string).dictSize = s.dictSize + 1
         /\ Define(s, string).bits = s.bits /\ Define(s, string).toCreate = s.toCreate
         /\ Define(s, string).w = s.w /\ Define(s, string).enlargeIn = s.enlargeIn
         /\ Define(s, string).numBits = s.numBits
<1>1. Define(s, string) = [s EXCEPT !.dictionary = Extend(s.dictionary, string, s.dictSize),
                                    !.dictSize = s.dictSize + 1]
  BY DEF Define
<1> QED BY <1>1 DEF CompressorFields

\* Code 2 ends the text as it is.
LEMMA DecompressEnd ==
  ASSUME NEW d, DOMAIN d = DecoderFields, Len(d.bits) \in Nat, d.at + d.numBits \in Nat,
         d.at + d.numBits <= Len(d.bits),
         ReadBits(d.bits, d.at, d.numBits) = 2
  PROVE  Decompress(d).status = "ended" /\ Decompress(d).text = d.text
<1>1. Decompress(d) = [d EXCEPT !.status = "ended"]
  BY DEF Decompress
<1> QED BY <1>1 DEF DecoderFields

\* n is d with a string entered.
EnteredOf(n, d, entry) ==
  /\ DOMAIN n = DecoderFields /\ n.status = d.status /\ n.bits = d.bits
  /\ n.at = d.at /\ n.text = d.text \o entry /\ n.w = entry
  /\ n.enlargeIn = LeftAfter(d.enlargeIn, d.numBits)
  /\ n.numBits = WidthAfter(d.enlargeIn, d.numBits)
  /\ d.w = <<>> => n.entries = d.entries /\ n.dictSize = d.dictSize
  /\ d.w # <<>> => /\ n.entries = Extend(d.entries, d.dictSize, d.w \o <<entry[1]>>)
                   /\ n.dictSize = d.dictSize + 1

\* Entering a string does so.
LEMMA EnteredIs ==
  ASSUME NEW d, DOMAIN d = DecoderFields, NEW entry
  PROVE  EnteredOf(Entered(d, entry), d, entry)
<1> USE DEF EnteredOf
<1> DEFINE out == [d EXCEPT !.text = @ \o entry, !.w = entry]
           more == [out EXCEPT !.entries = Extend(@, d.dictSize, d.w \o <<entry[1]>>), !.dictSize = @ + 1]
<1>1. Entered(d, entry) = IF d.w = <<>> THEN Counted(out) ELSE Counted(more)
  BY DEF Entered
<1>3. /\ DOMAIN out = DecoderFields /\ out.at = d.at /\ out.entries = d.entries
      /\ out.dictSize = d.dictSize /\ out.status = d.status /\ out.bits = d.bits
      /\ out.text = d.text \o entry /\ out.w = entry /\ out.enlargeIn = d.enlargeIn /\ out.numBits = d.numBits
  BY DEF DecoderFields
<1> HIDE DEF out
<1>4. /\ DOMAIN more = DecoderFields /\ more.at = out.at /\ more.status = out.status /\ more.bits = out.bits
      /\ more.entries = Extend(d.entries, d.dictSize, d.w \o <<entry[1]>>)
      /\ more.dictSize = d.dictSize + 1
      /\ more.text = out.text /\ more.w = out.w /\ more.enlargeIn = out.enlargeIn /\ more.numBits = out.numBits
  BY <1>3 DEF DecoderFields
<1> HIDE DEF more
<1> DEFINE n == Entered(d, entry)
<1>5. CASE d.w = <<>>
  <2>1. n = Counted(out)
    BY <1>1, <1>5
  <2> HIDE DEF n
  <2>2. /\ DOMAIN n = DecoderFields /\ n.status = out.status /\ n.bits = out.bits /\ n.at = out.at
        /\ n.text = out.text /\ n.w = out.w /\ n.entries = out.entries /\ n.dictSize = out.dictSize
        /\ n.enlargeIn = LeftAfter(out.enlargeIn, out.numBits)
        /\ n.numBits = WidthAfter(out.enlargeIn, out.numBits)
    BY <1>3, <2>1, CountedDecoder
  <2> QED BY <1>3, <1>5, <2>2 DEF n
<1>6. CASE d.w # <<>>
  <2>1. n = Counted(more)
    BY <1>1, <1>6
  <2> HIDE DEF n
  <2>2. /\ DOMAIN n = DecoderFields /\ n.status = more.status /\ n.bits = more.bits /\ n.at = more.at
        /\ n.text = more.text /\ n.w = more.w /\ n.entries = more.entries /\ n.dictSize = more.dictSize
        /\ n.enlargeIn = LeftAfter(more.enlargeIn, more.numBits)
        /\ n.numBits = WidthAfter(more.enlargeIn, more.numBits)
    BY <1>4, <2>1, CountedDecoder
  <2> QED BY <1>3, <1>4, <1>6, <2>2 DEF n
<1> QED BY <1>5, <1>6

\* An announced character becomes an entry, and is counted.
LEMMA ToldIs ==
  ASSUME NEW d, DOMAIN d = DecoderFields, NEW char
  PROVE  \A n : n = Told(d, char) =>
            /\ DOMAIN n = DecoderFields /\ n.status = d.status /\ n.bits = d.bits
            /\ n.at = d.at + 8 /\ n.text = d.text /\ n.w = d.w
            /\ n.enlargeIn = LeftAfter(d.enlargeIn, d.numBits)
            /\ n.numBits = WidthAfter(d.enlargeIn, d.numBits)
            /\ n.entries = Extend(d.entries, d.dictSize, char) /\ n.dictSize = d.dictSize + 1
<1> DEFINE out == [d EXCEPT !.at = @ + 8, !.entries = Extend(@, d.dictSize, char), !.dictSize = @ + 1]
<1>1. Told(d, char) = Counted(out)
  BY DEF Told
<1>2. /\ DOMAIN out = DecoderFields /\ out.at = d.at + 8 /\ out.entries = Extend(d.entries, d.dictSize, char)
      /\ out.dictSize = d.dictSize + 1 /\ out.status = d.status /\ out.bits = d.bits
      /\ out.text = d.text /\ out.w = d.w /\ out.enlargeIn = d.enlargeIn /\ out.numBits = d.numBits
  BY DEF DecoderFields
<1> HIDE DEF out
<1> DEFINE n == Told(d, char)
<1>3. n = Counted(out)
  BY <1>1
<1> HIDE DEF n
<1>4. /\ DOMAIN n = DecoderFields /\ n.status = out.status /\ n.bits = out.bits /\ n.at = out.at
      /\ n.text = out.text /\ n.w = out.w /\ n.entries = out.entries /\ n.dictSize = out.dictSize
      /\ n.enlargeIn = LeftAfter(out.enlargeIn, out.numBits)
      /\ n.numBits = WidthAfter(out.enlargeIn, out.numBits)
  BY <1>2, <1>3, CountedDecoder
<1> QED BY <1>2, <1>4 DEF n

\* Reading a code moves on by its width.
LEMMA AfterRead ==
  ASSUME NEW d, DOMAIN d = DecoderFields, NEW read, read = [d EXCEPT !.at = @ + d.numBits]
  PROVE  /\ DOMAIN read = DecoderFields /\ read.at = d.at + d.numBits /\ read.entries = d.entries
         /\ read.dictSize = d.dictSize /\ read.status = d.status /\ read.bits = d.bits
         /\ read.text = d.text /\ read.w = d.w /\ read.enlargeIn = d.enlargeIn /\ read.numBits = d.numBits
BY DEF DecoderFields

\* n is d with the string of a code read, or with a character.
KnownOf(n, d, entry) ==
  /\ DOMAIN n = DecoderFields /\ n.status = d.status /\ n.bits = d.bits
  /\ n.at = d.at + d.numBits /\ n.text = d.text \o entry /\ n.w = entry
  /\ n.enlargeIn = LeftAfter(d.enlargeIn, d.numBits)
  /\ n.numBits = WidthAfter(d.enlargeIn, d.numBits)
  /\ d.w = <<>> => n.entries = d.entries /\ n.dictSize = d.dictSize
  /\ d.w # <<>> => /\ n.entries = Extend(d.entries, d.dictSize, d.w \o <<entry[1]>>)
                   /\ n.dictSize = d.dictSize + 1
NewOf(n, d, c) ==
  /\ DOMAIN n = DecoderFields /\ n.status = d.status /\ n.bits = d.bits
  /\ n.at = d.at + d.numBits + 8 /\ n.text = d.text \o <<c>> /\ n.w = <<c>>
  /\ n.enlargeIn = LeftAfterTwo(d.enlargeIn, d.numBits)
  /\ n.numBits = WidthAfterTwo(d.enlargeIn, d.numBits)
  /\ d.w = <<>> => /\ n.entries = Extend(d.entries, d.dictSize, <<c>>)
                   /\ n.dictSize = d.dictSize + 1
  /\ d.w # <<>> => /\ n.entries = Extend(Extend(d.entries, d.dictSize, <<c>>), d.dictSize + 1, d.w \o <<c>>)
                   /\ n.dictSize = d.dictSize + 1 + 1

\* A string that the decompressor has, or the one it is about to have.
LEMMA DecompressKnown ==
  ASSUME NEW d, DOMAIN d = DecoderFields, Len(d.bits) \in Nat, d.at + d.numBits \in Nat,
         d.at + d.numBits <= Len(d.bits),
         NEW code, code = ReadBits(d.bits, d.at, d.numBits), code \notin {0, 2},
         code \in DOMAIN d.entries \/ (code = d.dictSize /\ d.w # <<>>),
         NEW entry, entry = IF code \in DOMAIN d.entries THEN d.entries[code] ELSE d.w \o <<d.w[1]>>
  PROVE  KnownOf(Decompress(d), d, entry)
<1> DEFINE read == [d EXCEPT !.at = @ + d.numBits]
<1>1. ~(Len(d.bits) < d.at + d.numBits)
  OBVIOUS
<1>2. Decompress(d) = Entered(read, entry)
  BY <1>1 DEF Decompress
<1>3. /\ DOMAIN read = DecoderFields /\ read.at = d.at + d.numBits /\ read.entries = d.entries
      /\ read.dictSize = d.dictSize /\ read.status = d.status /\ read.bits = d.bits
      /\ read.text = d.text /\ read.w = d.w /\ read.enlargeIn = d.enlargeIn /\ read.numBits = d.numBits
  BY AfterRead
<1> HIDE DEF read
<1> DEFINE n == Entered(read, entry)
<1>4. EnteredOf(n, read, entry)
  BY <1>3, EnteredIs
<1>5. Decompress(d) = n
  BY <1>2
<1> HIDE DEF n
<1> QED BY <1>3, <1>4, <1>5 DEF EnteredOf, KnownOf

\* A character that the decompressor is told.
LEMMA DecompressNew ==
  ASSUME NEW d, DOMAIN d = DecoderFields, Len(d.bits) \in Nat, d.at + d.numBits \in Nat,
         d.at + d.numBits <= Len(d.bits),
         ReadBits(d.bits, d.at, d.numBits) = 0,
         NEW c, c = ReadBits(d.bits, d.at + d.numBits, 8)
  PROVE  NewOf(Decompress(d), d, c)
<1> DEFINE read == [d EXCEPT !.at = @ + d.numBits]
           told == Told(read, <<c>>)
           n == Entered(told, <<c>>)
<1>1. ~(Len(d.bits) < d.at + d.numBits)
  OBVIOUS
<1>2. /\ DOMAIN read = DecoderFields /\ read.at = d.at + d.numBits /\ read.entries = d.entries
      /\ read.dictSize = d.dictSize /\ read.status = d.status /\ read.bits = d.bits
      /\ read.text = d.text /\ read.w = d.w /\ read.enlargeIn = d.enlargeIn /\ read.numBits = d.numBits
  BY AfterRead
<1>3. Decompress(d) = n
  <2>1. ReadBits(d.bits, read.at, 8) = c
    <3> HIDE DEF read
    <3> QED BY <1>2
  <2> QED BY <1>1, <2>1 DEF Decompress
<1> HIDE DEF read
<1>4. /\ DOMAIN told = DecoderFields /\ told.status = d.status /\ told.bits = d.bits
      /\ told.at = d.at + d.numBits + 8 /\ told.text = d.text /\ told.w = d.w
      /\ told.enlargeIn = LeftAfter(d.enlargeIn, d.numBits) /\ told.numBits = WidthAfter(d.enlargeIn, d.numBits)
      /\ told.entries = Extend(d.entries, d.dictSize, <<c>>) /\ told.dictSize = d.dictSize + 1
  BY <1>2, ToldIs
<1> HIDE DEF told
<1>5. /\ DOMAIN n = DecoderFields /\ n.status = told.status /\ n.bits = told.bits
      /\ n.at = told.at /\ n.text = told.text \o <<c>> /\ n.w = <<c>>
      /\ n.enlargeIn = LeftAfter(told.enlargeIn, told.numBits)
      /\ n.numBits = WidthAfter(told.enlargeIn, told.numBits)
      /\ told.w = <<>> => n.entries = told.entries /\ n.dictSize = told.dictSize
      /\ told.w # <<>> => /\ n.entries = Extend(told.entries, told.dictSize, told.w \o <<c>>)
                          /\ n.dictSize = told.dictSize + 1
  <2> DEFINE char == <<c>>
  <2>1. n = Entered(told, char) /\ char[1] = c
    OBVIOUS
  <2> HIDE DEF char, n
  <2>2. EnteredOf(n, told, char)
    BY <1>4, <2>1, EnteredIs
  <2>3. char = <<c>>
    BY DEF char
  <2> QED BY <2>1, <2>2, <2>3 DEF EnteredOf
<1> HIDE DEF n
<1> QED BY <1>3, <1>4, <1>5 DEF LeftAfterTwo, WidthAfterTwo, NewOf

-------------------------------------------------------------------------------
(* The compressor *)

\* Every code is below the size, the characters of a string are strings, a character that
\* waits to be announced begins no other string, and every code fits its width: size and
\* codes left add up to the width's power of two.
Compressor(s) ==
  /\ DOMAIN s = CompressorFields
  /\ s.w \in Seq(CharCode) /\ s.bits \in Seq(Bit)
  /\ s.enlargeIn \in Nat \ {0} /\ s.numBits \in Nat \ {0, 1} /\ s.dictSize \in Nat \ {0, 1, 2}
  /\ s.toCreate \in {{}, {s.w}}
  /\ \A q \in DOMAIN s.dictionary :
       /\ q \in Seq(CharCode) /\ q # <<>>
       /\ s.dictionary[q] \in 3..(s.dictSize - 1)
       /\ \A i \in 1..Len(q) : <<q[i]>> \in DOMAIN s.dictionary
  /\ s.w = <<>> => DOMAIN s.dictionary = {} /\ s.toCreate = {}
  /\ s.w # <<>> => s.w \in DOMAIN s.dictionary
  /\ s.toCreate # {} => Len(s.w) = 1 /\ \A q \in DOMAIN s.dictionary : q[1] = s.w[1] => q = s.w
  /\ s.toCreate = {} => s.dictSize + s.enlargeIn = TwoTo(s.numBits) + 1
  /\ s.toCreate # {} => s.dictSize + s.enlargeIn = TwoTo(s.numBits) + 2

\* A string with a character more.
LEMMA Strings ==
  ASSUME NEW w \in Seq(CharCode), NEW c \in CharCode
  PROVE  /\ <<c>> \in Seq(CharCode) /\ Len(<<c>>) = 1 /\ <<c>>[1] = c /\ <<c>> # <<>>
         /\ w \o <<c>> \in Seq(CharCode) /\ Len(w \o <<c>>) = Len(w) + 1 /\ (w \o <<c>>)[Len(w) + 1] = c
         /\ w \o <<c>> # <<>>
         /\ \A i \in 1..Len(w) : (w \o <<c>>)[i] = w[i]
         /\ w = <<>> => w \o <<c>> = <<c>>
         /\ w # <<>> => Len(w) \in Nat \ {0} /\ (w \o <<c>>)[1] = w[1] /\ w[1] \in CharCode /\ w \o <<c>> # <<c>>
         /\ Len(w) = 1 => w = <<w[1]>>
<1>1. <<c>> \in Seq(CharCode) /\ Len(<<c>>) = 1 /\ <<c>>[1] = c /\ <<c>> # <<>>
  OBVIOUS
<1>2. /\ w \o <<c>> \in Seq(CharCode) /\ Len(w \o <<c>>) = Len(w) + 1
      /\ \A i \in 1..(Len(w) + 1) : (w \o <<c>>)[i] = IF i <= Len(w) THEN w[i] ELSE <<c>>[i - Len(w)]
  BY <1>1, ConcatProperties
<1>3. Len(w) \in Nat /\ (w # <<>> => Len(w) # 0) /\ \A i \in 1..Len(w) : w[i] \in CharCode
  BY EmptySeq, LenProperties, ElementOfSeq
<1>4. (w \o <<c>>)[Len(w) + 1] = c
  <2>1. (Len(w) + 1) - Len(w) = 1 /\ Len(w) + 1 \in 1..(Len(w) + 1) /\ ~(Len(w) + 1 <= Len(w))
    BY <1>3
  <2> QED BY <1>1, <1>2, <2>1
<1>5. \A i \in 1..Len(w) : (w \o <<c>>)[i] = w[i]
  BY <1>2, <1>3
<1>6. w \o <<c>> # <<>>
  <2>1. Len(w \o <<c>>) # 0
    BY <1>2, <1>3
  <2> QED BY <2>1
<1>7. w = <<>> => w \o <<c>> = <<c>>
  BY <1>1, ConcatEmptySeq
<1>8. w # <<>> => Len(w) \in Nat \ {0} /\ (w \o <<c>>)[1] = w[1] /\ w[1] \in CharCode /\ w \o <<c>> # <<c>>
  <2> SUFFICES ASSUME w # <<>> PROVE Len(w) \in Nat \ {0} /\ (w \o <<c>>)[1] = w[1] /\ w[1] \in CharCode /\ w \o <<c>> # <<c>>
    OBVIOUS
  <2>1. Len(w) \in Nat \ {0} /\ 1 \in 1..Len(w)
    BY <1>3
  <2>2. Len(w \o <<c>>) # Len(<<c>>)
    BY <1>1, <1>2, <2>1
  <2> QED BY <1>3, <1>5, <2>1, <2>2
<1>9. Len(w) = 1 => w = <<w[1]>>
  <2> SUFFICES ASSUME Len(w) = 1 PROVE w = <<w[1]>>
    OBVIOUS
  <2>1. w[1] \in CharCode
    BY <1>3
  <2>2. <<w[1]>> \in Seq(CharCode) /\ Len(<<w[1]>>) = 1 /\ <<w[1]>>[1] = w[1]
    BY <2>1
  <2>3. \A i \in 1..Len(w) : w[i] = <<w[1]>>[i]
    BY <2>2
  <2> QED BY <2>2, <2>3, SeqEqual
<1> QED BY <1>1, <1>2, <1>4, <1>5, <1>6, <1>7, <1>8, <1>9

\* What codes are left, and how many a width has, move together.
LEMMA Widths ==
  ASSUME NEW left \in Nat \ {0}, NEW width \in Nat \ {0, 1}
  PROVE  /\ LeftAfter(left, width) \in Nat \ {0} /\ WidthAfter(left, width) \in Nat \ {0, 1}
         /\ TwoTo(width) \in Nat /\ TwoTo(WidthAfter(left, width)) \in Nat
         /\ TwoTo(WidthAfter(left, width)) + left = TwoTo(width) + 1 + LeftAfter(left, width)
<1>1. TwoTo(width) \in Nat /\ TwoTo(width + 1) = 2 * TwoTo(width)
  BY TwoToNext
<1>2. TwoTo(width) >= 4
  BY TwoToGrows
<1>3. CASE left = 1
  <2>1. LeftAfter(left, width) = TwoTo(width) /\ WidthAfter(left, width) = width + 1
    BY <1>3 DEF LeftAfter, WidthAfter
  <2> QED BY <1>1, <1>2, <1>3, <2>1
<1>4. CASE left # 1
  <2>1. LeftAfter(left, width) = left - 1 /\ WidthAfter(left, width) = width
    BY <1>4 DEF LeftAfter, WidthAfter
  <2> QED BY <1>1, <1>4, <2>1
<1> QED BY <1>3, <1>4

-------------------------------------------------------------------------------
(* One character of a query *)

IsNew(s, c) == <<c>> \notin DOMAIN s.dictionary
MetDictionary(s, c) == IF IsNew(s, c) THEN Extend(s.dictionary, <<c>>, s.dictSize) ELSE s.dictionary
MetSize(s, c) == IF IsNew(s, c) THEN s.dictSize + 1 ELSE s.dictSize
NewOnes(s, c) == IF IsNew(s, c) THEN {<<c>>} ELSE {}
Met(s, c) == IF <<c>> \in DOMAIN s.dictionary THEN s
             ELSE [Define(s, <<c>>) EXCEPT !.toCreate = @ \cup {<<c>>}]

\* A character met for the first time is defined and waits to be announced.
LEMMA MetIs ==
  ASSUME NEW s, DOMAIN s = CompressorFields, NEW c
  PROVE  /\ DOMAIN Met(s, c) = CompressorFields /\ Met(s, c).dictionary = MetDictionary(s, c)
         /\ Met(s, c).dictSize = MetSize(s, c) /\ Met(s, c).toCreate = s.toCreate \cup NewOnes(s, c)
         /\ Met(s, c).w = s.w /\ Met(s, c).bits = s.bits
         /\ Met(s, c).enlargeIn = s.enlargeIn /\ Met(s, c).numBits = s.numBits
<1>1. CASE <<c>> \in DOMAIN s.dictionary
  <2>1. Met(s, c) = s
    BY <1>1 DEF Met
  <2> QED BY <1>1, <2>1 DEF MetDictionary, MetSize, NewOnes, IsNew
<1>2. CASE <<c>> \notin DOMAIN s.dictionary
  <2> DEFINE u == Define(s, <<c>>)
  <2>1. Met(s, c) = [u EXCEPT !.toCreate = @ \cup {<<c>>}]
    BY <1>2 DEF Met
  <2>2. /\ DOMAIN u = CompressorFields
        /\ u.dictionary = Extend(s.dictionary, <<c>>, s.dictSize)
        /\ u.dictSize = s.dictSize + 1
        /\ u.bits = s.bits /\ u.toCreate = s.toCreate
        /\ u.w = s.w /\ u.enlargeIn = s.enlargeIn /\ u.numBits = s.numBits
    BY DefineIs
  <2> HIDE DEF u
  <2>3. /\ DOMAIN Met(s, c) = CompressorFields /\ Met(s, c).dictionary = u.dictionary
        /\ Met(s, c).dictSize = u.dictSize /\ Met(s, c).toCreate = u.toCreate \cup {<<c>>}
        /\ Met(s, c).w = u.w /\ Met(s, c).bits = u.bits
        /\ Met(s, c).enlargeIn = u.enlargeIn /\ Met(s, c).numBits = u.numBits
    BY <2>1, <2>2 DEF CompressorFields
  <2> QED BY <1>2, <2>2, <2>3 DEF MetDictionary, MetSize, NewOnes, IsNew
<1> QED BY <1>1, <1>2

\* The character makes a known string longer.
LEMMA CompressOn ==
  ASSUME NEW s, DOMAIN s = CompressorFields, NEW c, s.w \o <<c>> \in DOMAIN MetDictionary(s, c)
  PROVE  LET n == Compress(s, c)
         IN /\ DOMAIN n = CompressorFields /\ n.dictionary = MetDictionary(s, c)
            /\ n.dictSize = MetSize(s, c) /\ n.toCreate = s.toCreate \cup NewOnes(s, c)
            /\ n.w = s.w \o <<c>> /\ n.bits = s.bits
            /\ n.enlargeIn = s.enlargeIn /\ n.numBits = s.numBits
<1> DEFINE m == Met(s, c)
           n == [m EXCEPT !.w = s.w \o <<c>>]
<1>1. /\ DOMAIN m = CompressorFields /\ m.dictionary = MetDictionary(s, c)
      /\ m.dictSize = MetSize(s, c) /\ m.toCreate = s.toCreate \cup NewOnes(s, c)
      /\ m.w = s.w /\ m.bits = s.bits
      /\ m.enlargeIn = s.enlargeIn /\ m.numBits = s.numBits
  BY MetIs
<1>2. Compress(s, c) = n
  <2>1. Compress(s, c) = IF s.w \o <<c>> \in DOMAIN m.dictionary THEN n
                         ELSE [Define(Emit(m), s.w \o <<c>>) EXCEPT !.w = <<c>>]
    BY DEF Compress, Met
  <2> QED BY <1>1, <2>1
<1> HIDE DEF m
<1>3. /\ DOMAIN n = CompressorFields /\ n.dictionary = m.dictionary /\ n.dictSize = m.dictSize
      /\ n.toCreate = m.toCreate /\ n.w = s.w \o <<c>> /\ n.bits = m.bits
      /\ n.enlargeIn = m.enlargeIn /\ n.numBits = m.numBits
  BY <1>1 DEF CompressorFields
<1> HIDE DEF n
<1> QED BY <1>1, <1>2, <1>3

\* It does not: the code of the string so far is written.
LEMMA CompressEmits ==
  ASSUME NEW s, Compressor(s), NEW c \in CharCode, s.w \o <<c>> \notin DOMAIN MetDictionary(s, c)
  PROVE  /\ s.w # <<>>
         /\ LET n == Compress(s, c)
            IN /\ DOMAIN n = CompressorFields
               /\ n.dictionary = Extend(MetDictionary(s, c), s.w \o <<c>>, MetSize(s, c))
               /\ n.dictSize = MetSize(s, c) + 1 /\ n.toCreate = NewOnes(s, c)
               /\ n.w = <<c>> /\ n.bits = Emit(s).bits
               /\ n.enlargeIn = Emit(s).enlargeIn /\ n.numBits = Emit(s).numBits
<1> DEFINE m == Met(s, c)
           e == Emit(m)
           u == Define(e, s.w \o <<c>>)
           n == [u EXCEPT !.w = <<c>>]
<1>0. DOMAIN s = CompressorFields /\ s.w \in Seq(CharCode) /\ s.toCreate \in {{}, {s.w}}
  BY DEF Compressor
<1>1. /\ DOMAIN m = CompressorFields /\ m.dictionary = MetDictionary(s, c)
      /\ m.dictSize = MetSize(s, c) /\ m.toCreate = s.toCreate \cup NewOnes(s, c)
      /\ m.w = s.w /\ m.bits = s.bits
      /\ m.enlargeIn = s.enlargeIn /\ m.numBits = s.numBits
  BY <1>0, MetIs
<1>2. Compress(s, c) = n
  <2>1. Compress(s, c) = IF s.w \o <<c>> \in DOMAIN m.dictionary THEN [m EXCEPT !.w = s.w \o <<c>>] ELSE n
    BY DEF Compress, Met
  <2> QED BY <1>1, <2>1
<1>3. s.w # <<>>
  <2> SUFFICES ASSUME s.w = <<>> PROVE FALSE
    OBVIOUS
  <2>1. s.w \o <<c>> = <<c>>
    BY <1>0, Strings
  <2>2. <<c>> \in DOMAIN MetDictionary(s, c)
    BY DEF MetDictionary, IsNew, Extend
  <2> QED BY <2>1, <2>2
<1>4. s.w \in DOMAIN s.dictionary
  BY <1>3 DEF Compressor
<1>5. /\ m.dictionary[s.w] = s.dictionary[s.w]
      /\ s.w \in m.toCreate <=> s.w \in s.toCreate
      /\ m.toCreate \ {s.w} = NewOnes(s, c)
  <2>1. CASE IsNew(s, c)
    <3>1. s.w # <<c>>
      BY <1>4, <2>1 DEF IsNew
    <3>2. m.dictionary[s.w] = s.dictionary[s.w]
      BY <1>1, <1>4, <2>1, <3>1 DEF MetDictionary, Extend
    <3> QED BY <1>0, <1>1, <2>1, <3>1, <3>2 DEF NewOnes
  <2>2. CASE ~IsNew(s, c)
    BY <1>0, <1>1, <2>2 DEF MetDictionary, NewOnes
  <2> QED BY <2>1, <2>2
<1> HIDE DEF m
<1>6. /\ DOMAIN e = CompressorFields /\ e.bits = Emit(s).bits /\ e.enlargeIn = Emit(s).enlargeIn
      /\ e.numBits = Emit(s).numBits /\ e.dictionary = m.dictionary /\ e.toCreate = NewOnes(s, c)
      /\ e.dictSize = m.dictSize
  <2>1. CASE s.w \in s.toCreate
    <3>1. /\ Emit(s).bits = s.bits \o BitsOf(0, s.numBits) \o BitsOf(s.w[1], 8)
          /\ Emit(s).enlargeIn = LeftAfterTwo(s.enlargeIn, s.numBits)
          /\ Emit(s).numBits = WidthAfterTwo(s.enlargeIn, s.numBits)
      BY <1>0, <2>1, EmitNew
    <3>2. m.w \in m.toCreate
      BY <1>1, <1>5, <2>1
    <3>4. /\ DOMAIN Emit(m) = CompressorFields
          /\ Emit(m).bits = m.bits \o BitsOf(0, m.numBits) \o BitsOf(m.w[1], 8)
          /\ Emit(m).enlargeIn = LeftAfterTwo(m.enlargeIn, m.numBits)
          /\ Emit(m).numBits = WidthAfterTwo(m.enlargeIn, m.numBits)
          /\ Emit(m).dictionary = m.dictionary /\ Emit(m).toCreate = m.toCreate \ {m.w}
          /\ Emit(m).dictSize = m.dictSize
      BY <1>1, <3>2, EmitNew
    <3> QED BY <1>1, <1>5, <3>1, <3>4
  <2>2. CASE s.w \notin s.toCreate
    <3>1. /\ Emit(s).bits = s.bits \o BitsOf(s.dictionary[s.w], s.numBits)
          /\ Emit(s).enlargeIn = LeftAfter(s.enlargeIn, s.numBits)
          /\ Emit(s).numBits = WidthAfter(s.enlargeIn, s.numBits)
      BY <1>0, <2>2, EmitKnown
    <3>2. m.w \notin m.toCreate
      BY <1>1, <1>5, <2>2
    <3>3. /\ DOMAIN Emit(m) = CompressorFields
          /\ Emit(m).bits = m.bits \o BitsOf(m.dictionary[m.w], m.numBits)
          /\ Emit(m).enlargeIn = LeftAfter(m.enlargeIn, m.numBits)
          /\ Emit(m).numBits = WidthAfter(m.enlargeIn, m.numBits)
          /\ Emit(m).dictionary = m.dictionary /\ Emit(m).toCreate = m.toCreate
          /\ Emit(m).dictSize = m.dictSize
      BY <1>1, <3>2, EmitKnown
    <3>4. m.toCreate = NewOnes(s, c)
      BY <1>1, <1>5, <3>2
    <3> QED BY <1>1, <1>5, <3>1, <3>3, <3>4
  <2> QED BY <2>1, <2>2
<1> HIDE DEF e
<1>7. /\ DOMAIN u = CompressorFields /\ u.dictionary = Extend(e.dictionary, s.w \o <<c>>, e.dictSize)
      /\ u.dictSize = e.dictSize + 1 /\ u.bits = e.bits /\ u.toCreate = e.toCreate
      /\ u.enlargeIn = e.enlargeIn /\ u.numBits = e.numBits
  BY <1>6, DefineIs
<1> HIDE DEF u
<1>8. /\ DOMAIN n = CompressorFields /\ n.dictionary = u.dictionary /\ n.dictSize = u.dictSize
      /\ n.toCreate = u.toCreate /\ n.w = <<c>> /\ n.bits = u.bits
      /\ n.enlargeIn = u.enlargeIn /\ n.numBits = u.numBits
  BY <1>7 DEF CompressorFields
<1> HIDE DEF n
<1> QED BY <1>1, <1>2, <1>3, <1>6, <1>7, <1>8

\* Writing keeps to bits and widths, and counts as many codes as it writes.
LEMMA EmitBits ==
  ASSUME NEW s, Compressor(s), s.w # <<>>
  PROVE  /\ Emit(s).bits \in Seq(Bit)
         /\ Emit(s).enlargeIn \in Nat \ {0} /\ Emit(s).numBits \in Nat \ {0, 1}
         /\ TwoTo(s.numBits) \in Nat /\ TwoTo(Emit(s).numBits) \in Nat
         /\ s.toCreate = {} => TwoTo(Emit(s).numBits) + s.enlargeIn = TwoTo(s.numBits) + Emit(s).enlargeIn + 1
         /\ s.toCreate # {} => TwoTo(Emit(s).numBits) + s.enlargeIn = TwoTo(s.numBits) + Emit(s).enlargeIn + 2
         /\ s.toCreate = {} => s.dictionary[s.w] < TwoTo(s.numBits)
<1>1. /\ DOMAIN s = CompressorFields /\ s.w \in Seq(CharCode) /\ s.bits \in Seq(Bit)
      /\ s.enlargeIn \in Nat \ {0} /\ s.numBits \in Nat \ {0, 1} /\ s.dictSize \in Nat \ {0, 1, 2}
      /\ s.toCreate \in {{}, {s.w}} /\ s.w \in DOMAIN s.dictionary
      /\ s.dictionary[s.w] \in 3..(s.dictSize - 1)
      /\ s.toCreate = {} => s.dictSize + s.enlargeIn = TwoTo(s.numBits) + 1
      /\ s.toCreate # {} => s.dictSize + s.enlargeIn = TwoTo(s.numBits) + 2
  BY DEF Compressor
<1> DEFINE left == LeftAfter(s.enlargeIn, s.numBits)
           width == WidthAfter(s.enlargeIn, s.numBits)
<1>2. /\ left \in Nat \ {0} /\ width \in Nat \ {0, 1}
      /\ TwoTo(s.numBits) \in Nat /\ TwoTo(width) \in Nat
      /\ TwoTo(width) + s.enlargeIn = TwoTo(s.numBits) + 1 + left
  BY <1>1, Widths
<1>3. CASE s.toCreate = {}
  <2>1. s.dictionary[s.w] \in Nat /\ s.dictionary[s.w] < TwoTo(s.numBits)
    <3>1. \A x, size, left0, power \in Int :
            x \in 3..(size - 1) /\ left0 > 0 /\ size + left0 = power + 1 => x \in Nat /\ x < power
      OBVIOUS
    <3>2. s.dictionary[s.w] \in Int /\ s.dictSize \in Int /\ s.enlargeIn \in Int /\ s.enlargeIn > 0
          /\ TwoTo(s.numBits) \in Int
      <4>1. s.dictSize \in Int
        BY <1>1
      <4>2. s.dictionary[s.w] \in Int
        BY <1>1, <4>1
      <4>3. s.enlargeIn \in Int /\ s.enlargeIn > 0
        BY <1>1
      <4> QED BY <1>2, <4>1, <4>2, <4>3
    <3>3. s.dictSize + s.enlargeIn = TwoTo(s.numBits) + 1 /\ s.dictionary[s.w] \in 3..(s.dictSize - 1)
      BY <1>1, <1>3
    <3> QED BY <3>1, <3>2, <3>3
  <2>2. s.w \notin s.toCreate
    BY <1>3
  <2>3. /\ Emit(s).bits = s.bits \o BitsOf(s.dictionary[s.w], s.numBits)
        /\ Emit(s).enlargeIn = left /\ Emit(s).numBits = width
    BY <1>1, <2>2, EmitKnown
  <2>4. BitsOf(s.dictionary[s.w], s.numBits) \in Seq(Bit)
    BY <1>1, <2>1, BitsOfIs
  <2>5. Emit(s).bits \in Seq(Bit)
    BY <1>1, <2>3, <2>4, ConcatProperties
  <2> HIDE DEF left, width
  <2> QED BY <1>1, <1>2, <1>3, <2>1, <2>3, <2>5
<1>4. CASE s.toCreate # {}
  <2>1. s.w \in s.toCreate
    BY <1>1, <1>4
  <2>2. /\ Emit(s).bits = s.bits \o BitsOf(0, s.numBits) \o BitsOf(s.w[1], 8)
        /\ Emit(s).enlargeIn = LeftAfter(left, width) /\ Emit(s).numBits = WidthAfter(left, width)
    BY <1>1, <2>1, EmitNew DEF LeftAfterTwo, WidthAfterTwo
  <2>3. s.w[1] \in Nat
    <3>1. 0 \in CharCode
      BY DEF CharCode
    <3>2. s.w[1] \in CharCode
      BY <1>1, <3>1, Strings
    <3> QED BY <3>2, CharCodes
  <2>4. BitsOf(0, s.numBits) \in Seq(Bit) /\ BitsOf(s.w[1], 8) \in Seq(Bit)
    BY <1>1, <2>3, BitsOfIs
  <2>5. s.bits \o BitsOf(0, s.numBits) \in Seq(Bit)
    BY <1>1, <2>4, ConcatProperties
  <2>6. Emit(s).bits \in Seq(Bit)
    BY <2>2, <2>4, <2>5, ConcatProperties
  <2>7. /\ LeftAfter(left, width) \in Nat \ {0} /\ WidthAfter(left, width) \in Nat \ {0, 1}
        /\ TwoTo(WidthAfter(left, width)) \in Nat
        /\ TwoTo(WidthAfter(left, width)) + left = TwoTo(width) + 1 + LeftAfter(left, width)
    <3> HIDE DEF left, width
    <3> QED BY <1>2, Widths
  <2> HIDE DEF left, width
  <2>8. TwoTo(WidthAfter(left, width)) + s.enlargeIn = TwoTo(s.numBits) + LeftAfter(left, width) + 2
    <3>1. \A a, b, p, q, l, r \in Int : p + a = q + 1 + l /\ b + l = p + 1 + r => b + a = q + r + 2
      OBVIOUS
    <3>2. /\ s.enlargeIn \in Int /\ TwoTo(WidthAfter(left, width)) \in Int /\ TwoTo(width) \in Int
          /\ TwoTo(s.numBits) \in Int /\ left \in Int /\ LeftAfter(left, width) \in Int
      BY <1>1, <1>2, <2>7
    <3>3. /\ TwoTo(width) + s.enlargeIn = TwoTo(s.numBits) + 1 + left
          /\ TwoTo(WidthAfter(left, width)) + left = TwoTo(width) + 1 + LeftAfter(left, width)
      BY <1>2, <2>7
    <3> QED BY ONLY <3>1, <3>2, <3>3
  <2> QED BY <1>1, <1>2, <1>4, <2>2, <2>6, <2>7, <2>8
<1> QED BY <1>3, <1>4

\* The compressor begins so.
LEMMA FreshCompressor ==
  Compressor(Fresh)
<1>1. /\ DOMAIN Fresh = CompressorFields /\ Fresh.w = <<>> /\ Fresh.bits = <<>> /\ Fresh.enlargeIn = 2
      /\ Fresh.numBits = 2 /\ Fresh.dictSize = 3 /\ Fresh.toCreate = {} /\ DOMAIN Fresh.dictionary = {}
  BY DEF Fresh, CompressorFields
<1>2. <<>> \in Seq(CharCode) /\ <<>> \in Seq(Bit)
  BY EmptySeq
<1>3. 3 + 2 = TwoTo(2) + 1
  BY TwoToEight
<1> QED BY <1>1, <1>2, <1>3 DEF Compressor

\* And stays so at every character.
LEMMA CompressKeeps ==
  ASSUME NEW s, Compressor(s), NEW c \in CharCode
  PROVE  Compressor(Compress(s, c))
<1> DEFINE n == Compress(s, c)
           wc == s.w \o <<c>>
           dict == s.dictionary
<1>1. /\ DOMAIN s = CompressorFields /\ s.w \in Seq(CharCode) /\ s.bits \in Seq(Bit)
      /\ s.enlargeIn \in Nat \ {0} /\ s.numBits \in Nat \ {0, 1} /\ s.dictSize \in Nat \ {0, 1, 2}
      /\ s.toCreate \in {{}, {s.w}}
      /\ s.w = <<>> => DOMAIN dict = {} /\ s.toCreate = {}
      /\ s.w # <<>> => s.w \in DOMAIN dict
      /\ s.toCreate # {} => Len(s.w) = 1 /\ \A q \in DOMAIN dict : q[1] = s.w[1] => q = s.w
      /\ s.toCreate = {} => s.dictSize + s.enlargeIn = TwoTo(s.numBits) + 1
      /\ s.toCreate # {} => s.dictSize + s.enlargeIn = TwoTo(s.numBits) + 2
  BY DEF Compressor
<1>2. \A q \in DOMAIN dict :
        /\ q \in Seq(CharCode) /\ q # <<>>
        /\ dict[q] \in 3..(s.dictSize - 1)
        /\ \A i \in 1..Len(q) : <<q[i]>> \in DOMAIN dict
  BY DEF Compressor
<1>3. /\ <<c>> \in Seq(CharCode) /\ Len(<<c>>) = 1 /\ <<c>>[1] = c /\ <<c>> # <<>>
      /\ wc \in Seq(CharCode) /\ Len(wc) = Len(s.w) + 1 /\ wc[Len(s.w) + 1] = c
      /\ wc # <<>>
      /\ \A i \in 1..Len(s.w) : wc[i] = s.w[i]
      /\ s.w = <<>> => wc = <<c>>
      /\ s.w # <<>> => Len(s.w) \in Nat \ {0} /\ wc[1] = s.w[1] /\ s.w[1] \in CharCode /\ wc # <<c>>
  BY <1>1, Strings
<1>4. TwoTo(s.numBits) \in Nat
  BY <1>1, TwoToNext
<1>0. Compress(s, c) = n
  OBVIOUS
<1> HIDE DEF wc, dict
<1>5. CASE wc \in DOMAIN MetDictionary(s, c)
  <2>1. /\ DOMAIN n = CompressorFields /\ n.dictionary = MetDictionary(s, c)
        /\ n.dictSize = MetSize(s, c) /\ n.toCreate = s.toCreate \cup NewOnes(s, c)
        /\ n.w = wc /\ n.bits = s.bits /\ n.enlargeIn = s.enlargeIn /\ n.numBits = s.numBits
    BY <1>1, <1>5, CompressOn DEF wc
  <2> HIDE DEF n
  <2>2. CASE s.w = <<>>
    <3>1. IsNew(s, c) /\ wc = <<c>> /\ DOMAIN dict = {}
      BY <1>1, <1>3, <2>2 DEF IsNew, dict
    <3>2. /\ n.dictionary = Extend(dict, <<c>>, s.dictSize) /\ n.dictSize = s.dictSize + 1
          /\ n.toCreate = {<<c>>} /\ n.w = <<c>>
      BY <1>1, <2>1, <2>2, <3>1 DEF MetDictionary, MetSize, NewOnes, dict
    <3>3. DOMAIN n.dictionary = {<<c>>} /\ n.dictionary[<<c>>] = s.dictSize
      BY <3>1, <3>2 DEF Extend
    <3>4. n.dictSize + n.enlargeIn = TwoTo(n.numBits) + 2
      <4>1. s.dictSize + s.enlargeIn = TwoTo(s.numBits) + 1
        BY <1>1, <2>2
      <4>2. s.dictSize \in Int /\ s.enlargeIn \in Int
        BY <1>1
      <4> QED BY <1>4, <2>1, <3>2, <4>1, <4>2
    <3>5. n.dictSize \in Nat \ {0, 1, 2} /\ s.dictSize \in 3..(n.dictSize - 1)
      BY <1>1, <3>2
    <3>6. \A q \in DOMAIN n.dictionary :
            /\ q \in Seq(CharCode) /\ q # <<>>
            /\ n.dictionary[q] \in 3..(n.dictSize - 1)
            /\ \A i \in 1..Len(q) : <<q[i]>> \in DOMAIN n.dictionary
            /\ q = n.w
      <4>1. \A i \in 1..Len(<<c>>) : i = 1
        BY <1>3
      <4>2. \A i \in 1..Len(<<c>>) : << <<c>>[i] >> \in DOMAIN n.dictionary
        BY <1>3, <3>3, <4>1
      <4> QED BY <1>3, <3>2, <3>3, <3>5, <4>2
    <3>7. n.w \in DOMAIN n.dictionary /\ n.w # <<>> /\ Len(n.w) = 1 /\ n.w \in Seq(CharCode)
          /\ n.toCreate # {} /\ n.toCreate \in {{}, {n.w}}
      BY <1>3, <3>2, <3>3
    <3>8. n.bits \in Seq(Bit) /\ n.enlargeIn \in Nat \ {0} /\ n.numBits \in Nat \ {0, 1}
      BY <1>1, <2>1
    <3> QED BY <1>0, <2>1, <3>4, <3>5, <3>6, <3>7, <3>8 DEF Compressor
  <2>3. CASE s.w # <<>>
    <3>1. wc \in DOMAIN dict
      BY <1>3, <1>5, <2>3 DEF MetDictionary, Extend, dict
    <3>2. <<c>> \in DOMAIN dict
      <4>1. Len(s.w) + 1 \in 1..Len(wc)
        BY <1>3, <2>3
      <4>2. <<wc[Len(s.w) + 1]>> \in DOMAIN dict
        BY <1>2, <3>1, <4>1
      <4> QED BY <1>3, <4>2
    <3>3. s.toCreate = {}
      <4>1. ASSUME s.toCreate # {} PROVE FALSE
        <5>1. wc = s.w
          BY <1>1, <1>3, <2>3, <3>1, <4>1
        <5> QED BY <1>3, <2>3, <5>1
      <4> QED BY <4>1
    <3>4. ~IsNew(s, c)
      BY <3>2 DEF IsNew, dict
    <3>5. n.dictionary = dict /\ n.dictSize = s.dictSize /\ n.toCreate = {}
      BY <2>1, <3>3, <3>4 DEF MetDictionary, MetSize, NewOnes, dict
    <3> QED BY <1>0, <1>1, <1>2, <1>3, <2>1, <3>1, <3>3, <3>5 DEF Compressor
  <2> QED BY <2>2, <2>3
<1>6. CASE wc \notin DOMAIN MetDictionary(s, c)
  <2>1. /\ s.w # <<>> /\ DOMAIN n = CompressorFields
        /\ n.dictionary = Extend(MetDictionary(s, c), wc, MetSize(s, c))
        /\ n.dictSize = MetSize(s, c) + 1 /\ n.toCreate = NewOnes(s, c)
        /\ n.w = <<c>> /\ n.bits = Emit(s).bits
        /\ n.enlargeIn = Emit(s).enlargeIn /\ n.numBits = Emit(s).numBits
    BY <1>6, CompressEmits DEF wc
  <2> HIDE DEF n
  <2>2. /\ n.bits \in Seq(Bit) /\ n.enlargeIn \in Nat \ {0} /\ n.numBits \in Nat \ {0, 1}
        /\ TwoTo(n.numBits) \in Nat
        /\ s.toCreate = {} => TwoTo(n.numBits) + s.enlargeIn = TwoTo(s.numBits) + n.enlargeIn + 1
        /\ s.toCreate # {} => TwoTo(n.numBits) + s.enlargeIn = TwoTo(s.numBits) + n.enlargeIn + 2
    BY <2>1, EmitBits
  <2>3. DOMAIN n.dictionary = DOMAIN MetDictionary(s, c) \cup {wc} /\ n.dictionary[wc] = MetSize(s, c)
        /\ \A q \in DOMAIN MetDictionary(s, c) : n.dictionary[q] = MetDictionary(s, c)[q]
    BY <1>6, <2>1 DEF Extend
  <2>4. s.w \in DOMAIN dict /\ dict[s.w] \in 3..(s.dictSize - 1)
    BY <1>1, <1>2, <2>1
  <2>5. \A i \in 1..Len(wc) : i \in 1..Len(s.w) \/ i = Len(s.w) + 1
    BY <1>3, <2>1
  <2>6. CASE IsNew(s, c)
    <3>1. /\ MetDictionary(s, c) = Extend(dict, <<c>>, s.dictSize) /\ MetSize(s, c) = s.dictSize + 1
          /\ NewOnes(s, c) = {<<c>>} /\ <<c>> \notin DOMAIN dict
      BY <2>6 DEF MetDictionary, MetSize, NewOnes, IsNew, dict
    <3>2. /\ DOMAIN MetDictionary(s, c) = DOMAIN dict \cup {<<c>>}
          /\ MetDictionary(s, c)[<<c>>] = s.dictSize
          /\ \A q \in DOMAIN dict : MetDictionary(s, c)[q] = dict[q]
      BY <3>1 DEF Extend
    <3>3. /\ DOMAIN n.dictionary = DOMAIN dict \cup {<<c>>, wc} /\ n.dictSize = s.dictSize + 1 + 1
          /\ n.dictionary[wc] = s.dictSize + 1 /\ n.dictionary[<<c>>] = s.dictSize
          /\ \A q \in DOMAIN dict : n.dictionary[q] = dict[q]
          /\ n.toCreate = {<<c>>}
      BY <2>1, <2>3, <3>1, <3>2
    <3>4. \A q \in DOMAIN n.dictionary : q \in DOMAIN dict \/ q = <<c>> \/ q = wc
      BY <3>3
    <3>5. ASSUME NEW q \in DOMAIN n.dictionary
          PROVE  /\ q \in Seq(CharCode) /\ q # <<>> /\ n.dictionary[q] \in 3..(n.dictSize - 1)
                 /\ \A i \in 1..Len(q) : <<q[i]>> \in DOMAIN n.dictionary
                 /\ q[1] = c => q = <<c>>
      <4>1. CASE q \in DOMAIN dict
        <5>1. q \in Seq(CharCode) /\ q # <<>> /\ dict[q] \in 3..(s.dictSize - 1)
              /\ \A i \in 1..Len(q) : <<q[i]>> \in DOMAIN dict
          BY <1>2, <4>1
        <5>2. 1 \in 1..Len(q)
          BY <5>1, EmptySeq
        <5>3. q[1] # c
          BY <3>1, <5>1, <5>2
        <5>4. n.dictionary[q] = dict[q]
          BY <3>3, <4>1
        <5>5. n.dictionary[q] \in 3..(n.dictSize - 1)
          BY <1>1, <3>3, <5>1, <5>4
        <5> QED BY <3>3, <5>1, <5>3, <5>5
      <4>2. CASE q = <<c>>
        <5>1. \A i \in 1..Len(q) : i = 1
          BY <1>3, <4>2
        <5>2. s.dictSize \in 3..(n.dictSize - 1)
          BY <1>1, <2>4, <3>3
        <5>3. \A i \in 1..Len(q) : <<q[i]>> \in DOMAIN n.dictionary
          BY <1>3, <3>3, <4>2, <5>1
        <5> QED BY <1>3, <3>3, <4>2, <5>2, <5>3
      <4>3. CASE q = wc
        <5>1. s.dictSize + 1 \in 3..(n.dictSize - 1)
          BY <1>1, <2>4, <3>3
        <5>2. \A i \in 1..Len(wc) : <<wc[i]>> \in DOMAIN n.dictionary
          BY <1>2, <1>3, <2>4, <2>5, <3>3
        <5>3. wc[1] # c
          <6>1. 1 \in 1..Len(s.w) /\ wc[1] = s.w[1]
            BY <1>3, <2>1
          <6>2. <<s.w[1]>> \in DOMAIN dict
            BY <1>2, <2>4, <6>1
          <6> QED BY <3>1, <6>1, <6>2
        <5> QED BY <1>3, <3>3, <4>3, <5>1, <5>2, <5>3
      <4> QED BY <3>4, <4>1, <4>2, <4>3
    <3>6. n.dictSize + n.enlargeIn = TwoTo(n.numBits) + 2
      <4>1. /\ s.dictSize \in Int /\ s.enlargeIn \in Int /\ TwoTo(s.numBits) \in Int
            /\ n.enlargeIn \in Int /\ TwoTo(n.numBits) \in Int /\ n.dictSize = s.dictSize + 1 + 1
        BY <1>1, <1>4, <2>2, <3>3
      <4>2. CASE s.toCreate = {}
        <5>1. s.dictSize + s.enlargeIn = TwoTo(s.numBits) + 1
          BY <1>1, <4>2
        <5>2. TwoTo(n.numBits) + s.enlargeIn = TwoTo(s.numBits) + n.enlargeIn + 1
          BY <2>2, <4>2
        <5> QED BY ONLY <4>1, <5>1, <5>2
      <4>3. CASE s.toCreate # {}
        <5>1. s.dictSize + s.enlargeIn = TwoTo(s.numBits) + 2
          BY <1>1, <4>3
        <5>2. TwoTo(n.numBits) + s.enlargeIn = TwoTo(s.numBits) + n.enlargeIn + 2
          BY <2>2, <4>3
        <5> QED BY ONLY <4>1, <5>1, <5>2
      <4> QED BY <4>2, <4>3
    <3>7. n.dictSize \in Nat \ {0, 1, 2}
      BY <1>1, <3>3
    <3>8. n.w \in Seq(CharCode) /\ n.w # <<>> /\ n.toCreate \in {{}, {n.w}} /\ n.w \in DOMAIN n.dictionary
          /\ Len(n.w) = 1 /\ n.w[1] = c
      BY <1>3, <2>1, <3>3
    <3>9. \A q \in DOMAIN n.dictionary : q[1] = n.w[1] => q = n.w
      BY <2>1, <3>5, <3>8
    <3>10. n.toCreate # {}
      BY <3>3
    <3> QED BY <1>0, <2>1, <2>2, <3>5, <3>6, <3>7, <3>8, <3>9, <3>10 DEF Compressor
  <2>7. CASE ~IsNew(s, c)
    <3>1. /\ MetDictionary(s, c) = dict /\ MetSize(s, c) = s.dictSize
          /\ NewOnes(s, c) = {} /\ <<c>> \in DOMAIN dict
      BY <2>7 DEF MetDictionary, MetSize, NewOnes, IsNew, dict
    <3>2. /\ DOMAIN n.dictionary = DOMAIN dict \cup {wc} /\ n.dictSize = s.dictSize + 1
          /\ n.dictionary[wc] = s.dictSize
          /\ \A q \in DOMAIN dict : n.dictionary[q] = dict[q]
          /\ n.toCreate = {}
      BY <2>1, <2>3, <3>1
    <3>3. ASSUME NEW q \in DOMAIN n.dictionary
          PROVE  /\ q \in Seq(CharCode) /\ q # <<>> /\ n.dictionary[q] \in 3..(n.dictSize - 1)
                 /\ \A i \in 1..Len(q) : <<q[i]>> \in DOMAIN n.dictionary
      <4>1. CASE q \in DOMAIN dict
        <5>1. q \in Seq(CharCode) /\ q # <<>> /\ dict[q] \in 3..(s.dictSize - 1)
              /\ \A i \in 1..Len(q) : <<q[i]>> \in DOMAIN dict
          BY <1>2, <4>1
        <5>2. n.dictionary[q] = dict[q]
          BY <3>2, <4>1
        <5>3. n.dictionary[q] \in 3..(n.dictSize - 1)
          BY <1>1, <3>2, <5>1, <5>2
        <5> QED BY <3>2, <5>1, <5>3
      <4>2. CASE q = wc
        <5>1. s.dictSize \in 3..(n.dictSize - 1)
          BY <1>1, <2>4, <3>2
        <5>2. \A i \in 1..Len(wc) : <<wc[i]>> \in DOMAIN n.dictionary
          BY <1>2, <1>3, <2>4, <2>5, <3>1, <3>2
        <5> QED BY <1>3, <3>2, <4>2, <5>1, <5>2
      <4> QED BY <3>2, <4>1, <4>2
    <3>4. n.dictSize + n.enlargeIn = TwoTo(n.numBits) + 1
      <4>1. /\ s.dictSize \in Int /\ s.enlargeIn \in Int /\ TwoTo(s.numBits) \in Int
            /\ n.enlargeIn \in Int /\ TwoTo(n.numBits) \in Int /\ n.dictSize = s.dictSize + 1
        BY <1>1, <1>4, <2>2, <3>2
      <4>2. CASE s.toCreate = {}
        <5>1. s.dictSize + s.enlargeIn = TwoTo(s.numBits) + 1
          BY <1>1, <4>2
        <5>2. TwoTo(n.numBits) + s.enlargeIn = TwoTo(s.numBits) + n.enlargeIn + 1
          BY <2>2, <4>2
        <5> QED BY ONLY <4>1, <5>1, <5>2
      <4>3. CASE s.toCreate # {}
        <5>1. s.dictSize + s.enlargeIn = TwoTo(s.numBits) + 2
          BY <1>1, <4>3
        <5>2. TwoTo(n.numBits) + s.enlargeIn = TwoTo(s.numBits) + n.enlargeIn + 2
          BY <2>2, <4>3
        <5> QED BY ONLY <4>1, <5>1, <5>2
      <4> QED BY <4>2, <4>3
    <3>5. n.dictSize \in Nat \ {0, 1, 2}
      BY <1>1, <3>2
    <3>6. n.w \in Seq(CharCode) /\ n.w # <<>> /\ n.toCreate \in {{}, {n.w}} /\ n.w \in DOMAIN n.dictionary
      BY <1>3, <2>1, <3>1, <3>2
    <3> QED BY <1>0, <2>1, <2>2, <3>2, <3>3, <3>4, <3>5, <3>6 DEF Compressor
  <2> QED BY <2>6, <2>7
<1> QED BY <1>5, <1>6

Extends(bits, part) == Len(part) <= Len(bits) /\ \A i \in 1..Len(part) : bits[i] = part[i]

\* Bits that begin with two parts begin with the first.
LEMMA ExtendsLess ==
  ASSUME NEW bits, Len(bits) \in Nat, NEW a \in Seq(Bit), NEW b \in Seq(Bit), Extends(bits, a \o b)
  PROVE  Extends(bits, a)
<1>1. /\ Len(a \o b) = Len(a) + Len(b)
      /\ \A i \in 1..(Len(a) + Len(b)) : (a \o b)[i] = IF i <= Len(a) THEN a[i] ELSE b[i - Len(a)]
  BY ConcatProperties
<1>2. Len(a) \in Nat /\ Len(b) \in Nat
  BY LenProperties
<1>3. \A i \in 1..Len(a) : i \in 1..(Len(a) + Len(b)) /\ (a \o b)[i] = a[i]
  BY <1>1, <1>2
<1> QED BY <1>1, <1>2, <1>3 DEF Extends

\* After part, the value is read.
PartRead(bits, part, width, value) ==
  /\ ReadBits(bits, Len(part), width) = value
  /\ Len(bits) \in Nat /\ Len(part) \in Nat /\ Len(part) + width <= Len(bits)
  /\ part \o BitsOf(value, width) \in Seq(Bit)
  /\ Len(part \o BitsOf(value, width)) = Len(part) + width

\* The value written after a part is read there.
LEMMA ReadPart ==
  ASSUME NEW bits \in Seq(Bit), NEW part \in Seq(Bit), NEW width \in Nat \ {0},
         NEW value \in Nat, value < TwoTo(width), Extends(bits, part \o BitsOf(value, width))
  PROVE  PartRead(bits, part, width, value)
<1> DEFINE b == BitsOf(value, width)
<1>1. b \in Seq(Bit) /\ Len(b) = width
  BY BitsOfIs
<1> HIDE DEF b
<1>2. /\ part \o b \in Seq(Bit) /\ Len(part \o b) = Len(part) + width
      /\ \A i \in 1..(Len(part) + width) : (part \o b)[i] = IF i <= Len(part) THEN part[i] ELSE b[i - Len(part)]
  BY <1>1, ConcatProperties
<1>3. Len(bits) \in Nat /\ Len(part) \in Nat
  BY LenProperties
<1>4. Extends(bits, part \o b)
  BY DEF b
<1>5. Len(part) + width <= Len(bits)
  BY <1>2, <1>4 DEF Extends
<1>6. ASSUME NEW i \in 1..width PROVE bits[Len(part) + i] = b[i]
  <2>1. Len(part) + i \in 1..(Len(part) + width) /\ ~(Len(part) + i <= Len(part)) /\ (Len(part) + i) - Len(part) = i
    BY <1>3
  <2>2. (part \o b)[Len(part) + i] = b[i]
    BY <1>2, <2>1
  <2> QED BY <1>2, <1>4, <2>1, <2>2 DEF Extends
<1>7. ReadBits(bits, Len(part), width) = value
  BY <1>3, <1>5, <1>6, ReadBitsIs DEF b
<1> QED BY <1>2, <1>3, <1>5, <1>7 DEF b, PartRead

\* The entries are the strings of the codes below a size.
Indexed(entries, size, dict) ==
  /\ DOMAIN entries = 3..(size - 1)
  /\ \A k \in DOMAIN entries : entries[k] \in DOMAIN dict /\ dict[entries[k]] = k
Entry(entries, size, dict, q) == dict[q] \in 3..(size - 1) /\ entries[dict[q]] = q

\* The next code gets its string.
LEMMA IndexedMore ==
  ASSUME NEW size \in Nat \ {0, 1, 2}, NEW dict, NEW entries, Indexed(entries, size, dict),
         NEW q \in DOMAIN dict, dict[q] = size
  PROVE  /\ Indexed(Extend(entries, size, q), size + 1, dict)
         /\ Entry(Extend(entries, size, q), size + 1, dict, q)
         /\ \A p \in DOMAIN dict : Entry(entries, size, dict, p) => Entry(Extend(entries, size, q), size + 1, dict, p)
<1> DEFINE e == Extend(entries, size, q)
<1>1. DOMAIN entries = 3..(size - 1) /\ size \notin DOMAIN entries
  BY DEF Indexed
<1>2. DOMAIN e = DOMAIN entries \cup {size} /\ e[size] = q /\ \A k \in DOMAIN entries : e[k] = entries[k]
  BY <1>1 DEF Extend
<1> HIDE DEF e
<1>3. 3..((size + 1) - 1) = (3..(size - 1)) \cup {size}
  OBVIOUS
<1>4. Indexed(e, size + 1, dict)
  BY <1>1, <1>2, <1>3 DEF Indexed
<1>5. Entry(e, size + 1, dict, q)
  BY <1>2, <1>3 DEF Entry
<1>6. ASSUME NEW p \in DOMAIN dict, Entry(entries, size, dict, p) PROVE Entry(e, size + 1, dict, p)
  BY <1>1, <1>2, <1>3, <1>6 DEF Entry
<1> QED BY <1>4, <1>5, <1>6 DEF e

-------------------------------------------------------------------------------
(* The two sides *)

\* The decompressor has read all that is written.  It lacks the characters that are yet
\* to be announced, and the string that the last one read begins.
InStep(s, d, text) ==
  /\ DOMAIN d = DecoderFields /\ d.status = "reading" /\ d.bits \in Seq(Bit)
  /\ d.at = Len(s.bits) /\ d.enlargeIn = s.enlargeIn /\ d.numBits = s.numBits
  /\ d.text \in Seq(CharCode) /\ d.w \in Seq(CharCode) /\ d.text \o s.w = text
  /\ d.dictSize \in Nat \ {0, 1, 2} /\ Indexed(d.entries, d.dictSize, s.dictionary)
  /\ \A q \in DOMAIN s.dictionary :
       \/ q \in s.toCreate
       \/ Entry(d.entries, d.dictSize, s.dictionary, q)
       \/ d.w # <<>> /\ q = d.w \o <<s.w[1]>>
  /\ s.toCreate # {} => s.dictionary[s.w] = d.dictSize
  /\ d.w = <<>> => /\ d.dictSize = 3
                   /\ s.toCreate = {} => s.dictSize = 3
                   /\ s.toCreate # {} => s.dictSize = 4
  /\ d.w # <<>> => /\ s.w # <<>> /\ d.w \o <<s.w[1]>> \in DOMAIN s.dictionary
                   /\ s.dictionary[d.w \o <<s.w[1]>>] = s.dictSize - 1
                   /\ s.toCreate = {} => s.dictSize = d.dictSize + 1
                   /\ s.toCreate # {} => s.dictSize = d.dictSize + 2

\* The decompressor has read the code of the string so far as well: it lacks nothing.
CaughtUp(s, d, text) ==
  /\ DOMAIN d = DecoderFields /\ d.status = "reading" /\ d.bits \in Seq(Bit)
  /\ d.at = Len(Emit(s).bits) /\ d.enlargeIn = Emit(s).enlargeIn /\ d.numBits = Emit(s).numBits
  /\ d.text = text /\ d.w = s.w /\ d.dictSize = s.dictSize
  /\ Indexed(d.entries, s.dictSize, s.dictionary)
  /\ \A q \in DOMAIN s.dictionary : Entry(d.entries, s.dictSize, s.dictionary, q)

\* A code that is not 0 is read: it is in the entries, or the next one, the case in which the
\* string just begun is written at once.
LEMMA KnownRead ==
  ASSUME NEW s, Compressor(s), s.w # <<>>, s.toCreate = {}, NEW text, NEW d, InStep(s, d, text),
         Extends(d.bits, Emit(s).bits)
  PROVE  CaughtUp(s, Decompress(d), text) /\ Decompress(d).bits = d.bits
<1> DEFINE n == Decompress(d)
           dict == s.dictionary
           code == dict[s.w]
           rest == d.w \o <<s.w[1]>>
<1>1. /\ DOMAIN s = CompressorFields /\ s.w \in Seq(CharCode) /\ s.bits \in Seq(Bit)
      /\ s.numBits \in Nat \ {0, 1} /\ s.dictSize \in Nat \ {0, 1, 2}
      /\ s.w \in DOMAIN dict /\ code \in 3..(s.dictSize - 1)
  BY DEF Compressor
<1>2. /\ DOMAIN d = DecoderFields /\ d.status = "reading" /\ d.bits \in Seq(Bit)
      /\ d.at = Len(s.bits) /\ d.enlargeIn = s.enlargeIn /\ d.numBits = s.numBits
      /\ d.text \in Seq(CharCode) /\ d.w \in Seq(CharCode) /\ d.text \o s.w = text
      /\ d.dictSize \in Nat \ {0, 1, 2} /\ Indexed(d.entries, d.dictSize, dict)
  BY DEF InStep
<1>3. code < TwoTo(s.numBits) /\ code \in Nat
  BY <1>1, EmitBits
<1>4. /\ Emit(s).bits = s.bits \o BitsOf(code, s.numBits)
      /\ Emit(s).enlargeIn = LeftAfter(s.enlargeIn, s.numBits)
      /\ Emit(s).numBits = WidthAfter(s.enlargeIn, s.numBits)
  BY <1>1, EmitKnown
<1>5. /\ d.w # <<>> /\ rest \in DOMAIN dict /\ dict[rest] = s.dictSize - 1 /\ s.dictSize = d.dictSize + 1
  <2>1. d.w # <<>>
    <3> SUFFICES ASSUME d.w = <<>> PROVE FALSE
      OBVIOUS
    <3>1. s.dictSize = 3
      BY DEF InStep
    <3> QED BY <1>1, <3>1
  <2> QED BY <2>1 DEF InStep
<1>6. \A q \in DOMAIN dict : Entry(d.entries, d.dictSize, dict, q) \/ q = rest
  BY DEF InStep
<1> HIDE DEF code, dict, rest
<1>7. /\ ReadBits(d.bits, d.at, d.numBits) = code
      /\ Len(d.bits) \in Nat /\ d.at + d.numBits \in Nat /\ d.at + d.numBits <= Len(d.bits)
      /\ Len(Emit(s).bits) = d.at + d.numBits
  <2>1. Extends(d.bits, s.bits \o BitsOf(code, s.numBits)) /\ s.numBits \in Nat \ {0}
    BY <1>1, <1>4
  <2>2. /\ ReadBits(d.bits, Len(s.bits), s.numBits) = code
        /\ Len(d.bits) \in Nat /\ Len(s.bits) \in Nat /\ Len(s.bits) + s.numBits <= Len(d.bits)
        /\ Len(s.bits \o BitsOf(code, s.numBits)) = Len(s.bits) + s.numBits
    <3>1. PartRead(d.bits, s.bits, s.numBits, code)
      BY <1>1, <1>2, <1>3, <2>1, ReadPart
    <3> QED BY <3>1 DEF PartRead
  <2> QED BY <1>1, <1>2, <1>4, <2>2
<1>8. /\ code \in DOMAIN d.entries \/ code = d.dictSize
      /\ s.w = IF code \in DOMAIN d.entries THEN d.entries[code] ELSE d.w \o <<d.w[1]>>
  <2>1. CASE Entry(d.entries, d.dictSize, dict, s.w)
    <3>1. code \in 3..(d.dictSize - 1) /\ d.entries[code] = s.w /\ DOMAIN d.entries = 3..(d.dictSize - 1)
      BY <1>2, <2>1 DEF Entry, Indexed, code
    <3> QED BY <3>1
  <2>2. CASE s.w = rest
    <3>1. code = d.dictSize
      BY <1>2, <1>5, <2>2 DEF code
    <3>2. code \notin DOMAIN d.entries
      BY <1>2, <3>1 DEF Indexed
    <3>3. s.w[1] \in CharCode
      <4>1. 0 \in CharCode
        BY DEF CharCode
      <4> QED BY <1>1, <4>1, Strings
    <3>4. rest[1] = d.w[1]
      BY <1>2, <1>5, <3>3, Strings DEF rest
    <3> QED BY <2>2, <3>1, <3>2, <3>4 DEF rest
  <2> QED BY <1>1, <1>6, <2>1, <2>2
<1>9. /\ DOMAIN n = DecoderFields /\ n.status = d.status /\ n.bits = d.bits
      /\ n.at = d.at + d.numBits /\ n.text = d.text \o s.w /\ n.w = s.w
      /\ n.enlargeIn = LeftAfter(d.enlargeIn, d.numBits)
      /\ n.numBits = WidthAfter(d.enlargeIn, d.numBits)
      /\ n.entries = Extend(d.entries, d.dictSize, rest)
      /\ n.dictSize = d.dictSize + 1
  <2>1. code \notin {0, 2}
    BY <1>1
  <2>2. KnownOf(n, d, s.w)
    BY <1>2, <1>7, <1>8, <1>5, <2>1, DecompressKnown
  <2> HIDE DEF n
  <2> QED BY <1>5, <2>2 DEF rest, KnownOf
<1> HIDE DEF n
<1>10. /\ Indexed(n.entries, s.dictSize, dict)
       /\ \A q \in DOMAIN dict : Entry(n.entries, s.dictSize, dict, q)
  <2>1. dict[rest] = d.dictSize
    BY <1>2, <1>5
  <2>2. /\ Indexed(n.entries, d.dictSize + 1, dict)
        /\ Entry(n.entries, d.dictSize + 1, dict, rest)
        /\ \A p \in DOMAIN dict : Entry(d.entries, d.dictSize, dict, p) => Entry(n.entries, d.dictSize + 1, dict, p)
    BY <1>2, <1>5, <1>9, <2>1, IndexedMore
  <2> QED BY <1>5, <1>6, <2>2
<1>11. CaughtUp(s, n, text)
  BY <1>2, <1>4, <1>5, <1>7, <1>9, <1>10 DEF CaughtUp, dict
<1> QED BY <1>9, <1>11 DEF n

\* Code 0 and a character are read.
LEMMA NewRead ==
  ASSUME NEW s, Compressor(s), s.w # <<>>, s.toCreate # {}, NEW text, NEW d, InStep(s, d, text),
         Extends(d.bits, Emit(s).bits)
  PROVE  CaughtUp(s, Decompress(d), text) /\ Decompress(d).bits = d.bits
<1> DEFINE n == Decompress(d)
           dict == s.dictionary
           c == s.w[1]
           rest == d.w \o <<c>>
<1>1. /\ DOMAIN s = CompressorFields /\ s.w \in Seq(CharCode) /\ s.bits \in Seq(Bit)
      /\ s.numBits \in Nat \ {0, 1} /\ s.dictSize \in Nat \ {0, 1, 2} /\ s.toCreate = {s.w}
      /\ s.w \in DOMAIN dict /\ Len(s.w) = 1
  BY DEF Compressor
<1>2. /\ DOMAIN d = DecoderFields /\ d.status = "reading" /\ d.bits \in Seq(Bit)
      /\ d.at = Len(s.bits) /\ d.enlargeIn = s.enlargeIn /\ d.numBits = s.numBits
      /\ d.text \in Seq(CharCode) /\ d.w \in Seq(CharCode) /\ d.text \o s.w = text
      /\ d.dictSize \in Nat \ {0, 1, 2} /\ Indexed(d.entries, d.dictSize, dict)
      /\ dict[s.w] = d.dictSize
  BY DEF InStep
<1>3. s.w = <<c>> /\ c \in CharCode /\ c \in Nat /\ c < 256
  <2>1. 0 \in CharCode
    BY DEF CharCode
  <2>2. s.w = <<c>> /\ c \in CharCode
    BY <1>1, <2>1, Strings
  <2> QED BY <2>2, CharCodes
<1>4. /\ Emit(s).bits = s.bits \o BitsOf(0, s.numBits) \o BitsOf(c, 8)
      /\ Emit(s).enlargeIn = LeftAfterTwo(s.enlargeIn, s.numBits)
      /\ Emit(s).numBits = WidthAfterTwo(s.enlargeIn, s.numBits)
  BY <1>1, EmitNew
<1>5. d.w = <<>> => d.dictSize = 3 /\ s.dictSize = d.dictSize + 1
  BY DEF InStep
<1>6. d.w # <<>> => rest \in DOMAIN dict /\ dict[rest] = s.dictSize - 1 /\ s.dictSize = d.dictSize + 1 + 1
  <2> SUFFICES ASSUME d.w # <<>> PROVE rest \in DOMAIN dict /\ dict[rest] = s.dictSize - 1 /\ s.dictSize = d.dictSize + 1 + 1
    OBVIOUS
  <2>1. rest \in DOMAIN dict /\ dict[rest] = s.dictSize - 1 /\ s.dictSize = d.dictSize + 2
    BY DEF InStep
  <2> QED BY <1>2, <2>1
<1>7. \A q \in DOMAIN dict : q = s.w \/ Entry(d.entries, d.dictSize, dict, q) \/ (d.w # <<>> /\ q = rest)
  BY <1>1 DEF InStep
<1> HIDE DEF dict, c, rest
<1>8. /\ ReadBits(d.bits, d.at, d.numBits) = 0 /\ ReadBits(d.bits, d.at + d.numBits, 8) = c
      /\ Len(d.bits) \in Nat /\ d.at + d.numBits \in Nat /\ d.at + d.numBits <= Len(d.bits)
      /\ Len(Emit(s).bits) = d.at + d.numBits + 8
  <2> DEFINE told == s.bits \o BitsOf(0, s.numBits)
  <2>1. TwoTo(s.numBits) >= 4 /\ TwoTo(s.numBits) \in Nat /\ TwoTo(8) = 256
    <3>1. s.numBits \in Nat /\ s.numBits >= 2
      BY <1>1
    <3> QED BY <3>1, TwoToGrows, TwoToNext, TwoToEight
  <2>2. told \in Seq(Bit) /\ BitsOf(c, 8) \in Seq(Bit)
    <3>1. BitsOf(0, s.numBits) \in Seq(Bit) /\ BitsOf(c, 8) \in Seq(Bit)
      BY <1>1, <1>3, BitsOfIs
    <3> QED BY <1>1, <3>1, ConcatProperties
  <2>3. Extends(d.bits, told \o BitsOf(c, 8)) /\ Len(d.bits) \in Nat
    BY <1>2, <1>4, LenProperties
  <2>4. Extends(d.bits, told)
    <3> HIDE DEF told
    <3> QED BY <2>2, <2>3, ExtendsLess
  <2>5. /\ ReadBits(d.bits, Len(s.bits), s.numBits) = 0
        /\ Len(s.bits) \in Nat /\ Len(s.bits) + s.numBits <= Len(d.bits)
        /\ Len(told) = Len(s.bits) + s.numBits
    <3>1. 0 < TwoTo(s.numBits) /\ s.numBits \in Nat \ {0}
      BY <1>1, <2>1
    <3>2. Extends(d.bits, s.bits \o BitsOf(0, s.numBits)) /\ 0 \in Nat
      BY <2>4
    <3>3. PartRead(d.bits, s.bits, s.numBits, 0)
      BY <1>1, <1>2, <3>1, <3>2, ReadPart
    <3> QED BY <3>3 DEF PartRead
  <2> HIDE DEF told
  <2>6. /\ ReadBits(d.bits, Len(told), 8) = c
        /\ Len(told \o BitsOf(c, 8)) = Len(told) + 8
    <3>1. c < TwoTo(8) /\ 8 \in Nat \ {0}
      BY <1>3, <2>1
    <3>2. PartRead(d.bits, told, 8, c)
      BY <1>2, <1>3, <2>2, <2>3, <3>1, ReadPart
    <3> QED BY <3>2 DEF PartRead
  <2>7. Emit(s).bits = told \o BitsOf(c, 8)
    BY <1>4 DEF told
  <2> QED BY <1>1, <1>2, <2>3, <2>5, <2>6, <2>7
<1>9. /\ DOMAIN n = DecoderFields /\ n.status = d.status /\ n.bits = d.bits
      /\ n.at = d.at + d.numBits + 8 /\ n.text = d.text \o s.w /\ n.w = s.w
      /\ n.enlargeIn = LeftAfterTwo(d.enlargeIn, d.numBits)
      /\ n.numBits = WidthAfterTwo(d.enlargeIn, d.numBits)
      /\ d.w = <<>> => /\ n.entries = Extend(d.entries, d.dictSize, s.w)
                       /\ n.dictSize = d.dictSize + 1
      /\ d.w # <<>> => /\ n.entries = Extend(Extend(d.entries, d.dictSize, s.w), d.dictSize + 1, rest)
                       /\ n.dictSize = d.dictSize + 1 + 1
  <2>1. NewOf(n, d, c)
    BY <1>2, <1>8, DecompressNew
  <2> HIDE DEF n
  <2> QED BY <1>3, <2>1 DEF rest, NewOf
<1> HIDE DEF n
<1> DEFINE e == Extend(d.entries, d.dictSize, s.w)
<1>10. /\ Indexed(e, d.dictSize + 1, dict)
       /\ Entry(e, d.dictSize + 1, dict, s.w)
       /\ \A p \in DOMAIN dict : Entry(d.entries, d.dictSize, dict, p) => Entry(e, d.dictSize + 1, dict, p)
  BY <1>1, <1>2, IndexedMore
<1>11. /\ Indexed(n.entries, s.dictSize, dict)
       /\ \A q \in DOMAIN dict : Entry(n.entries, s.dictSize, dict, q)
       /\ n.dictSize = s.dictSize
  <2>1. CASE d.w = <<>>
    <3>1. n.entries = e /\ s.dictSize = d.dictSize + 1 /\ n.dictSize = s.dictSize
      BY <1>5, <1>9, <2>1
    <3> HIDE DEF e
    <3> QED BY <1>7, <1>10, <2>1, <3>1
  <2>2. CASE d.w # <<>>
    <3>1. rest \in DOMAIN dict /\ dict[rest] = d.dictSize + 1 /\ s.dictSize = d.dictSize + 1 + 1
          /\ n.dictSize = s.dictSize
      BY <1>2, <1>6, <1>9, <2>2
    <3>2. n.entries = Extend(e, d.dictSize + 1, rest)
      BY <1>9, <2>2
    <3>3. d.dictSize + 1 \in Nat \ {0, 1, 2}
      BY <1>2
    <3> HIDE DEF e
    <3>4. /\ Indexed(n.entries, d.dictSize + 1 + 1, dict)
          /\ Entry(n.entries, d.dictSize + 1 + 1, dict, rest)
          /\ \A p \in DOMAIN dict : Entry(e, d.dictSize + 1, dict, p) => Entry(n.entries, d.dictSize + 1 + 1, dict, p)
      BY <1>10, <3>1, <3>2, <3>3, IndexedMore
    <3> QED BY <1>1, <1>7, <1>10, <3>1, <3>4
  <2> QED BY <2>1, <2>2
<1>12. CaughtUp(s, n, text)
  BY <1>2, <1>4, <1>8, <1>9, <1>11 DEF CaughtUp, dict
<1> QED BY <1>9, <1>12 DEF n

\* What the dictionary holds when a string was added to it, and its last character if new.
Grown(dict, s, c, string) ==
  /\ DOMAIN dict = DOMAIN s.dictionary \cup NewOnes(s, c) \cup {string}
  /\ \A q \in DOMAIN s.dictionary : dict[q] = s.dictionary[q]
  /\ dict[string] = MetSize(s, c)
  /\ IsNew(s, c) => dict[<<c>>] = s.dictSize

\* Adding a string leaves the codes of the others.
LEMMA GrownDictionary ==
  ASSUME NEW s, NEW c, NEW string, string \notin DOMAIN MetDictionary(s, c), string # <<c>>,
         NEW dict, dict = Extend(MetDictionary(s, c), string, MetSize(s, c))
  PROVE  Grown(dict, s, c, string)
<1> USE DEF Grown
<1>1. CASE IsNew(s, c)
  <2> DEFINE met == Extend(s.dictionary, <<c>>, s.dictSize)
  <2>1. MetDictionary(s, c) = met
    BY <1>1 DEF MetDictionary
  <2>2. /\ DOMAIN met = DOMAIN s.dictionary \cup {<<c>>} /\ met[<<c>>] = s.dictSize
        /\ \A q \in DOMAIN s.dictionary : q # <<c>> => met[q] = s.dictionary[q]
    BY DEF Extend
  <2>3. <<c>> \notin DOMAIN s.dictionary
    BY <1>1 DEF IsNew
  <2> HIDE DEF met
  <2> DEFINE more == Extend(met, string, MetSize(s, c))
  <2>4. /\ DOMAIN more = DOMAIN met \cup {string} /\ more[string] = MetSize(s, c)
        /\ \A q \in DOMAIN met : q # string => more[q] = met[q]
    BY DEF Extend
  <2>5. dict = more /\ string \notin DOMAIN met
    BY <2>1
  <2> HIDE DEF more
  <2>6. NewOnes(s, c) = {<<c>>}
    BY <1>1 DEF NewOnes
  <2> QED BY <2>2, <2>3, <2>4, <2>5, <2>6
<1>2. CASE ~IsNew(s, c)
  <2>1. MetDictionary(s, c) = s.dictionary /\ NewOnes(s, c) = {}
    BY <1>2 DEF MetDictionary, NewOnes
  <2> QED BY <1>2, <2>1 DEF Extend
<1> QED BY <1>1, <1>2

\* Joining texts is associative.
LEMMA TextJoined ==
  ASSUME NEW x \in Seq(CharCode), NEW y \in Seq(CharCode), NEW z \in Seq(CharCode)
  PROVE  (x \o y) \o z = x \o (y \o z)
BY ConcatAssociative

\* A character that makes a known string longer is not written: what the decompressor has
\* read stays all that is written.
LEMMA SilentStep ==
  ASSUME NEW s, Compressor(s), NEW c \in CharCode, NEW text, NEW d, InStep(s, d, text),
         s.w \o <<c>> \in DOMAIN MetDictionary(s, c)
  PROVE  InStep(Compress(s, c), d, text \o <<c>>) /\ Compress(s, c).bits = s.bits
<1> DEFINE n == Compress(s, c)
           wc == s.w \o <<c>>
<1>1. /\ DOMAIN s = CompressorFields /\ s.w \in Seq(CharCode) /\ s.toCreate \in {{}, {s.w}}
      /\ s.w = <<>> => DOMAIN s.dictionary = {} /\ s.toCreate = {}
      /\ s.toCreate # {} => \A q \in DOMAIN s.dictionary : q[1] = s.w[1] => q = s.w
      /\ \A q \in DOMAIN s.dictionary : \A i \in 1..Len(q) : <<q[i]>> \in DOMAIN s.dictionary
  BY DEF Compressor
<1>2. /\ DOMAIN d = DecoderFields /\ d.status = "reading" /\ d.bits \in Seq(Bit)
      /\ d.at = Len(s.bits) /\ d.enlargeIn = s.enlargeIn /\ d.numBits = s.numBits
      /\ d.text \in Seq(CharCode) /\ d.w \in Seq(CharCode) /\ d.text \o s.w = text
      /\ d.dictSize \in Nat \ {0, 1, 2} /\ Indexed(d.entries, d.dictSize, s.dictionary)
  BY DEF InStep
<1>3. /\ <<c>> \in Seq(CharCode) /\ <<c>>[1] = c /\ <<c>> # <<>>
      /\ wc \in Seq(CharCode) /\ Len(wc) = Len(s.w) + 1 /\ wc[Len(s.w) + 1] = c
      /\ wc # <<>>
      /\ s.w = <<>> => wc = <<c>>
      /\ s.w # <<>> => Len(s.w) \in Nat \ {0} /\ wc[1] = s.w[1] /\ wc # <<c>>
  BY <1>1, Strings
<1>4. /\ DOMAIN n = CompressorFields /\ n.dictionary = MetDictionary(s, c)
      /\ n.dictSize = MetSize(s, c) /\ n.toCreate = s.toCreate \cup NewOnes(s, c)
      /\ n.w = wc /\ n.bits = s.bits /\ n.enlargeIn = s.enlargeIn /\ n.numBits = s.numBits
  BY <1>1, CompressOn
<1>5. d.text \o wc = text \o <<c>>
  <2>1. (d.text \o s.w) \o <<c>> = d.text \o (s.w \o <<c>>)
    BY <1>1, <1>2, <1>3, TextJoined
  <2> QED BY <1>2, <2>1
<1>6. wc \in DOMAIN MetDictionary(s, c) /\ Compress(s, c) = n
  OBVIOUS
<1> HIDE DEF n, wc
<1>7. CASE s.w = <<>>
  <2>1. /\ IsNew(s, c) /\ s.toCreate = {} /\ wc = <<c>>
    BY <1>1, <1>3, <1>7 DEF IsNew
  <2>2. d.w = <<>> /\ d.dictSize = 3 /\ s.dictSize = 3
    BY <1>7, <2>1 DEF InStep
  <2>3. /\ DOMAIN n.dictionary = {<<c>>} /\ n.dictionary[<<c>>] = 3
        /\ n.dictSize = 4 /\ n.toCreate = {<<c>>}
    <3>1. n.dictionary = Extend(s.dictionary, <<c>>, 3) /\ n.dictSize = 3 + 1
      BY <1>4, <2>1, <2>2 DEF MetDictionary, MetSize
    <3>2. n.toCreate = {<<c>>}
      BY <1>4, <2>1 DEF NewOnes
    <3>3. DOMAIN Extend(s.dictionary, <<c>>, 3) = {<<c>>} /\ Extend(s.dictionary, <<c>>, 3)[<<c>>] = 3
      BY <1>1, <1>7 DEF Extend
    <3> QED BY <3>1, <3>2, <3>3
  <2>4. Indexed(d.entries, d.dictSize, n.dictionary)
    <3>1. DOMAIN d.entries = 3..(3 - 1)
      BY <1>2, <2>2 DEF Indexed
    <3>2. 3..(3 - 1) = {}
      OBVIOUS
    <3> QED BY <2>2, <3>1, <3>2 DEF Indexed
  <2>5. InStep(n, d, text \o <<c>>)
    BY <1>2, <1>4, <1>5, <2>1, <2>2, <2>3, <2>4 DEF InStep
  <2> QED BY <1>4, <1>6, <2>5
<1>8. CASE s.w # <<>>
  <2>1. wc \in DOMAIN s.dictionary
    <3>1. CASE IsNew(s, c)
      BY <1>3, <1>6, <1>8, <3>1 DEF MetDictionary, Extend
    <3>2. CASE ~IsNew(s, c)
      BY <1>6, <3>2 DEF MetDictionary
    <3> QED BY <3>1, <3>2
  <2>2. ~IsNew(s, c)
    <3>1. Len(s.w) + 1 \in 1..Len(wc)
      BY <1>3, <1>8
    <3>2. <<wc[Len(s.w) + 1]>> \in DOMAIN s.dictionary
      BY <1>1, <2>1, <3>1
    <3> QED BY <1>3, <3>2 DEF IsNew
  <2>3. s.toCreate = {}
    <3> SUFFICES ASSUME s.toCreate # {} PROVE FALSE
      OBVIOUS
    <3>1. wc = s.w
      BY <1>1, <1>3, <1>8, <2>1
    <3> QED BY <1>3, <1>8, <3>1
  <2>4. /\ n.dictionary = s.dictionary /\ n.dictSize = s.dictSize /\ n.toCreate = {} /\ n.w[1] = s.w[1]
        /\ n.w # <<>>
    BY <1>3, <1>4, <1>8, <2>2, <2>3 DEF MetDictionary, MetSize, NewOnes
  <2>5. /\ \A q \in DOMAIN s.dictionary :
             \/ Entry(d.entries, d.dictSize, s.dictionary, q)
             \/ d.w # <<>> /\ q = d.w \o <<s.w[1]>>
        /\ d.w = <<>> => d.dictSize = 3 /\ s.dictSize = 3
        /\ d.w # <<>> => /\ d.w \o <<s.w[1]>> \in DOMAIN s.dictionary
                         /\ s.dictionary[d.w \o <<s.w[1]>>] = s.dictSize - 1
                         /\ s.dictSize = d.dictSize + 1
    BY <2>3 DEF InStep
  <2>6. InStep(n, d, text \o <<c>>)
    BY <1>2, <1>4, <1>5, <2>4, <2>5 DEF InStep
  <2> QED BY <1>4, <1>6, <2>6
<1> QED BY <1>7, <1>8

\* A character that is not makes the string so far be written: when that is read, what the
\* decompressor has read is all that is written again.
LEMMA WrittenStep ==
  ASSUME NEW s, Compressor(s), NEW c \in CharCode, NEW text \in Seq(CharCode), NEW e, CaughtUp(s, e, text),
         s.w \o <<c>> \notin DOMAIN MetDictionary(s, c)
  PROVE  InStep(Compress(s, c), e, text \o <<c>>)
<1> DEFINE n == Compress(s, c)
           wc == s.w \o <<c>>
<1>1. s.w \in Seq(CharCode) /\ s.dictSize \in Nat \ {0, 1, 2}
  BY DEF Compressor
<1>2. /\ s.w # <<>>
      /\ DOMAIN n = CompressorFields
      /\ n.dictionary = Extend(MetDictionary(s, c), wc, MetSize(s, c))
      /\ n.dictSize = MetSize(s, c) + 1 /\ n.toCreate = NewOnes(s, c)
      /\ n.w = <<c>> /\ n.bits = Emit(s).bits
      /\ n.enlargeIn = Emit(s).enlargeIn /\ n.numBits = Emit(s).numBits
  BY CompressEmits
<1>3. wc # <<c>> /\ <<c>>[1] = c /\ <<c>> # <<>>
  BY <1>1, <1>2, Strings
<1>4. /\ DOMAIN e = DecoderFields /\ e.status = "reading" /\ e.bits \in Seq(Bit)
      /\ e.at = Len(Emit(s).bits) /\ e.enlargeIn = Emit(s).enlargeIn /\ e.numBits = Emit(s).numBits
      /\ e.text = text /\ e.w = s.w /\ e.dictSize = s.dictSize
      /\ Indexed(e.entries, s.dictSize, s.dictionary)
      /\ \A q \in DOMAIN s.dictionary : Entry(e.entries, s.dictSize, s.dictionary, q)
  BY DEF CaughtUp
<1>5. wc \notin DOMAIN MetDictionary(s, c) /\ Compress(s, c) = n /\ e.w \o <<c>> = wc
  BY <1>4
<1> HIDE DEF n, wc
<1>6. /\ DOMAIN n.dictionary = DOMAIN s.dictionary \cup NewOnes(s, c) \cup {wc}
      /\ \A q \in DOMAIN s.dictionary : n.dictionary[q] = s.dictionary[q]
      /\ n.dictionary[wc] = MetSize(s, c)
      /\ IsNew(s, c) => n.dictionary[<<c>>] = s.dictSize
  <2>1. Grown(n.dictionary, s, c, wc)
    BY <1>2, <1>3, <1>5, GrownDictionary
  <2> QED BY <2>1 DEF Grown
<1>7. Indexed(e.entries, s.dictSize, n.dictionary)
  BY <1>4, <1>6 DEF Indexed
<1>8. \A q \in DOMAIN n.dictionary :
        \/ q \in n.toCreate
        \/ Entry(e.entries, s.dictSize, n.dictionary, q)
        \/ q = wc
  BY <1>2, <1>4, <1>6 DEF Entry
<1>9. /\ n.toCreate # {} => IsNew(s, c) /\ MetSize(s, c) = s.dictSize + 1
      /\ n.toCreate = {} => MetSize(s, c) = s.dictSize
  BY <1>2 DEF NewOnes, MetSize
<1>10. /\ n.toCreate # {} => n.dictionary[n.w] = e.dictSize
       /\ n.toCreate = {} => n.dictSize = e.dictSize + 1
       /\ n.toCreate # {} => n.dictSize = e.dictSize + 2
       /\ n.dictionary[wc] = n.dictSize - 1
       /\ wc \in DOMAIN n.dictionary
  BY <1>1, <1>2, <1>4, <1>6, <1>9
<1>11. e.w # <<>> /\ e.w \o <<n.w[1]>> = wc
  BY <1>2, <1>3, <1>4, <1>5
<1>12. InStep(n, e, text \o <<c>>)
  BY <1>1, <1>2, <1>3, <1>4, <1>7, <1>8, <1>10, <1>11 DEF InStep
<1> QED BY <1>5, <1>12

\* Writing only adds to what is written.
LEMMA EmitExtends ==
  ASSUME NEW s, Compressor(s), s.w # <<>>, NEW bits \in Seq(Bit), Extends(bits, Emit(s).bits)
  PROVE  Extends(bits, s.bits)
<1>1. /\ DOMAIN s = CompressorFields /\ s.w \in Seq(CharCode) /\ s.bits \in Seq(Bit)
      /\ s.numBits \in Nat /\ s.toCreate \in {{}, {s.w}}
      /\ Len(bits) \in Nat
      /\ s.w \in DOMAIN s.dictionary /\ s.dictionary[s.w] \in Nat
  <2>1. s.w \in DOMAIN s.dictionary /\ s.dictionary[s.w] \in 3..(s.dictSize - 1) /\ s.dictSize \in Nat
    BY DEF Compressor
  <2>2. s.dictionary[s.w] \in Nat
    BY <2>1
  <2>3. Len(bits) \in Nat
    BY LenProperties
  <2> QED BY <2>1, <2>2, <2>3 DEF Compressor
<1>2. CASE s.w \notin s.toCreate
  <2> DEFINE b == BitsOf(s.dictionary[s.w], s.numBits)
  <2>1. Emit(s).bits = s.bits \o b
    BY <1>1, <1>2, EmitKnown
  <2>2. b \in Seq(Bit)
    BY <1>1, BitsOfIs
  <2> HIDE DEF b
  <2> QED BY <1>1, <2>1, <2>2, ExtendsLess
<1>3. CASE s.w \in s.toCreate
  <2> DEFINE b == BitsOf(0, s.numBits)
             a == BitsOf(s.w[1], 8)
  <2>1. Emit(s).bits = (s.bits \o b) \o a
    BY <1>1, <1>3, EmitNew
  <2>2. b \in Seq(Bit) /\ a \in Seq(Bit)
    <3>1. 0 \in CharCode
      BY DEF CharCode
    <3>2. s.w[1] \in Nat
      BY <1>1, <3>1, Strings, CharCodes
    <3> QED BY <1>1, <3>2, BitsOfIs
  <2> HIDE DEF a, b
  <2>3. s.bits \o b \in Seq(Bit)
    BY <1>1, <2>2, ConcatProperties
  <2> DEFINE t == s.bits \o b
  <2>4. t \in Seq(Bit) /\ Extends(bits, t \o a)
    BY <2>1, <2>3
  <2>5. t = s.bits \o b
    OBVIOUS
  <2> HIDE DEF t
  <2>6. Extends(bits, t)
    BY <1>1, <2>2, <2>4, ExtendsLess
  <2> QED BY <1>1, <2>2, <2>5, <2>6, ExtendsLess
<1> QED BY <1>2, <1>3

\* Either way the decompressor catches up.
LEMMA CodeRead ==
  ASSUME NEW s, Compressor(s), s.w # <<>>, NEW text, NEW d, InStep(s, d, text),
         Extends(d.bits, Emit(s).bits)
  PROVE  CaughtUp(s, Decompress(d), text) /\ Decompress(d).bits = d.bits
<1>1. CASE s.toCreate = {}
  BY <1>1, KnownRead
<1>2. CASE s.toCreate # {}
  BY <1>2, NewRead
<1> QED BY <1>1, <1>2

-------------------------------------------------------------------------------
(* What the service reads of a query, from its first code to the end mark *)

Start(bits) == [bits |-> bits, entries |-> [n \in {} |-> <<>>], at |-> 0, w |-> <<>>,
                enlargeIn |-> 2, dictSize |-> 3, numBits |-> 2, text |-> <<>>, status |-> "reading"]

\* Nothing but the text is read from d on: a set of decompressors that no step leaves.
Reads(d, text) ==
  /\ d.status # "failed" /\ IsPrefix(d.text, text)
  /\ d.status = "ended" => d.text = text
Serves(d, text) ==
  \E D : d \in D /\ \A x \in D : Reads(x, text) /\ (x.status = "reading" => Decompress(x) \in D)

\* Nothing but the text is read until e.
Leads(d, e, text) ==
  \E D : /\ d \in D /\ e \in D
         /\ \A x \in D : x.status = "reading" /\ IsPrefix(x.text, text) /\ (x = e \/ Decompress(x) \in D)

\* Whatever is written after them, the bits so far lead to a decompressor in step.
FollowsOn(s, bits, part, text) ==
  \E e : InStep(s, e, part) /\ e.bits = bits /\ Leads(Start(bits), e, text)
Follows(s, part, text) ==
  \A bits \in Seq(Bit) : Extends(bits, s.bits) => FollowsOn(s, bits, part, text)

\* The beginnings of a text, one character after another.
LEMMA PrefixOfText ==
  ASSUME NEW text \in Seq(CharCode)
  PROVE  /\ IsPrefix(text, text) /\ IsPrefix(<<>>, text)
         /\ SubSeq(text, 1, Len(text)) = text /\ SubSeq(text, 1, 0) = <<>>
         /\ Len(text) \in Nat
         /\ \A n \in 0..Len(text) : IsPrefix(SubSeq(text, 1, n), text) /\ SubSeq(text, 1, n) \in Seq(CharCode)
         /\ \A n \in 0..Len(text) : n < Len(text) =>
              /\ text[n + 1] \in CharCode
              /\ SubSeq(text, 1, n + 1) = SubSeq(text, 1, n) \o <<text[n + 1]>>
<1>1. Len(text) \in Nat /\ \A i \in 1..Len(text) : text[i] \in CharCode
  BY LenProperties, ElementOfSeq
<1>2. SubSeq(text, 1, Len(text)) = text
  BY SubSeqFull
<1>3. SubSeq(text, 1, 0) = <<>>
  BY SubSeqEmpty
<1>4. IsPrefix(text, text)
  BY <1>1, <1>2 DEF IsPrefix
<1>5. IsPrefix(<<>>, text)
  <2>1. <<>> \in Seq(CharCode) /\ Len(<<>>) = 0
    BY EmptySeq
  <2>2. SubSeq(<<>>, 1, 0) = <<>>
    BY SubSeqEmpty
  <2> QED BY <1>1, <1>3, <2>1, <2>2 DEF IsPrefix
<1>6. ASSUME NEW n \in 0..Len(text)
      PROVE  IsPrefix(SubSeq(text, 1, n), text) /\ SubSeq(text, 1, n) \in Seq(CharCode)
  <2> DEFINE p == SubSeq(text, 1, n)
  <2>1. p \in Seq(CharCode) /\ Len(p) = n
    <3>1. \A i \in 1..n : text[i] \in CharCode
      BY <1>1
    <3>2. 1 \in Int /\ n \in Int /\ (IF 1 <= n THEN n - 1 + 1 ELSE 0) = n
      BY <1>1
    <3> QED BY <3>1, <3>2, SubSeqProperties
  <2>2. p = SubSeq(text, 1, n) /\ n <= Len(text)
    BY <1>1
  <2> HIDE DEF p
  <2>3. SubSeq(p, 1, Len(p)) = p
    BY <2>1, SubSeqFull
  <2>4. IsPrefix(p, text)
    BY <2>1, <2>2, <2>3 DEF IsPrefix
  <2> QED BY <2>1, <2>2, <2>4
<1>7. ASSUME NEW n \in 0..Len(text), n < Len(text)
      PROVE  text[n + 1] \in CharCode /\ SubSeq(text, 1, n + 1) = SubSeq(text, 1, n) \o <<text[n + 1]>>
  <2>1. n + 1 \in 1..Len(text) /\ 1 \in 1..Len(text) /\ (n + 1) - 1 = n
    BY <1>1, <1>7
  <2>2. SubSeq(text, 1, n + 1) = SubSeq(text, 1, (n + 1) - 1) \o <<text[n + 1]>>
    BY <2>1, SubSeqRecursiveSecond
  <2> QED BY <1>1, <2>1, <2>2
<1> QED BY <1>1, <1>2, <1>3, <1>4, <1>5, <1>6, <1>7

\* Before the first code the decompressor is in step.
LEMMA StartFollows ==
  ASSUME NEW text \in Seq(CharCode)
  PROVE  Follows(Fresh, <<>>, text)
<1> SUFFICES ASSUME NEW bits \in Seq(Bit) PROVE FollowsOn(Fresh, bits, <<>>, text)
  BY DEF Follows
<1> DEFINE d == Start(bits)
<1>1. /\ Fresh.w = <<>> /\ Fresh.bits = <<>> /\ Fresh.enlargeIn = 2
      /\ Fresh.numBits = 2 /\ Fresh.dictSize = 3 /\ Fresh.toCreate = {} /\ DOMAIN Fresh.dictionary = {}
  BY DEF Fresh
<1>2. /\ DOMAIN d = DecoderFields /\ d.status = "reading" /\ d.bits = bits /\ d.at = 0
      /\ d.enlargeIn = 2 /\ d.numBits = 2 /\ d.text = <<>> /\ d.w = <<>> /\ d.dictSize = 3
      /\ DOMAIN d.entries = {}
  BY DEF Start, DecoderFields
<1>3. <<>> \in Seq(CharCode) /\ Len(<<>>) = 0 /\ <<>> \o <<>> = <<>>
  BY EmptySeq, ConcatEmptySeq
<1>4. Indexed(d.entries, 3, Fresh.dictionary)
  BY <1>1, <1>2 DEF Indexed
<1>0. Start(bits) = d
  OBVIOUS
<1> HIDE DEF d
<1>5. InStep(Fresh, d, <<>>)
  BY <1>1, <1>2, <1>3, <1>4 DEF InStep
<1>6. Leads(d, d, text)
  <2>1. IsPrefix(d.text, text)
    BY <1>2, PrefixOfText
  <2>2. \A x \in {d} : x.status = "reading" /\ IsPrefix(x.text, text) /\ (x = d \/ Decompress(x) \in {d})
    BY <1>2, <2>1
  <2>3. d \in {d}
    OBVIOUS
  <2> QED BY <2>2, <2>3 DEF Leads
<1> QED BY <1>0, <1>2, <1>5, <1>6 DEF FollowsOn

\* One character on.
LEMMA FollowsStep ==
  ASSUME NEW s, Compressor(s), NEW c \in CharCode, NEW part \in Seq(CharCode), NEW text,
         Follows(s, part, text), IsPrefix(part, text)
  PROVE  Follows(Compress(s, c), part \o <<c>>, text)
<1> SUFFICES ASSUME NEW bits \in Seq(Bit), Extends(bits, Compress(s, c).bits)
             PROVE  FollowsOn(Compress(s, c), bits, part \o <<c>>, text)
  BY DEF Follows
<1>1. CASE s.w \o <<c>> \in DOMAIN MetDictionary(s, c)
  <2>1. s.bits \in Seq(Bit)
    BY DEF Compressor
  <2>2. Compress(s, c).bits = s.bits
    <3>1. DOMAIN s = CompressorFields
      BY DEF Compressor
    <3> QED BY <1>1, <3>1, CompressOn
  <2>3. PICK e : InStep(s, e, part) /\ e.bits = bits /\ Leads(Start(bits), e, text)
    BY <2>2 DEF Follows, FollowsOn
  <2>4. InStep(Compress(s, c), e, part \o <<c>>)
    BY <1>1, <2>3, SilentStep
  <2> QED BY <2>3, <2>4 DEF FollowsOn
<1>2. CASE s.w \o <<c>> \notin DOMAIN MetDictionary(s, c)
  <2>1. s.w # <<>> /\ Compress(s, c).bits = Emit(s).bits
    BY <1>2, CompressEmits
  <2>2. Extends(bits, s.bits)
    BY <2>1, EmitExtends
  <2>3. PICK e : InStep(s, e, part) /\ e.bits = bits /\ Leads(Start(bits), e, text)
    BY <2>2 DEF Follows, FollowsOn
  <2> DEFINE f == Decompress(e)
  <2>4. CaughtUp(s, f, part) /\ f.bits = bits
    BY <2>1, <2>3, CodeRead
  <2>5. Decompress(e) = f
    OBVIOUS
  <2> HIDE DEF f
  <2>6. InStep(Compress(s, c), f, part \o <<c>>)
    BY <1>2, <2>4, WrittenStep
  <2>7. Leads(Start(bits), f, text)
    <3>1. PICK D : /\ Start(bits) \in D /\ e \in D
                   /\ \A x \in D : x.status = "reading" /\ IsPrefix(x.text, text) /\ (x = e \/ Decompress(x) \in D)
      BY <2>3 DEF Leads
    <3>2. f.status = "reading" /\ f.text = part
      BY <2>4 DEF CaughtUp
    <3> DEFINE E == D \cup {f}
    <3>3. Start(bits) \in E /\ f \in E
      BY <3>1
    <3>4. ASSUME NEW x \in E PROVE x.status = "reading" /\ IsPrefix(x.text, text) /\ (x = f \/ Decompress(x) \in E)
      BY <2>5, <3>1, <3>2
    <3> HIDE DEF E
    <3> QED BY <3>3, <3>4 DEF Leads
  <2> QED BY <2>4, <2>6, <2>7 DEF FollowsOn
<1> QED BY <1>1, <1>2

\* Two parts begin with the first.
LEMMA ExtendsItself ==
  ASSUME NEW a \in Seq(Bit), NEW b \in Seq(Bit)
  PROVE  a \o b \in Seq(Bit) /\ Extends(a \o b, a)
<1>1. /\ a \o b \in Seq(Bit) /\ Len(a \o b) = Len(a) + Len(b)
      /\ \A i \in 1..(Len(a) + Len(b)) : (a \o b)[i] = IF i <= Len(a) THEN a[i] ELSE b[i - Len(a)]
  BY ConcatProperties
<1>2. Len(a) \in Nat /\ Len(b) \in Nat
  BY LenProperties
<1> QED BY <1>1, <1>2 DEF Extends

\* What is written before the end mark, and the width of the codes then.
LastBits(s) == IF s.w = <<>> THEN s.bits ELSE Emit(s).bits
LastWidth(s) == IF s.w = <<>> THEN s.numBits ELSE Emit(s).numBits
WholeChars(bits) == \E n \in Nat : Len(bits) = 6 * n

\* The end mark is written after the last string, and zeros fill the last character.
LEMMA FinishIs ==
  ASSUME NEW s, Compressor(s)
  PROVE  /\ LastBits(s) \in Seq(Bit) /\ LastWidth(s) \in Nat \ {0, 1}
         /\ Finish(s) \in Seq(Bit) /\ WholeChars(Finish(s))
         /\ Extends(Finish(s), LastBits(s) \o BitsOf(2, LastWidth(s)))
<1> DEFINE bits == LastBits(s) \o BitsOf(2, LastWidth(s))
           pad == [i \in 1..(6 - (Len(bits) % 6)) |-> 0]
<1>1. LastBits(s) \in Seq(Bit) /\ LastWidth(s) \in Nat \ {0, 1}
  <2>1. s.bits \in Seq(Bit) /\ s.numBits \in Nat \ {0, 1}
    BY DEF Compressor
  <2>2. CASE s.w = <<>>
    BY <2>1, <2>2 DEF LastBits, LastWidth
  <2>3. CASE s.w # <<>>
    <3>1. Emit(s).bits \in Seq(Bit) /\ Emit(s).numBits \in Nat \ {0, 1}
      BY <2>3, EmitBits
    <3> QED BY <2>3, <3>1 DEF LastBits, LastWidth
  <2> QED BY <2>2, <2>3
<1>2. bits \in Seq(Bit)
  <2>1. BitsOf(2, LastWidth(s)) \in Seq(Bit)
    BY <1>1, BitsOfIs
  <2> QED BY <1>1, <2>1, ConcatProperties
<1>3. Finish(s) = bits \o pad
  <2>1. CASE s.w = <<>>
    BY <2>1 DEF Finish, LastBits, LastWidth, BitsPerChar
  <2>2. CASE s.w # <<>>
    BY <2>2 DEF Finish, LastBits, LastWidth, BitsPerChar
  <2> QED BY <2>1, <2>2
<1>4. Len(bits) \in Nat
  BY <1>2, LenProperties
<1> HIDE DEF bits
<1> DEFINE m == 6 - (Len(bits) % 6)
<1>5. m \in Nat /\ Len(bits) + m = 6 * ((Len(bits) \div 6) + 1) /\ (Len(bits) \div 6) + 1 \in Nat
  BY <1>4
<1>6. pad \in Seq(Bit) /\ Len(pad) = m
  <2>1. pad = [i \in 1..m |-> 0]
    OBVIOUS
  <2> HIDE DEF m
  <2>2. [i \in 1..m |-> 0] \in [1..m -> Bit]
    BY DEF Bit
  <2> QED BY <1>5, <2>1, <2>2
<1> HIDE DEF pad, m
<1>7. bits \o pad \in Seq(Bit) /\ Extends(bits \o pad, bits)
  BY <1>2, <1>6, ExtendsItself
<1>8. Len(bits \o pad) = Len(bits) + Len(pad)
  BY <1>2, <1>6, ConcatProperties
<1>9. WholeChars(Finish(s))
  BY <1>3, <1>5, <1>6, <1>8 DEF WholeChars
<1> QED BY <1>1, <1>3, <1>7, <1>9 DEF bits

\* The end mark.
LEMMA EndRead ==
  ASSUME NEW s, Compressor(s), NEW d, DOMAIN d = DecoderFields, d.bits = Finish(s),
         d.at = Len(LastBits(s)), d.numBits = LastWidth(s)
  PROVE  Decompress(d).status = "ended" /\ Decompress(d).text = d.text
<1>1. /\ LastBits(s) \in Seq(Bit) /\ LastWidth(s) \in Nat \ {0, 1}
      /\ Finish(s) \in Seq(Bit)
      /\ Extends(Finish(s), LastBits(s) \o BitsOf(2, LastWidth(s)))
  BY FinishIs
<1>2. 2 < TwoTo(LastWidth(s)) /\ LastWidth(s) \in Nat \ {0} /\ 2 \in Nat
  <2>1. LastWidth(s) \in Nat /\ LastWidth(s) >= 2
    BY <1>1
  <2>2. TwoTo(LastWidth(s)) \in Nat /\ TwoTo(LastWidth(s)) >= 4
    BY <2>1, TwoToNext, TwoToGrows
  <2> QED BY <1>1, <2>2
<1>3. PartRead(Finish(s), LastBits(s), LastWidth(s), 2)
  BY <1>1, <1>2, ReadPart
<1>4. /\ ReadBits(d.bits, d.at, d.numBits) = 2 /\ Len(d.bits) \in Nat
      /\ d.at + d.numBits \in Nat /\ d.at + d.numBits <= Len(d.bits)
  BY <1>1, <1>3 DEF PartRead
<1> QED BY <1>4, DecompressEnd

\* Of a finished query the service reads the text, and all of it at the end mark.
LEMMA FinishServes ==
  ASSUME NEW s, Compressor(s), NEW text \in Seq(CharCode), Follows(s, text, text)
  PROVE  Serves(Start(Finish(s)), text)
<1> DEFINE bits == Finish(s)
<1>1. /\ LastBits(s) \in Seq(Bit) /\ LastWidth(s) \in Nat \ {0, 1}
      /\ bits \in Seq(Bit) /\ Len(bits) \in Nat
      /\ Extends(bits, LastBits(s))
  <2>1. /\ LastBits(s) \in Seq(Bit) /\ LastWidth(s) \in Nat \ {0, 1} /\ bits \in Seq(Bit)
        /\ Extends(bits, LastBits(s) \o BitsOf(2, LastWidth(s)))
    BY FinishIs
  <2>2. BitsOf(2, LastWidth(s)) \in Seq(Bit)
    BY <2>1, BitsOfIs
  <2>3. Len(bits) \in Nat
    BY <2>1, LenProperties
  <2> HIDE DEF bits
  <2> QED BY <2>1, <2>2, <2>3, ExtendsLess
<1>2. IsPrefix(text, text)
  BY PrefixOfText
<1>0. Finish(s) = bits
  OBVIOUS
<1> HIDE DEF bits
<1>3. Extends(bits, s.bits)
  <2>1. CASE s.w = <<>>
    BY <1>1, <2>1 DEF LastBits
  <2>2. CASE s.w # <<>>
    BY <1>1, <2>2, EmitExtends DEF LastBits
  <2> QED BY <2>1, <2>2
<1>4. PICK e : InStep(s, e, text) /\ e.bits = bits /\ Leads(Start(bits), e, text)
  BY <1>1, <1>3 DEF Follows, FollowsOn
<1>5. PICK D : /\ Start(bits) \in D /\ e \in D
               /\ \A x \in D : x.status = "reading" /\ IsPrefix(x.text, text) /\ (x = e \/ Decompress(x) \in D)
  BY <1>4 DEF Leads
\* The last one that reads.
<1>6. PICK f : /\ DOMAIN f = DecoderFields /\ f.bits = bits /\ f.status = "reading" /\ f.text = text
               /\ f.at = Len(LastBits(s)) /\ f.numBits = LastWidth(s)
               /\ e = f \/ Decompress(e) = f
  <2>1. CASE s.w = <<>>
    <3>1. /\ DOMAIN e = DecoderFields /\ e.status = "reading" /\ e.at = Len(s.bits) /\ e.numBits = s.numBits
          /\ e.text \in Seq(CharCode) /\ e.text \o <<>> = text
      BY <1>4, <2>1 DEF InStep
    <3>2. e.text = text
      BY <3>1, ConcatEmptySeq
    <3> QED BY <1>4, <2>1, <3>1, <3>2 DEF LastBits, LastWidth
  <2>2. CASE s.w # <<>>
    <3> DEFINE f == Decompress(e)
    <3>1. CaughtUp(s, f, text) /\ f.bits = bits
      BY <1>1, <1>4, <2>2, CodeRead DEF LastBits
    <3>2. Decompress(e) = f
      OBVIOUS
    <3> HIDE DEF f
    <3>3. /\ DOMAIN f = DecoderFields /\ f.status = "reading" /\ f.text = text
          /\ f.at = Len(Emit(s).bits) /\ f.numBits = Emit(s).numBits
      BY <3>1 DEF CaughtUp
    <3> QED BY <2>2, <3>1, <3>2, <3>3 DEF LastBits, LastWidth
  <2> QED BY <2>1, <2>2
<1> DEFINE g == Decompress(f)
<1>7. g.status = "ended" /\ g.text = text
  BY <1>0, <1>6, EndRead
<1>8. Decompress(f) = g
  OBVIOUS
<1> HIDE DEF g
<1> DEFINE E == D \cup {f, g}
<1>9. Start(bits) \in E
  BY <1>5
<1>10. ASSUME NEW x \in E PROVE Reads(x, text) /\ (x.status = "reading" => Decompress(x) \in E)
  <2>1. CASE x \in D
    <3>1. x.status = "reading" /\ IsPrefix(x.text, text) /\ (x = e \/ Decompress(x) \in D)
      BY <1>5, <2>1
    <3>2. Reads(x, text)
      BY <3>1 DEF Reads
    <3>3. Decompress(x) \in E
      BY <1>6, <1>8, <3>1
    <3> QED BY <3>2, <3>3
  <2>2. CASE x = f
    <3>1. Reads(x, text)
      BY <1>2, <1>6, <2>2 DEF Reads
    <3> QED BY <1>8, <2>2, <3>1
  <2>3. CASE x = g
    <3>1. Reads(x, text)
      BY <1>2, <1>7, <2>3 DEF Reads
    <3> QED BY <1>7, <2>3, <3>1
  <2> QED BY <2>1, <2>2, <2>3
<1> HIDE DEF E
<1>11. Serves(Start(bits), text)
  BY <1>9, <1>10 DEF Serves
<1> QED BY <1>0, <1>11

\* The decoder of the characters of a whole number of them is that of their bits.
LEMMA DecoderStarts ==
  ASSUME NEW bits \in Seq(Bit), WholeChars(bits)
  PROVE  DecoderOf(Chars(bits)) = Start(bits)
<1>1. PICK n \in Nat : Len(bits) = 6 * n
  BY DEF WholeChars
<1>2. bits \in Seq({0, 1})
  BY DEF Bit
<1>3. BitsOfChars(Chars(bits)) = bits
  BY <1>1, <1>2, CharsReadBack
<1> QED BY <1>3 DEF DecoderOf, Start

-------------------------------------------------------------------------------
(* The request *)

\* One character of a text more.
LEMMA OneMore ==
  ASSUME NEW text \in Seq(CharCode), NEW n \in 0..Len(text), n < Len(text)
  PROVE  /\ IsPrefix(SubSeq(text, 1, n), text) /\ SubSeq(text, 1, n) \in Seq(CharCode)
         /\ text[n + 1] \in CharCode
         /\ SubSeq(text, 1, n + 1) = SubSeq(text, 1, n) \o <<text[n + 1]>>
         /\ n + 1 \in 0..Len(text)
<1>1. Len(text) \in Nat
  BY PrefixOfText
<1> QED BY <1>1, PrefixOfText

RequestFields == {"text", "read", "state", "chars", "decoder"}

\* The characters so far are written so that they can be read, whatever follows; what was
\* handed over is read as the text.
RequestInv ==
  \/ request = None
  \/ /\ DOMAIN request = RequestFields
     /\ request.text \in Texts /\ request.read \in 0..Len(request.text)
     /\ Compressor(request.state)
     /\ Follows(request.state, SubSeq(request.text, 1, request.read), request.text)
     /\ request.chars = None \/ Serves(request.decoder, request.text)
     /\ request.decoder = None \/ Serves(request.decoder, request.text)

\* Every step of the module keeps the request so.
LEMMA RequestStep ==
  RequestInv /\ [Next]_selectorVars => RequestInv'
<1> SUFFICES ASSUME RequestInv, [Next]_selectorVars PROVE RequestInv'
  OBVIOUS
<1> DEFINE text == request.text
<1>0. ASSUME request # None, request.text \in Texts PROVE request.text \in Seq(CharCode)
  BY <1>0, SelectorsAssumption DEF CharCode
<1>1. CASE UNCHANGED request
  BY <1>1 DEF RequestInv
<1>2. ASSUME NEW t \in Texts, Prepare(t) PROVE RequestInv'
  <2>1. t \in Seq(CharCode)
    BY SelectorsAssumption DEF CharCode
  <2>2. /\ DOMAIN request' = RequestFields /\ request'.text = t /\ request'.read = 0
        /\ request'.state = Fresh /\ request'.chars = None /\ request'.decoder = None
    BY <1>2 DEF Prepare, RequestFields
  <2>3. SubSeq(t, 1, 0) = <<>> /\ Len(t) \in Nat
    BY <2>1, PrefixOfText
  <2>4. Follows(Fresh, <<>>, t) /\ Compressor(Fresh)
    BY <2>1, StartFollows, FreshCompressor
  <2>5. 0 \in 0..Len(t)
    BY <2>3
  <2> QED BY <2>2, <2>3, <2>4, <2>5 DEF RequestInv
<1>3. ASSUME CompressChar PROVE RequestInv'
  <2> DEFINE n == request.read
             part == SubSeq(request.text, 1, n)
             c == request.text[n + 1]
  <2>1. /\ request # None /\ n < Len(request.text) /\ DOMAIN request = RequestFields
        /\ request.text \in Texts /\ n \in 0..Len(request.text)
        /\ Compressor(request.state) /\ Follows(request.state, part, request.text)
        /\ request.chars = None \/ Serves(request.decoder, request.text)
        /\ request.decoder = None \/ Serves(request.decoder, request.text)
    BY <1>3 DEF CompressChar, RequestInv
  <2>2. /\ DOMAIN request' = RequestFields /\ request'.text = request.text /\ request'.read = n + 1
        /\ request'.state = Compress(request.state, c) /\ request'.chars = request.chars
        /\ request'.decoder = request.decoder
    BY <1>3, <2>1 DEF CompressChar, RequestFields
  <2>3. request.text \in Seq(CharCode)
    BY <1>0, <2>1
  <2>4. /\ IsPrefix(part, request.text) /\ part \in Seq(CharCode) /\ c \in CharCode
        /\ SubSeq(request.text, 1, n + 1) = part \o <<c>>
        /\ n + 1 \in 0..Len(request.text)
    BY <2>1, <2>3, OneMore
  <2> HIDE DEF n, part, c
  <2>5. Compressor(Compress(request.state, c))
    BY <2>1, <2>4, CompressKeeps
  <2>6. Follows(Compress(request.state, c), part \o <<c>>, request.text)
    BY <2>1, <2>4, FollowsStep
  <2> QED BY <2>1, <2>2, <2>4, <2>5, <2>6 DEF RequestInv
<1>4. ASSUME Compressed PROVE RequestInv'
  <2>1. /\ request # None /\ request.read = Len(request.text) /\ DOMAIN request = RequestFields
        /\ request.text \in Texts /\ request.read \in 0..Len(request.text)
        /\ Compressor(request.state)
        /\ Follows(request.state, SubSeq(request.text, 1, request.read), request.text)
    BY <1>4 DEF Compressed, RequestInv
  <2>2. /\ DOMAIN request' = RequestFields /\ request'.text = request.text /\ request'.read = request.read
        /\ request'.state = request.state /\ request'.decoder = DecoderOf(Chars(Finish(request.state)))
    BY <1>4, <2>1 DEF Compressed, RequestFields
  <2>3. request.text \in Seq(CharCode)
    BY <1>0, <2>1
  <2>4. SubSeq(request.text, 1, request.read) = request.text
    BY <2>1, <2>3, PrefixOfText
  <2>5. Serves(Start(Finish(request.state)), request.text)
    BY <2>1, <2>3, <2>4, FinishServes
  <2>6. DecoderOf(Chars(Finish(request.state))) = Start(Finish(request.state))
    <3>1. Finish(request.state) \in Seq(Bit) /\ WholeChars(Finish(request.state))
      BY <2>1, FinishIs
    <3> QED BY <3>1, DecoderStarts
  <2> QED BY <2>1, <2>2, <2>5, <2>6 DEF RequestInv
<1>5. ASSUME Serve PROVE RequestInv'
  <2>1. /\ request # None /\ DOMAIN request = RequestFields
        /\ request.text \in Texts /\ request.read \in 0..Len(request.text)
        /\ Compressor(request.state)
        /\ Follows(request.state, SubSeq(request.text, 1, request.read), request.text)
        /\ Serves(request.decoder, request.text) /\ request.decoder.status = "reading"
    BY <1>5 DEF Serve, RequestInv
  <2>2. /\ DOMAIN request' = RequestFields /\ request'.text = request.text /\ request'.read = request.read
        /\ request'.state = request.state /\ request'.decoder = Decompress(request.decoder)
    BY <1>5, <2>1 DEF Serve, RequestFields
  <2>3. Serves(Decompress(request.decoder), request.text)
    BY <2>1 DEF Serves
  <2> QED BY <2>1, <2>2, <2>3 DEF RequestInv
<1>6. ASSUME Served PROVE RequestInv'
  BY <1>6 DEF Served, RequestInv
<1> QED BY <1>1, <1>2, <1>3, <1>4, <1>5, <1>6
       DEF Next, selectorVars, Extract, ReadRow, ReadAll, Return

\* Of every query under way, the characters so far are written so that the service, whatever is
\* written after them, reads them and no others; and once it is written, what it reads next is
\* some of the text, and all of it at the end mark: censtatd_json._compress, and the library.
THEOREM RequestsAreCompressed == Spec => []RequestInv
<1>1. Init => RequestInv
  BY DEF Init, RequestInv
<1> QED BY <1>1, RequestStep, PTL DEF Spec

\* What the service reads of a compressed query is always a beginning of its text, and all of it
\* at the end mark: for every text of one-byte characters, however long.
THEOREM QueriesReadBack == Spec => []QueryReadBack
<1>1. RequestInv => QueryReadBack
  <2> SUFFICES ASSUME RequestInv, request # None, request.decoder # None PROVE QueryReadBack
    BY DEF QueryReadBack
  <2>1. Serves(request.decoder, request.text)
    BY DEF RequestInv
  <2>2. Reads(request.decoder, request.text)
    BY <2>1 DEF Serves
  <2> QED BY <2>2 DEF Reads, QueryReadBack
<1> QED BY <1>1, RequestsAreCompressed, PTL
===============================================================================
