------------------------------ MODULE MCSelectors -----------------------------
EXTENDS Selectors

\* Days at the ends of months, quarters, halves and years, in a leap year and not.
Days == {Date(2023, 12, 31), Date(2024, 2, 29), Date(2024, 3, 31), Date(2024, 7, 1), Date(2100, 2, 28)}
Iso(d) == [form |-> "date", date |-> d]
Number(n) == [form |-> "number", number |-> n]
Row(time, value) == [object |-> TRUE, selected |-> TRUE, blank |-> FALSE, time |-> time,
                     value |-> value, vintage |-> Iso(Date(2024, 8, 1))]

DailyRows == {Row(Iso(d), Number("1")) : d \in Days}
Plain == Row(Iso(Date(2024, 1, 1)), Number("2"))
Unselected == [Plain EXCEPT !.selected = FALSE, !.blank = TRUE]
OddRows ==
  {Plain, Unselected, [Plain EXCEPT !.object = FALSE], [Plain EXCEPT !.vintage = [form |-> "null"]],
   [Plain EXCEPT !.vintage = [form |-> "text"]],
   [Plain EXCEPT !.time = [form |-> "month", year |-> 2024, month |-> 2]],
   [Plain EXCEPT !.time = [form |-> "basic", date |-> Date(2024, 2, 1)]],
   [Plain EXCEPT !.time = [form |-> "digits", year |-> 2024, second |-> 0, third |-> 3]],
   [Plain EXCEPT !.time = [form |-> "digits", year |-> 2024, second |-> 0, third |-> 0]],
   [Plain EXCEPT !.time = [form |-> "digits", year |-> 2024, second |-> 2, third |-> 29]],
   [Plain EXCEPT !.value = [form |-> "null"]], [Plain EXCEPT !.value = [form |-> "token"]],
   [Plain EXCEPT !.value = [form |-> "text"]], [Plain EXCEPT !.value = [form |-> "grouped", number |-> "3"]]}

Answer(kind, rows) == [kind |-> kind, rows |-> rows]
MCAnswers ==
  {Answer(kind, <<>>) : kind \in {"error", "array", "nothing", "listing", "scalar"}}
    \cup {Answer("object", <<r>>) : r \in DailyRows}
    \cup {Answer("listing", <<p, q>>) : p, q \in DailyRows}
    \cup {Answer("listing", <<p, q>>) : p \in {Plain, Unselected}, q \in OddRows}
    \cup {Answer("listing", <<p, q>>) : p \in OddRows, q \in {Plain, Unselected}}

Config(frequency, tokens, snapshot, field) ==
  [frequency |-> frequency, complete |-> TRUE, tokens |-> tokens, snapshot |-> snapshot, vintageField |-> field]
MCConfigs ==
  {Config(f, TRUE, None, FALSE) : f \in Frequencies}
    \cup {Config("M", FALSE, None, TRUE), Config("Q", TRUE, Date(2024, 8, 2), FALSE),
          Config("M", TRUE, Date(2024, 8, 2), TRUE), Config("H", TRUE, None, FALSE),
          [Config("M", TRUE, None, FALSE) EXCEPT !.complete = FALSE]}

\* A query as it is serialized, and the texts over the codes of {, " and : of three
\* characters up to 4 and of two up to 7.
Query == <<
  123, 34, 99, 118, 34, 58, 123, 34, 77, 77, 34, 58, 91, 34, 48, 34, 93, 44, 34, 80, 82,
  79, 68, 34, 58, 91, 34, 49, 48, 34, 44, 34, 49, 48, 49, 48, 34, 93, 125, 44, 34, 115,
  118, 34, 58, 123, 34, 67, 67, 95, 80, 82, 79, 68, 34, 58, 91, 34, 67, 67, 95, 80, 82,
  79, 68, 34, 93, 125, 125 >>
MCTexts == {Query} \cup UNION {[1..n -> {34, 58, 123}] : n \in 2..4} \cup UNION {[1..n -> {34, 58}] : n \in 5..7}
===============================================================================
