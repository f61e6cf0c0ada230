------------------------------- MODULE Selectors ------------------------------
(***************************************************************************)
(* The selectors (ingestion/runtime/selectors): a call of extract, which   *)
(* reads the rows of a provider's answer one by one into observations, and *)
(* a call of CenStatD's prepare_request_params, whose compressed query the *)
(* service reads back.  The calls are pure: one is under way at a time.    *)
(*                                                                         *)
(* A row of an answer is what the selector finds in it: the object, or     *)
(* something else; a date, a vintage and a value by the way each is        *)
(* written.                                                                *)
(***************************************************************************)
EXTENDS Calendar, LzString

CONSTANTS Answers,    \* [kind, rows]: what providers answer
          Configs,    \* [frequency, complete, tokens, snapshot, vintageField]
          Texts,      \* serialized query parameters
          None

Kinds == {"json_path", "csv_column", "censtatd_json", "estat_value_filter"}

\* What a caller gets: an outcome with observations, or an exception ("raised").
Result(outcome, observations) == [outcome |-> outcome, observations |-> observations]
Raised == Result("raised", <<>>)

\* json.dumps writes ASCII.  The rows of an answer are a list, and a time or a vintage
\* that is written as a date or a month is one.
ASSUME SelectorsAssumption ==
  /\ Texts \subseteq Seq(0..255)
  /\ None \notin {Raised, Result("provider_error", <<>>)}
  /\ \A answer \in Answers :
       /\ answer.rows \in Seq({answer.rows[i] : i \in DOMAIN answer.rows})
       /\ \A i \in DOMAIN answer.rows :
            \A time \in {answer.rows[i].time, answer.rows[i].vintage} :
              /\ time.form \in {"date", "basic"} => IsDate(time.date)
              /\ time.form = "month" => IsDate(Date(time.year, time.month, 1))

VARIABLES call,     \* of extract: selector, configuration, answer, rows read, result
          request   \* of prepare_request_params: text, state of the compression, decoder
selectorVars == <<call, request>>
-------------------------------------------------------------------------------
(* extract *)

IsComplete(config) == config.complete /\ config.frequency \in Frequencies

\* Only the selectors whose rows may carry a vintage refuse two ways to get one.
IsValid(kind, config) ==
  CASE kind = "json_path" -> IsComplete(config) /\ ~(config.snapshot # None /\ config.vintageField)
    [] kind = "csv_column" -> IsComplete(config) /\ ~(config.snapshot # None /\ config.vintageField)
    [] OTHER -> IsComplete(config)

\* The wrappers of failures that a selector knows.
IsProviderError(answer) == answer.kind = "error"

\* What the answer holds at the configured place.  A path names no place in an answer
\* whose top is an array; a single object is a row to e-Stat's selector only; what is no
\* text is refused by the CSV selector.
JsonRows(answer) ==
  CASE answer.kind = "listing" -> answer.rows
    [] answer.kind \in {"nothing", "array"} -> <<>>
    [] OTHER -> None
CsvRows(answer) ==
  CASE answer.kind = "listing" -> answer.rows
    [] answer.kind = "nothing" -> <<>>
    [] OTHER -> None
EstatRows(answer) == IF answer.kind = "object" THEN answer.rows ELSE JsonRows(answer)

Rows(kind, answer) ==
  CASE kind = "csv_column" -> CsvRows(answer)
    [] kind = "estat_value_filter" -> EstatRows(answer)
    [] OTHER -> JsonRows(answer)

\* The date that ten digits hold, the last two aside.
EightDigits(time) == Date(time.year, time.second, time.third)
DateOrNone(date) == IF IsDate(date) THEN date ELSE None

\* A date as it is written: with dashes or without.  Of ten digits date.fromisoformat
\* reads eight.
IsoDate(time) ==
  CASE time.form \in {"date", "basic"} -> time.date
    [] time.form = "digits" -> DateOrNone(EightDigits(time))
    [] OTHER -> None

\* CenStatD's months.
CenstatdDate(time) == IF time.form = "month" THEN Date(time.year, time.month, 1) ELSE IsoDate(time)

\* e-Stat's ten digits: the year, then 00 and a month, or a month and a day.  A date with
\* dashes has ten characters too, and no such month.
EstatDate(time) ==
  CASE time.form = "digits" /\ time.second = 0 -> DateOrNone(Date(time.year, time.third, 1))
    [] time.form = "date" -> None
    [] OTHER -> IsoDate(time)

\* A known gap is stored as no value.
Unreadable == "unreadable"
Decimal(config, value) ==
  CASE value.form = "number" -> value.number
    [] value.form = "null" \/ (value.form = "token" /\ config.tokens) -> None
    [] OTHER -> Unreadable

\* CenStatD and e-Stat group digits by commas.
GroupedDecimal(config, value) ==
  IF value.form = "grouped" THEN value.number ELSE Decimal(config, value)

Bad == [status |-> "bad"]
Skip == [status |-> "skip"]
Observed(config, date, value, vintage) ==
  IF date = None \/ value = Unreadable THEN Bad
  ELSE [status |-> "observed", date |-> date,
        observation |-> [start |-> PeriodBounds(date, config.frequency).start,
                         end |-> PeriodBounds(date, config.frequency).end,
                         value |-> value, vintage |-> vintage]]

\* A row may have no vintage, but none that is no date.
VintageOf(config, row) == IF config.vintageField THEN IsoDate(row.vintage) ELSE config.snapshot
IsVintageRead(config, row) ==
  config.vintageField => row.vintage.form = "null" \/ IsoDate(row.vintage) # None

JsonPathRow(config, row) ==
  IF ~row.object \/ ~IsVintageRead(config, row) THEN Bad
  ELSE Observed(config, IsoDate(row.time), Decimal(config, row.value), VintageOf(config, row))

CsvColumnRow(config, row) ==
  IF row.blank THEN Skip ELSE IF ~IsVintageRead(config, row) THEN Bad
  ELSE Observed(config, IsoDate(row.time), Decimal(config, row.value), VintageOf(config, row))

CenstatdJsonRow(config, row) ==
  IF ~row.object THEN Bad ELSE IF ~row.selected THEN Skip
  ELSE Observed(config, CenstatdDate(row.time), GroupedDecimal(config, row.value), config.snapshot)

EstatValueRow(config, row) ==
  IF ~row.object THEN Bad ELSE IF ~row.selected THEN Skip
  ELSE Observed(config, EstatDate(row.time), GroupedDecimal(config, row.value), config.snapshot)

Parsed(kind, config, row) ==
  CASE kind = "json_path" -> JsonPathRow(config, row)
    [] kind = "csv_column" -> CsvColumnRow(config, row)
    [] kind = "censtatd_json" -> CenstatdJsonRow(config, row)
    [] kind = "estat_value_filter" -> EstatValueRow(config, row)

Extract(kind, config, answer) ==
  /\ call = None /\ request = None
  /\ LET begin(result) == [kind |-> kind, config |-> config, answer |-> answer,
                           rows |-> <<>>, observations |-> <<>>, result |-> result]
         rows == Rows(kind, answer)
     IN call' = IF ~IsValid(kind, config) THEN begin(Raised)
                ELSE IF IsProviderError(answer) THEN begin(Result("provider_error", <<>>))
                ELSE IF rows = None THEN begin(Raised)
                ELSE [begin(None) EXCEPT !.rows = rows]
  /\ UNCHANGED request

\* Mutant: the first row that is not selected ends the listing.
ReadRowUntilSkipped ==
  /\ call # None
  /\ call.result = None /\ call.rows # <<>>
  /\ LET row == Parsed(call.kind, call.config, Head(call.rows))
     IN call' = CASE row.status = "bad" -> [call EXCEPT !.result = Raised]
                  [] row.status = "skip" -> [call EXCEPT !.rows = <<>>]
                  [] row.status = "observed" ->
                       [call EXCEPT !.rows = Tail(@), !.observations = Append(@, row.observation)]
  /\ UNCHANGED request

ReadRow ==
  /\ call # None
  /\ call.result = None /\ call.rows # <<>>
  /\ LET row == Parsed(call.kind, call.config, Head(call.rows))
     IN call' = CASE row.status = "bad" -> [call EXCEPT !.result = Raised]
                  [] row.status = "skip" -> [call EXCEPT !.rows = Tail(@)]
                  [] row.status = "observed" ->
                       [call EXCEPT !.rows = Tail(@), !.observations = Append(@, row.observation)]
  /\ UNCHANGED request

ReadAll ==
  /\ call # None
  /\ call.result = None /\ call.rows = <<>>
  /\ call' = [call EXCEPT !.result =
       IF call.observations = <<>> THEN Result("empty", <<>>) ELSE Result("data", call.observations)]
  /\ UNCHANGED request

\* The result is the caller's (FeedExecution): the selector keeps nothing of it.
Return ==
  /\ call # None
  /\ call.result # None
  /\ call' = None
  /\ UNCHANGED request
-------------------------------------------------------------------------------
(* prepare_request_params *)

Prepare(text) ==
  /\ call = None /\ request = None
  /\ request' = [text |-> text, read |-> 0, state |-> Fresh, chars |-> None, decoder |-> None]
  /\ UNCHANGED call

CompressChar ==
  /\ request # None
  /\ request.read < Len(request.text)
  /\ request' = [request EXCEPT !.read = @ + 1, !.state = Compress(@, request.text[request.read + 1])]
  /\ UNCHANGED call

Compressed ==
  /\ request # None
  /\ request.read = Len(request.text) /\ request.chars = None
  /\ LET chars == Chars(Finish(request.state))
     IN request' = [request EXCEPT !.chars = chars, !.decoder = DecoderOf(chars)]
  /\ UNCHANGED call

\* The service reads the parameter.
Serve ==
  /\ request # None
  /\ request.chars # None /\ request.decoder.status = "reading"
  /\ request' = [request EXCEPT !.decoder = Decompress(@)]
  /\ UNCHANGED call

Served ==
  /\ request # None
  /\ request.chars # None /\ request.decoder.status # "reading"
  /\ request' = None
  /\ UNCHANGED call

Init == call = None /\ request = None

Next ==
  \/ \E kind \in Kinds, config \in Configs, answer \in Answers : Extract(kind, config, answer)
  \/ ReadRow \/ ReadAll \/ Return
  \/ \E text \in Texts : Prepare(text)
  \/ CompressChar \/ Compressed \/ Serve \/ Served

Spec == Init /\ [][Next]_selectorVars
-------------------------------------------------------------------------------
(* Properties *)

\* The rows of the answer, what the selector makes of each, and those of the first n
\* that it does not skip.
AnswerRows == Rows(call.kind, call.answer)
ParsedRow(k) == Parsed(call.kind, call.config, AnswerRows[k])
Selected(n) == {k \in 1..n : ParsedRow(k).status # "skip"}

\* The observations are those of the given rows, one of each, in the order of the rows.
InOrder(observations, selected) ==
  \E row \in [DOMAIN observations -> selected] :
    /\ \A i, j \in DOMAIN observations : i < j => row[i] < row[j]
    /\ \A k \in selected : \E i \in DOMAIN observations : row[i] = k
    /\ \A i \in DOMAIN observations : observations[i] = ParsedRow(row[i]).observation

\* extract gives every selected row of the answer as one observation, in the answer's
\* order, or nothing: a row that cannot be read makes the call raise, however many rows
\* before it could be, and "empty" means that no row was selected.
ExtractsTheSelectedRows ==
  (call # None /\ call.result # None /\ call.result.outcome # "provider_error") =>
    IF ~IsValid(call.kind, call.config) \/ AnswerRows = None THEN call.result = Raised
    ELSE LET selected == Selected(Len(AnswerRows))
         IN IF \E k \in selected : ParsedRow(k).status = "bad" THEN call.result = Raised
            ELSE IF selected = {} THEN call.result = Result("empty", <<>>)
            ELSE /\ call.result.outcome = "data"
                 /\ InOrder(call.result.observations, selected)

\* An observation's period contains the date of its row, and two observations of a listing
\* cover the same period or have no day in common, at every frequency but the weekly one,
\* whose weeks begin where the provider says.
PeriodsPartitionDates ==
  (call # None /\ call.observations # <<>>) =>
    \A i \in DOMAIN call.observations :
      LET p == call.observations[i]
      IN /\ \E k \in DOMAIN AnswerRows :
              /\ ParsedRow(k).status = "observed" /\ ParsedRow(k).observation = p
              /\ NotAfter(p.start, ParsedRow(k).date) /\ NotAfter(ParsedRow(k).date, p.end)
         /\ call.config.frequency # "W" =>
              \A j \in DOMAIN call.observations :
                LET q == call.observations[j]
                IN \/ p.start = q.start /\ p.end = q.end
                   \/ ~NotAfter(q.start, p.end)
                   \/ ~NotAfter(p.start, q.end)

\* What the service has read of the compressed query is what was written of it, at every
\* code, and at the end mark it is all of it.
QueryReadBack ==
  (request # None /\ request.decoder # None) =>
    /\ request.decoder.status # "failed"
    /\ IsPrefix(request.decoder.text, request.text)
    /\ request.decoder.status = "ended" => request.decoder.text = request.text
===============================================================================
