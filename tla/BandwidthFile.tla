---------------------------- MODULE BandwidthFile ----------------------------
(***************************************************************************)
(* What `sbws generate` computes: a bandwidth file from the results of     *)
(* each relay (generate.py, V3BWFile.from_results). A line is made of each *)
(* relay; the lines of relays with few or no good measurements are set     *)
(* apart, with vote=0; the others are scaled, counted against the relays   *)
(* of the last consensus, and the state file remembers whether they were   *)
(* enough. How the file reaches the disk is in the module Datadir.         *)
(*                                                                         *)
(* Numbers of Python are fractions here: [num, den]. The rate of a         *)
(* download is given in halves of a byte per second.                       *)
(***************************************************************************)
EXTENDS Results, FiniteSets, SequencesExt

CONSTANTS
  Relays,
  LineLists,      \* what may be on disk of a relay: sequences of lines
  Consensuses,    \* what cached-consensus may hold: sets of relays...
  NotMeasured,    \* ...and as many relays that have no results
  Arguments,      \* of generate: method ("torflow", "sbws" or "raw"), secsAway,
                  \* secsRecent, minNum; and reset, reset_bw_ipv4_changes
  ScaleConstant,  \* the arguments scale_constant,
  TorflowCap,     \* torflow_bw_margin, in percent,
  RoundDigits,    \* and round_digs
  MinReport,      \* MIN_REPORT, a percentage
  Kilo,           \* bytes in a kilobyte: 1000
  Now             \* the time

\* What the results of this version have that are read without raising.
IsBandwidth(value) == value \in Nat \cup {None}
IsLine(d) ==
  d.version = Version =>
    /\ ~Raises(d.type) /\ d.time \in Nat
    /\ d.type = "success" =>
         /\ d.downloads \in Seq(Nat) /\ d.rtts \in Seq(Nat) \cup {None}
         /\ IsBandwidth(d.bandwidths.observed) /\ IsBandwidth(d.bandwidths.burst)
         /\ IsBandwidth(d.bandwidths.average)

\* Why a line is excluded, and the reasons that the header counts.
Reasons == {"error", "near", "old", "few"}

ASSUME LinesAssumption ==
  \A list \in LineLists :
    list # << >> /\ list \in Seq(Range(list)) /\ \A i \in DOMAIN list : IsLine(list[i])
ASSUME ConsensusesAssumption == \A relays \in Consensuses : IsFiniteSet(relays)
ASSUME NoneAssumption ==
  /\ None \notin Nat \cup Reasons \cup {"no_observed_bw"}
  /\ \A list \in LineLists : \A i \in DOMAIN list :
       list[i].version = Version => FromDict(list[i]) # None
ASSUME ArgumentsAssumption ==
  /\ Arguments \subseteq [method : {"torflow", "sbws", "raw"}, secsAway : Nat \cup {None},
                         secsRecent : Nat \cup {None}, minNum : Nat, reset : BOOLEAN]
  /\ ScaleConstant \in Nat \ {0} /\ TorflowCap \in Nat /\ RoundDigits \in Nat \ {0}
ASSUME GlobalsAssumption ==
  MinReport \in 0..100 /\ Kilo \in Nat \ {0} /\ NotMeasured \in Nat \ {0} /\ Now \in Nat

VARIABLES
  args,       \* the arguments of generate,
  disk,       \* the lines in the datadir, by relay,
  consensus,  \* and the last consensus, or None
  results,    \* the results read
  minPerc,    \* min_perc_reached, in the state file
  pc,
  todo,       \* relays with no line yet
  raw,        \* bw_lines_raw, and what they are scaled to
  excluded,   \* bw_lines_excluded
  header,
  file        \* the lines of the file, none when there is no file

inputVars == <<args, disk, consensus>>
vars == <<inputVars, results, minPerc, pc, todo, raw, excluded, header, file>>

-----------------------------------------------------------------------------
(***************************************************************************)
(* Numbers                                                                 *)
(***************************************************************************)

\* round: to the nearest integer, and of two to the one that is even.
Round(num, den) ==
  LET low  == num \div den
      rest == 2 * (num % den)
  IN  IF rest < den \/ (rest = den /\ low % 2 = 0) THEN low ELSE low + 1

LargerOf(a, b)  == IF a < b THEN b ELSE a
SmallestOf(set) == CHOOSE a \in set : \A b \in set : a <= b
LargestOf(set)  == CHOOSE a \in set : \A b \in set : b <= a
Map(F(_), seq) == [i \in DOMAIN seq |-> F(seq[i])]

\* The sum of a sequence of numbers.
Sum(seq) ==
  LET s[n \in 0..Len(seq)] == IF n = 0 THEN 0 ELSE s[n - 1] + seq[n]
  IN  s[Len(seq)]
\* One sequence of several.
Joined(seqs) ==
  LET j[n \in 0..Len(seqs)] == IF n = 0 THEN << >> ELSE j[n - 1] \o seqs[n]
  IN  j[Len(seqs)]

\* The k-th of the indices in a set: the smaller key is first and, of two that
\* have the same, the smaller index.
Nth(set, key, k) ==
  CHOOSE i \in set :
    Cardinality({j \in set : key[j] < key[i] \/ (key[j] = key[i] /\ j <= i)}) = k
\* The items that are kept, in their order, and all of them by their keys, as
\* list.sort does.
Picked(seq, keep)  == [k \in 1..Cardinality(keep) |-> seq[Nth(keep, [i \in keep |-> i], k)]]
Filter(seq, Test(_)) == Picked(seq, {i \in DOMAIN seq : Test(seq[i])})
SortedBy(seq, key) == [k \in DOMAIN seq |-> seq[Nth(DOMAIN seq, key, k)]]

\* median, as a fraction, of numbers that are multiples of 1/den.
Median(seq, den) ==
  LET s == SortedBy(seq, seq)
      h == Len(s) \div 2
  IN  IF Len(s) % 2 = 1 THEN [num |-> s[h + 1], den |-> den]
      ELSE [num |-> s[h] + s[h + 1], den |-> 2 * den]

Pow10[n \in Nat] == IF n = 0 THEN 1 ELSE 10 * Pow10[n - 1]
\* The digits of a number that are not significant.
Dropped(whole, digits) ==
  CHOOSE k \in 0..whole : whole < Pow10[digits + k]
                         /\ \A j \in 0..(k - 1) : whole >= Pow10[digits + j]

\* Mutant of RoundSigDig: what rounds to nothing is nothing.
MayBeZero(num, den, digits) ==
  IF num <= den THEN Round(num, den)
  ELSE LET drop == Dropped(num \div den, digits)
       IN  Round(num, den * Pow10[drop]) * Pow10[drop]

\* round_sig_dig: digits significant digits, and 1 at least.
RoundSigDig(num, den, digits) ==
  IF num <= den THEN 1
  ELSE LET drop == Dropped(num \div den, digits)
       IN  Round(num, den * Pow10[drop]) * Pow10[drop]

-----------------------------------------------------------------------------
(***************************************************************************)
(* The line of a relay: V3BWLine.from_results.                             *)
(***************************************************************************)
IsSuccess(result) == result.class = "ResultSuccess"

\* results_away_each_other: all of them, or none.
AwayEachOther(list) ==
  IF \/ args.secsAway = None \/ Len(list) < 2
     \/ \E i, j \in DOMAIN list : list[i].time - list[j].time > args.secsAway
  THEN list ELSE << >>

\* results_recent_than
IsRecent(result) == args.secsRecent = None \/ Now - result.time < args.secsRecent
RecentThan(list) == Filter(list, IsRecent)

\* The rates of all the downloads.
Rates(list) == Joined(Map(LAMBDA result : result.downloads, list))

\* bw_median_from_results, bw_mean_from_results
BwMedian(list) ==
  IF Rates(list) = << >> THEN 1
  ELSE LET m == Median(Rates(list), 2) IN LargerOf(Round(m.num, m.den), 1)
BwMean(list) ==
  IF Rates(list) = << >> THEN 0 ELSE Round(Sum(Rates(list)), 2 * Len(Rates(list)))

\* scaling.bw_filt: the mean of the rates that are not less than the mean. No
\* rate may be, since the mean is rounded.
BwFilt(list) ==
  LET mu   == BwMean(list)
      high == Filter(Rates(list), LAMBDA rate : rate >= 2 * mu)
  IN  IF high = << >> THEN mu ELSE Round(Sum(high), 2 * Len(high))

\* desc_bw_avg_from_results...: the last value that is not None.
LastOf(values) ==
  LET known == Filter(values, LAMBDA value : value # None)
  IN  IF known = << >> THEN None ELSE Last(known)
MeanOf(values) ==
  LET known == Filter(values, LAMBDA value : value # None)
  IN  IF known = << >> THEN None ELSE Round(Sum(known), Len(known))
Observed(list) == Map(LAMBDA result : result.relay.bandwidths.observed, list)

\* rtt_from_results
Rtt(list) ==
  LET rtts == Joined(Map(LAMBDA result : result.rtts, list))
      m    == Median(rtts, 1)
  IN  IF rtts = << >> THEN None ELSE Round(m.num, m.den)

\* The times of one of the Recents, in all the results: a relay that was measured
\* twice in the same second has one.
TimesOf(key, list) ==
  UNION {{list[i].relay.recent[key][j] : j \in DOMAIN list[i].relay.recent[key]} :
         i \in {i \in DOMAIN list : list[i].relay.recent[key] # None}}

\* result_types_from_results, num_results_of_type
ResultTypesOf(list) ==
  [type \in ResultTypes |-> Cardinality({i \in DOMAIN list : Type(list[i].class) = type})]

\* The KeyValues that each line has, and no result left out yet. The consensuses
\* are those of the result that knows the most of them.
KeyValues(list) ==
  [time   |-> LargestOf({list[i].time : i \in DOMAIN list}),
   types  |-> ResultTypesOf(list),
   recent |-> [key \in Recents |->
                 IF key = "relay_in_recent_consensus"
                 THEN LargestOf({IF list[i].relay.recent[key] = None THEN 0
                                 ELSE Len(list[i].relay.recent[key]) : i \in DOMAIN list})
                 ELSE Cardinality(TimesOf(key, list))],
   error |-> 0, near |-> 0, old |-> 0, few |-> 0]

\* vote=0 tells tor not to vote on the relay; with no vote it does.
Excluded(relay, reason, counts) ==
  [relay |-> relay, bw |-> 1, vote |-> reason = "no_observed_bw", under |-> FALSE,
   reason |-> reason, counts |-> counts]

Eligible(relay, list, counts) ==
  [relay |-> relay, bw |-> BwMedian(list), vote |-> TRUE, under |-> FALSE,
   reason |-> None, counts |-> counts,
   rtt |-> Rtt(list), mean |-> BwMean(list), filt |-> BwFilt(list),
   average |-> LastOf(Map(LAMBDA result : result.relay.bandwidths.average, list)),
   burst |-> LastOf(Map(LAMBDA result : result.relay.bandwidths.burst, list)),
   obsLast |-> LastOf(Observed(list)), obsMean |-> MeanOf(Observed(list))]

\* Mutant of LineOf: the results that are near are not left out.
NearIncluded(relay, list) ==
  LET success == Filter(list, IsSuccess)
      recent  == RecentThan(success)
      counts  == [KeyValues(list) EXCEPT !.error = Len(list) - Len(success),
                                         !.old = Len(success) - Len(recent)]
  IN  IF success = << >> THEN Excluded(relay, "error", counts)
      ELSE IF recent = << >> THEN Excluded(relay, "old", counts)
      ELSE IF Len(recent) < args.minNum
           THEN Excluded(relay, "few", [counts EXCEPT !.few = Len(recent)])
      ELSE IF LastOf(Observed(recent)) = None THEN Excluded(relay, "no_observed_bw", None)
      ELSE Eligible(relay, recent, counts)

\* The filters, in order, and the results each of them left out. The line of a
\* relay that has no observed bandwidth has none of the KeyValues.
LineOf(relay, list) ==
  LET success == Filter(list, IsSuccess)
      away    == AwayEachOther(success)
      recent  == RecentThan(away)
      counts  == [KeyValues(list) EXCEPT !.error = Len(list) - Len(success),
                                         !.near = Len(success) - Len(away),
                                         !.old = Len(away) - Len(recent)]
  IN  IF success = << >> THEN Excluded(relay, "error", counts)
      ELSE IF away = << >> THEN Excluded(relay, "near", counts)
      ELSE IF recent = << >> THEN Excluded(relay, "old", counts)
      ELSE IF Len(recent) < args.minNum
           THEN Excluded(relay, "few", [counts EXCEPT !.few = Len(recent)])
      ELSE IF LastOf(Observed(recent)) = None THEN Excluded(relay, "no_observed_bw", None)
      ELSE Eligible(relay, recent, counts)

-----------------------------------------------------------------------------
(***************************************************************************)
(* Scaling                                                                 *)
(***************************************************************************)
Sorted(lines) == SortedBy(lines, Map(LAMBDA l : l.bw, lines))

\* Relays of the last consensus; what is looked up in them.
InConsensus(relay) == consensus = None \/ relay \in consensus
\* read_number_consensus_relays
NumConsensus == Cardinality(consensus) + NotMeasured

\* bw_kb
RawScale(lines) ==
  Sorted(Map(LAMBDA l : [l EXCEPT !.bw = LargerOf(Round(@, Kilo), 1)], lines))

\* bw_sbws_scale: in proportion to the median, up to the average bandwidth of the
\* descriptor.
SbwsScale(lines) ==
  LET m == Median(Map(LAMBDA l : l.bw, lines), 1)
      Scaled(l) ==
        IF l.bw * ScaleConstant * m.den < l.average * m.num
        THEN Round(l.bw * ScaleConstant * m.den, m.num * Kilo)
        ELSE Round(l.average, Kilo)
  IN  Sorted(Map(LAMBDA l : [l EXCEPT !.bw = LargerOf(Scaled(l), 1)], lines))

\* What a descriptor allows: the last observed bandwidth, or the mean when it is
\* 0, and no more than burst and average when they are known.
DescBw(l) ==
  LET observed == IF l.obsLast \in {None, 0} THEN l.obsMean ELSE l.obsLast
  IN  SmallestOf({observed, l.burst, l.average} \ {None})

\* The sums that mu and muf are the means of.
SumMean(lines) == Sum(Map(LAMBDA l : l.mean, lines))
SumFilt(lines) == Sum(Map(LAMBDA l : l.filt, lines))

\* ratio * desc_bw, over SumMean * SumFilt.
Ratio(l, lines) ==
  Len(lines) * LargerOf(l.mean * SumFilt(lines), l.filt * SumMean(lines))
Product(l, lines) == Ratio(l, lines) * DescBw(l)

\* The limit of a relay: a part of the sum over the relays of the consensus. It
\* is, as the products are here, over SumMean * SumFilt * 100.
HLimit(lines) ==
  TorflowCap * Sum(Map(LAMBDA l : IF InConsensus(l.relay) THEN Product(l, lines) ELSE 0,
                       lines))

\* Mutant of Capped: no relay is limited.
NotCapped(l, lines) == 100 * Product(l, lines)

Capped(l, lines) == SmallestOf({HLimit(lines), 100 * Product(l, lines)})

TorflowBw(l, lines) ==
  RoundSigDig(Capped(l, lines), 100 * SumMean(lines) * SumFilt(lines) * Kilo, RoundDigits)

\* bw_torflow_scale
TorflowScale(lines) ==
  Sorted(Map(LAMBDA l : [l EXCEPT !.bw = TorflowBw(l, lines)], lines))

\* ZeroDivisionError, when no download was faster than nothing; TypeError of
\* min(None, ...).
ScaleRaises(lines) ==
  \/ args.method = "torflow" /\ (SumMean(lines) = 0 \/ SumFilt(lines) = 0)
  \/ args.method = "sbws" /\ \E i \in DOMAIN lines : lines[i].average = None

-----------------------------------------------------------------------------
(***************************************************************************)
(* generate                                                                *)
(***************************************************************************)
NoHeader ==
  [latest |-> 0, earliest |-> 0, excluded |-> [r \in Reasons |-> 0], eligible |-> None,
   minimum |-> None, percent |-> None, half |-> None]

Measured == {relay \in Relays : results[relay] # << >>}
Times ==
  UNION {{results[relay][i].time : i \in DOMAIN results[relay]} : relay \in Relays}

Init ==
  /\ args \in Arguments
  /\ disk \in [Relays -> LineLists \cup {<< >>}]
  /\ consensus \in Consensuses \cup {None}
  /\ minPerc \in BOOLEAN /\ results = [relay \in Relays |-> << >>]
  /\ pc = "load" /\ todo = {} /\ raw = << >> /\ excluded = << >>
  /\ header = NoHeader /\ file = << >>

\* trim_results_ip_changed: the last result, of those at the same time the last
\* in the list, has the address that is kept.
TrimIpChanged(list) ==
  LET latest == CHOOSE i \in DOMAIN list :
                  \A j \in DOMAIN list \ {i} :
                    list[j].time < list[i].time \/ (list[j].time = list[i].time /\ j < i)
  IN  Filter(list, LAMBDA result : result.relay.address = list[latest].relay.address)

\* load_result_file: the results of the lines, but not of other versions.
ResultsOf(lines) ==
  Filter(Map(FromDict, lines), LAMBDA result : result # None)

\* load_recent_results_in_datadir
Load ==
  /\ pc = "load" /\ pc' = "header"
  /\ results' = [relay \in Relays |-> IF args.reset THEN TrimIpChanged(ResultsOf(disk[relay]))
                                      ELSE ResultsOf(disk[relay])]
  /\ UNCHANGED <<inputVars, minPerc, todo, raw, excluded, header, file>>

\* "No recent results, so not generating anything."
NoResults ==
  /\ pc = "header" /\ Measured = {}
  /\ pc' = "done"
  /\ UNCHANGED <<inputVars, results, minPerc, todo, raw, excluded, header, file>>

\* V3BWHeader.from_results. What the state file counts is copied to the header.
HeaderFromResults ==
  /\ pc = "header" /\ pc' = "lines"
  /\ Measured # {}
  /\ header' = [header EXCEPT !.latest = LargestOf(Times), !.earliest = SmallestOf(Times)]
  /\ todo' = Measured
  /\ UNCHANGED <<inputVars, results, minPerc, raw, excluded, file>>

\* exclusion_dict. The count of no_observed_bw is not a KeyValue of the header.
CountExcluded(line) ==
  IF line.reason \in Reasons THEN [header EXCEPT !.excluded[line.reason] = @ + 1]
  ELSE header

LineFromResults(relay) ==
  /\ pc = "lines" /\ relay \in todo
  /\ todo' = todo \ {relay}
  /\ LET line == LineOf(relay, results[relay])
     IN  IF line.reason = None
         THEN raw' = Append(raw, line) /\ UNCHANGED <<excluded, header>>
         ELSE /\ excluded' = Append(excluded, line)
              /\ header' = CountExcluded(line)
              /\ UNCHANGED raw
  /\ UNCHANGED <<inputVars, results, minPerc, pc, file>>

\* set_under_min_report
SetUnderMinReport(lines) ==
  Map(LAMBDA l : [l EXCEPT !.under = TRUE, !.vote = FALSE], lines)

\* measured_progress_stats
Minimum       == Round(NumConsensus * MinReport, 100)
Percent(num)  == Round(num * 100, NumConsensus)
HasStats(num) ==
  [header EXCEPT !.eligible = num, !.minimum = Minimum, !.percent = Percent(num)]

\* update_progress: with no consensus there are no statistics, the answer is not
\* that there are enough lines, and the state file stays as it was.
UpdateProgress(num) ==
  IF consensus = None THEN UNCHANGED <<header, minPerc>>
  ELSE header' = HasStats(num) /\ minPerc' = (num >= Minimum)
Enough(num) == consensus # None /\ num >= Minimum

NoneEligible ==
  /\ pc = "lines" /\ todo = {} /\ raw = << >>
  /\ UpdateProgress(0)
  /\ excluded' = SetUnderMinReport(excluded)
  /\ pc' = "write"
  /\ UNCHANGED <<inputVars, results, todo, raw, file>>

Scale ==
  /\ pc = "lines" /\ todo = {} /\ raw # << >>
  /\ ~ScaleRaises(raw)
  /\ raw' = CASE args.method = "torflow" -> TorflowScale(raw)
              [] args.method = "sbws"    -> SbwsScale(raw)
              [] args.method = "raw"     -> RawScale(raw)
  /\ pc' = IF args.method = "torflow" THEN "progress" ELSE "report"
  /\ UNCHANGED <<inputVars, results, minPerc, todo, excluded, header, file>>

ScaleFails ==
  /\ pc = "lines" /\ todo = {} /\ raw # << >>
  /\ ScaleRaises(raw)
  /\ pc' = "done"
  /\ UNCHANGED <<inputVars, results, minPerc, todo, raw, excluded, header, file>>

Progress ==
  /\ pc = "progress" /\ pc' = "report"
  /\ UpdateProgress(Len(raw))
  /\ raw' = IF Enough(Len(raw)) THEN raw ELSE SetUnderMinReport(raw)
  /\ UNCHANGED <<inputVars, results, todo, excluded, file>>

\* add_time_report_half_network
Report ==
  /\ pc = "report" /\ pc' = "write"
  /\ header' = IF header.eligible \in {None, 0} \/ 2 * header.eligible < NumConsensus THEN header
               ELSE [header EXCEPT !.half = Round((header.latest - header.earliest) * NumConsensus,
                                                  2 * header.eligible)]
  /\ UNCHANGED <<inputVars, results, minPerc, todo, raw, excluded, file>>

\* Mutant of Lines: as before the excluded lines were reported.
RawOnly == raw
\* The lines of the file.
Lines == raw \o excluded

Write ==
  /\ pc = "write" /\ pc' = "done"
  /\ file' = Lines
  /\ UNCHANGED <<inputVars, results, minPerc, todo, raw, excluded, header>>

Done == pc = "done" /\ UNCHANGED vars

Next ==
  \/ Load \/ NoResults \/ HeaderFromResults
  \/ \E relay \in Relays : LineFromResults(relay)
  \/ NoneEligible \/ Scale \/ ScaleFails \/ Progress \/ Report \/ Write
  \/ Done

Spec == Init /\ [][Next]_vars

-----------------------------------------------------------------------------
(***************************************************************************)
(* Properties                                                              *)
(***************************************************************************)

\* Lines are of relays with results, each in one list, and the bandwidth of a
\* line is a whole number that is not 0 (kb_round_x_sig_dig: "Results less than
\* or equal to 1 are rounded up to 1").
TypeOK ==
  /\ pc \in {"load", "header", "lines", "progress", "report", "write", "done"}
  /\ todo \subseteq Measured /\ minPerc \in BOOLEAN
  /\ \A i \in DOMAIN Lines : Lines[i].relay \in Measured \ todo /\ Lines[i].bw \in Nat \ {0}
  /\ \A i, j \in DOMAIN Lines : Lines[i].relay = Lines[j].relay => i = j

With(reason) == {i \in DOMAIN file : file[i].reason = reason}

\* Which lines on disk are of this version, and which of these are successes.
Current(relay) == {i \in DOMAIN disk[relay] : disk[relay][i].version = Version}
Successes(relay) == {i \in Current(relay) : disk[relay][i].type = "success"}

\* The results of each type, together.
Known(types) ==
  types["success"] + types["error-misc"] + types["error-circ"] + types["error-stream"]
  + types["error-auth"] + types["error-second-relay"] + types["error-destination"]

CountsAgree(l) ==
  LET total == l.counts.error + l.counts.near + l.counts.old + l.counts.few
      known == Known(l.counts.types)
      size  == Cardinality(Current(l.relay))
  IN  /\ known <= size
      /\ ~args.reset => known = size
      /\ IF l.reason = None THEN total < known ELSE total = known

\* The file, its header, the state file and the datadir agree. There is a line of
\* each relay with results, the excluded ones after the others, and no file only
\* when there are no results or the scaling raises. The types a line counts are
\* the results there were; in the line of a relay that is excluded the results
\* that were left out are all of them. The header counts the lines that are
\* excluded by reason and those that are scaled, and min_perc_reached is kept
\* for when there were enough of these.
FileAgrees ==
  /\ pc = "done" /\ file = << >> =>
       \/ \A relay \in Relays : Current(relay) = {}
       \/ ScaleRaises(raw)
  /\ file # << >> =>
       /\ {file[i].relay : i \in DOMAIN file} = {relay \in Relays : Current(relay) # {}}
       /\ \A i \in With(None) : \A j \in DOMAIN file \ With(None) : i < j
       /\ \A i \in DOMAIN file \ With("no_observed_bw") : CountsAgree(file[i])
       /\ \A reason \in Reasons : header.excluded[reason] = Cardinality(With(reason))
       /\ header.eligible # None =>
            /\ header.eligible = Cardinality(With(None))
            /\ minPerc <=> header.eligible >= header.minimum

\* Enough of the measurements on disk of a relay succeeded and are recent, and
\* they are not all of the same time.
MeasuredEnough(relay) ==
  LET lines   == disk[relay]
      success == Successes(relay)
  IN  /\ Cardinality({j \in success : IsRecent(lines[j])}) >= LargerOf(args.minNum, 1)
      /\ args.secsAway # None /\ Cardinality(success) > 1 /\ ~args.reset =>
           \E j, k \in success : lines[j].time > lines[k].time + args.secsAway

\* tor votes on a relay only if enough of its measurements on disk succeeded and
\* are recent, if they are not all of the same time, and if enough relays of the
\* last consensus are like it. The relays with no observed bandwidth are not
\* held to the last: nothing tells tor not to vote on them.
VotedIfMeasured ==
  \A i \in DOMAIN file : file[i].vote =>
    /\ MeasuredEnough(file[i].relay)
    /\ args.method = "torflow" /\ file[i].reason = None =>
         consensus # None /\ 100 * Cardinality(With(None)) + 50 >= MinReport * NumConsensus

\* Lines that are limited to a part of their sum, and in order.
WithinLimit(lines) ==
  \A i, j \in DOMAIN lines :
    /\ lines[i].bw <= RoundSigDig(HLimit(lines), 100 * SumMean(lines) * SumFilt(lines) * Kilo,
                                  RoundDigits)
    /\ /\ lines[i].mean <= lines[j].mean /\ lines[i].filt <= lines[j].filt
       /\ DescBw(lines[i]) <= DescBw(lines[j])
       => lines[i].bw <= lines[j].bw
    /\ i < j => lines[i].bw <= lines[j].bw

\* Scaling as Torflow gives no relay more than its part of the sum (as rounded),
\* and no relay less than one that measures less and that claims less. The lines
\* are in the order of their bandwidth.
ScaledWithinLimit ==
  args.method = "torflow" => WithinLimit(Filter(file, LAMBDA l : l.reason = None))

=============================================================================
