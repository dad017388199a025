-------------------------------- MODULE Wtracer --------------------------------
(***************************************************************************)
(* wtracer: the tool that turns the trace files of one or several nodes    *)
(* into text: raw lists, gnuplot segments, SITC lists and VCD; and the VCD *)
(* a node can write by itself.  A file is what libtracer leaves: every     *)
(* signal registered with 0 at time 0, then changes, and pulses whose      *)
(* zeros are one unit of time before and after.                            *)
(***************************************************************************)
EXTENDS Integers, Sequences, FiniteSets, SequencesExt

CONSTANTS
  Signals,     \* the signals of a node, numbered in the order of their registration
  MaxFiles,    \* bound: the trace files
  MaxRecorded, \* bound: the changes and pulses recorded in all of them
  MaxTime      \* bound: the time of a change

ASSUME WtracerAssumption ==
  /\ Signals \subseteq Nat /\ 0 \in Signals
  /\ MaxFiles \in Nat \ {0} /\ MaxRecorded \in Nat /\ MaxTime \in Nat

VARIABLE tool \* [files, recorded, options, outputs, status]

Forever == MaxTime + 100   \* DEFAULT_STOP_TIME
Factor == 2                \* bound: a million nanoseconds, the unit of gnuplot's axis
Order == SetToSortSeq(Signals, LAMBDA i, j : i < j)
Sample(id, time, val) == [id |-> id, time |-> time, val |-> val]

\* The signals that are registered with the name of a module.
InModule == {id \in Signals : id > 0}

\* tracer_event_add_id, for each signal of a file.
NewFile(initial, name) ==
  [samples |-> [i \in 1..Len(Order) |-> Sample(Order[i], 0, 0)],
   now |-> 0, initial |-> initial, name |-> name]

LastValue(f, id) == LET s == SelectSeq(f.samples, LAMBDA x : x.id = id) IN s[Len(s)].val

\* What options_parse starts from.
Defaults == [mode |-> "none", merge |-> FALSE, start |-> 0, stop |-> Forever,
             format |-> "raw", signal |-> "all", conflict |-> FALSE]

WtrInit == tool = [files |-> <<NewFile(0, "trc")>>, recorded |-> 0, outputs |-> <<>>,
                   options |-> Defaults, status |-> "recording"]

Recorded(f, new, t) == [f EXCEPT !.samples = @ \o new, !.now = t]

Grow(f) ==
  /\ tool.status = "recording" /\ tool.recorded < MaxRecorded
  /\ tool' = [tool EXCEPT !.files[Len(tool.files)] = f, !.recorded = @ + 1]

\* tracer_event_record_active: only a change is recorded.
RecordChange(id, t) ==
  LET f == tool.files[Len(tool.files)]
  IN  t >= f.now /\ Grow(Recorded(f, <<Sample(id, t, 1 - LastValue(f, id))>>, t))

\* tracer_event_record_active_force.
RecordPulse(id, t) ==
  LET f == tool.files[Len(tool.files)]
  IN  /\ t >= f.now /\ t > 0 /\ LastValue(f, id) = 0
      /\ Grow(Recorded(f, <<Sample(id, t - 1, 0), Sample(id, t, 1), Sample(id, t + 1, 0)>>, t))

\* Another node's file: it may have been started later, and be named otherwise.
OpenFile(initial, name) ==
  /\ tool.status = "recording" /\ Len(tool.files) < MaxFiles
  /\ tool' = [tool EXCEPT !.files = Append(@, NewFile(initial, name))]
-----------------------------------------------------------------------------
\* The options.

\* One of the options that say what to read: the second one ends options_parse,
\* but the first one stays.
TakeMode(t, m) ==
  IF t.mode = "none" THEN [t EXCEPT !.mode = m] ELSE [t EXCEPT !.conflict = TRUE]

\* options_parse, over the modes and the options given after them: these are not
\* read once the modes disagree.
Parsed(modes, others) ==
  LET t == FoldLeft(TakeMode, Defaults, modes)
  IN  IF t.conflict THEN t
      ELSE [t EXCEPT !.merge = others.merge, !.start = others.start, !.stop = others.stop,
                     !.format = others.format, !.signal = others.signal]

\* options_validation.
Refused(t) ==
  \/ t.stop # Forever /\ t.stop <= t.start
  \/ t.merge /\ t.mode = "file"

Wanted(t, id) == t.signal \in {"all", ToString(id)}
WantedIds(t) == SelectSeq(Order, LAMBDA id : Wanted(t, id))
-----------------------------------------------------------------------------
\* The drivers.  A line is a sample with the number of the file it is from, 0
\* when the text does not say; "#" lines only give the time of those after.

Line(n, s) == [trc |-> n, id |-> s.id, time |-> s.time, val |-> s.val]
OfId(s, id) == SelectSeq(s, LAMBDA x : x.id = id)
Flatten(parts) == FoldLeft(LAMBDA a, p : a \o p, <<>>, parts)
Lines(n, s) == [i \in DOMAIN s |-> Line(n, s[i])]

\* drv_raw_process: the whole file is read again for each signal.
Raw(t, f) == Flatten([i \in DOMAIN WantedIds(t) |-> Lines(0, OfId(f.samples, WantedIds(t)[i]))])

\* tracer_dump_gplot_id: a segment from each sample to the next, and from the
\* last one to the end of the simulation, unless a pulse ends after it.
Segments(f, id) ==
  LET s == OfId(f.samples, id)
      until == [i \in DOMAIN s |-> IF i < Len(s) THEN s[i + 1].time ELSE f.now]
      n == IF s[Len(s)].time <= f.now THEN Len(s) ELSE Len(s) - 1
  IN  [i \in 1..n |-> [trc |-> 0, id |-> id, time |-> s[i].time \div Factor,
                       val |-> s[i].val, until |-> until[i] \div Factor]]

Gplot(t, f) == Flatten([i \in DOMAIN WantedIds(t) |-> Segments(f, WantedIds(t)[i])])

\* select_next_sample of SITC: when the sample found is the last one of the
\* file the trace counts as ended, and that sample is not written.
Readable(f, id) == OfId(SubSeq(f.samples, 1, Len(f.samples) - 1), id)

\* A bug this could have: the next sample of the first file, whatever its time.
EarliestAny(heads, ready) ==
  [low |-> CHOOSE i \in ready : \A j \in ready : i <= j,
   high |-> CHOOSE i \in ready : \A j \in ready : i >= j]

\* The files whose next sample is the earliest, and the one that is taken.
Earliest(heads, ready) ==
  LET first == {i \in ready : \A j \in ready : heads[i] <= heads[j]}
  IN  [low |-> CHOOSE i \in first : \A j \in first : i <= j,
       high |-> CHOOSE i \in first : \A j \in first : i >= j]

\* One sample moves from the files to the text.
Advance(m, which) ==
  LET ready == {i \in DOMAIN m.left : m.left[i] # <<>>}
  IN  IF ready = {} THEN m
      ELSE LET at == Earliest([i \in ready |-> m.left[i][1].time], ready)
               i == IF which = "low" THEN at.low ELSE at.high
           IN  [left |-> [m.left EXCEPT ![i] = Tail(@)],
                text |-> Append(m.text, Line(i, m.left[i][1]))]

AllOf(left) == FoldLeft(LAMBDA n, l : n + Len(l), 0, left)

Merged(left, which) ==
  FoldLeft(LAMBDA m, k : Advance(m, which), [left |-> left, text |-> <<>>],
           [k \in 1..AllOf(left) |-> k]).text

\* drv_sitc_dump_signal: the earliest sample first, of the first file if two
\* are as early; a file's own time, whenever its node was started.
SitcSignal(fs, id) == Merged([i \in DOMAIN fs |-> Readable(fs[i], id)], "low")

\* drv_sitc_finalize.
Sitc(t, fs) == Flatten([i \in DOMAIN WantedIds(t) |-> SitcSignal(fs, WantedIds(t)[i])])

\* vcd_find_modules, vcd_dump_modules, vcd_dump_variables: the codes of the
\* signals of file n, those of a module first.
Declared(n) ==
  LET codes == [i \in DOMAIN Order |-> <<n, Order[i]>>]
  IN  SelectSeq(codes, LAMBDA c : c[2] \in InModule)
      \o SelectSeq(codes, LAMBDA c : c[2] \notin InModule)

Scopes(n) == Flatten([i \in 1..n |-> Declared(i)])

\* A sample as it is written under the last "#" line: its time is that line's.
\* A "#" line is written unless the sample before, shown or not, was as late.
Written(v, s) ==
  LET stamp == IF v.fresh \/ s.time # v.curr THEN s.time ELSE v.stamp
  IN  [v EXCEPT !.fresh = FALSE, !.stamp = stamp, !.last[s.id] = s.val,
                !.text = Append(@, [trc |-> 1, id |-> s.id, time |-> stamp, val |-> s.val])]

Skipped(v, s) == [v EXCEPT !.curr = s.time]

VcdSample(t, v, s) ==
  LET inside == t.start <= s.time /\ s.time <= t.stop
      w == IF inside /\ (v.fresh \/ v.last[s.id] # s.val) THEN Written(v, s) ELSE v
  IN  Skipped(w, s)

\* drv_vcd_process_file: its loop starts at 1 and so leaves the last sample of
\* the file, and the values it compares with start as whatever the stack holds.
VcdFile(t, f, stack) ==
  FoldLeft(LAMBDA v, s : VcdSample(t, v, s),
           [fresh |-> TRUE, stamp |-> 0, curr |-> 0, last |-> stack, text |-> <<>>],
           SubSeq(f.samples, 1, Len(f.samples) - 1)).text

\* drv_vcd_dump_merge: every sample, at the time of the simulation; of the last
\* file if two are as early; the counter that would leave out a "#" line or a
\* value told before is never incremented, and the window is not looked at.
VcdMerge(fs) ==
  Merged([i \in DOMAIN fs |->
            [k \in DOMAIN fs[i].samples |->
               [fs[i].samples[k] EXCEPT !.time = @ + fs[i].initial]]], "high")

\* tracer_vcd_dump_data, for one block: the time starts from 0 again.
DirectBlock(v, s) ==
  LET stamp == IF s.time # v.curr THEN s.time ELSE v.stamp
  IN  [stamp |-> stamp, curr |-> s.time,
       text |-> Append(v.text, [trc |-> 0, id |-> s.id, time |-> stamp, val |-> s.val])]

\* The VCD a node writes by itself, its block written once after `cut` samples.
DirectVcd(f, cut) ==
  LET start == [stamp |-> 0, curr |-> 0, text |-> <<>>]
      one == FoldLeft(DirectBlock, start, SubSeq(f.samples, 1, cut))
  IN  FoldLeft(DirectBlock, [one EXCEPT !.curr = 0],
               SubSeq(f.samples, cut + 1, Len(f.samples))).text
-----------------------------------------------------------------------------
\* The command.

Output(format, of, text) == [format |-> format, of |-> of, text |-> text]

\* A driver's process, for one file that is not merged.
Converted1(t, i, stack) ==
  LET f == tool.files[i]
      text == CASE t.format = "raw" -> Raw(t, f)
                [] t.format = "gplot" -> Gplot(t, f)
                [] t.format = "vcd" -> VcdFile(t, f, stack)
                [] t.format = "sitc" -> Sitc(t, <<f>>)
  IN  Output(t.format, <<i>>, text)

\* --merge: one output for all files; drv_raw_init and drv_gplot_init refuse it
\* but nobody looks, and the files' texts follow each other.
MergedOutput(t, order) ==
  LET fs == [k \in DOMAIN order |-> tool.files[order[k]]]
      text == CASE t.format = "raw" -> Flatten([k \in DOMAIN fs |-> Raw(t, fs[k])])
                [] t.format = "gplot" -> Flatten([k \in DOMAIN fs |-> Gplot(t, fs[k])])
                [] t.format = "vcd" -> VcdMerge(fs)
                [] t.format = "sitc" -> Sitc(t, fs)
  IN  Output(t.format, order, text)

\* tracer_dirmode_next takes the names that end in .trc, in the order of the
\* directory; --multi those of the command line, where the options that were
\* not read are names too, of files that do not exist.
Inputs(t, order) ==
  IF t.mode = "dir" THEN SelectSeq(order, LAMBDA i : tool.files[i].name = "trc") ELSE order

NoText(modes) == [k \in DOMAIN modes |-> Output("raw", <<>>, <<>>)]

Outputs(t, modes, order, stack) ==
  LET ins == Inputs(t, order)
  IN  CASE t.mode = "file" -> <<Converted1(t, 1, stack)>>
        [] t.mode # "file" /\ t.merge -> <<MergedOutput(t, ins)>>
        [] t.mode # "file" /\ ~ t.merge ->
             (IF t.mode = "multi" /\ t.conflict THEN NoText(modes) ELSE <<>>)
             \o [k \in DOMAIN ins |-> Converted1(t, ins[k], stack)]

\* How main ends.  SITC writes when all files have been read: with neither one
\* file nor --merge its output is closed by then.
Ending(t) ==
  CASE Refused(t) -> "refused"
    [] ~ Refused(t) /\ t.format \notin {"raw", "gplot", "vcd", "sitc"} -> "unknown format"
    [] ~ Refused(t) /\ t.format = "sitc" /\ t.mode \in {"dir", "multi"} /\ ~ t.merge -> "crashed"
    [] OTHER -> IF t.mode = "none" THEN "no mode" ELSE "done"

Command(modes, others, order, stack) ==
  /\ tool.status = "recording"
  /\ \E t \in {Parsed(modes, others)} : \E end \in {Ending(t)} :
       tool' = [tool EXCEPT !.status = end, !.options = t,
                !.outputs = IF end = "done" THEN Outputs(t, modes, order, stack) ELSE <<>>]

\* A node that was started with --trace=vcd:<file> needs no tool.
Direct(cut) ==
  /\ tool.status = "recording" /\ cut <= Len(tool.files[1].samples)
  /\ tool' = [tool EXCEPT !.status = "done", !.options = Defaults,
              !.outputs = <<Output("direct", <<1>>, DirectVcd(tool.files[1], cut))>>]

Orders == {<<1>>} \cup (IF Len(tool.files) = 2 THEN {<<1, 2>>, <<2, 1>>} ELSE {})

WtrNext ==
  /\ tool.status = "recording"
  /\ \/ \E id \in Signals, t \in 0..MaxTime : RecordChange(id, t) \/ RecordPulse(id, t)
     \/ \E start \in {<<0, "trc">>, <<1, "trc">>, <<1, "log">>} : OpenFile(start[1], start[2])
     \/ \E modes \in {<<>>, <<"file">>, <<"dir">>, <<"multi">>, <<"multi", "dir">>, <<"dir", "file">>},
           merge \in BOOLEAN, format \in {"raw", "gplot", "vcd", "sitc", "lxt"},
           choice \in {<<0, Forever, "all">>, <<0, Forever, "0">>, <<1, 2, "all">>, <<2, 1, "all">>},
           order \in Orders, word \in 0..1 :
          /\ format # "vcd" => word = 0
          /\ Command(modes, [merge |-> merge, format |-> format, start |-> choice[1],
                             stop |-> choice[2], signal |-> choice[3]],
                     order, [id \in Signals |-> word])
     \/ \E cut \in 0..(MaxRecorded + 2) : Direct(cut)
-----------------------------------------------------------------------------

Told(text, n, id) ==
  LET s == SelectSeq(text, LAMBDA x : x.trc = n /\ x.id = id)
  IN  [i \in DOMAIN s |-> <<s[i].time, s[i].val>>]

\* What is new in a list of times and values, from the 0 all signals start with.
News(s) ==
  LET value(i) == IF i = 0 THEN 0 ELSE s[i][2]
      new == {i \in DOMAIN s : value(i) # value(i - 1)}
      at == SetToSortSeq(new, LAMBDA i, j : i < j)
  IN  [k \in DOMAIN at |-> s[at[k]]]

Truth(samples, id, shift) ==
  LET s == OfId(samples, id) IN [i \in DOMAIN s |-> <<s[i].time + shift, s[i].val>>]

Whole(i, id) == Truth(tool.files[i].samples, id, 0)
ButLast(i, id) == Truth(Front(tool.files[i].samples), id, 0)

Forward(s) == \A i \in 1..(Len(s) - 1) : s[i].time <= s[i + 1].time

Axis(s) == [i \in DOMAIN s |-> <<s[i][1] \div Factor, s[i][2]>>]

\* A segment ends where the next one of its signal starts.
Joined(text) ==
  \A i \in 1..(Len(text) - 1) :
    text[i].id = text[i + 1].id /\ text[i + 1].time # 0 => text[i].until = text[i + 1].time

OutputTrue(o) ==
  LET full == tool.options.start = 0 /\ tool.options.stop = Forever
  IN  CASE o.format = "raw" ->
             \A id \in Signals : Wanted(tool.options, id) =>
               Told(o.text, 0, id) = Flatten([k \in DOMAIN o.of |-> Whole(o.of[k], id)])
        [] o.format = "gplot" ->
             /\ Joined(o.text)
             /\ \A id \in Signals : Wanted(tool.options, id) =>
                  IsPrefix(Told(o.text, 0, id) , Axis(Flatten([k \in DOMAIN o.of |-> Whole(o.of[k], id)])))
                  \/ Len(o.of) > 1
        [] o.format = "sitc" ->
             /\ \A k \in DOMAIN o.of, id \in Signals : Wanted(tool.options, id) =>
                  Told(o.text, k, id) = ButLast(o.of[k], id)
             /\ (\A k \in DOMAIN o.of : Forward(tool.files[o.of[k]].samples)) =>
                  \A id \in Signals : Forward(OfId(o.text, id))
        [] o.format = "vcd" /\ tool.options.merge ->
             /\ \A k \in DOMAIN o.of, id \in Signals :
                  Told(o.text, k, id) =
                    Truth(tool.files[o.of[k]].samples, id, tool.files[o.of[k]].initial)
             /\ (\A k \in DOMAIN o.of : Forward(tool.files[o.of[k]].samples)) => Forward(o.text)
        [] o.format = "vcd" /\ ~ tool.options.merge ->
             \A id \in Signals :
               IF full THEN News(Told(o.text, 1, id)) = News(ButLast(o.of[1], id))
               ELSE \A line \in Range(Told(o.text, 1, id)) :
                      \E s \in Range(Whole(o.of[1], id)) : s[2] = line[2] /\ line[1] <= s[1]
        [] o.format = "direct" ->
             \A id \in Signals :
               Forward(tool.files[1].samples) =>
                 News(Told(o.text, 0, id)) = News(Whole(1, id))

\* The tool tells what the node recorded.  A raw list and a merged VCD have every
\* sample of every file; a SITC list, and the VCD of one file, every one but the
\* last of a file (a VCD only what is new, and inside a window only values the
\* signal had); a VCD the node wrote itself every change, wherever its block was
\* cut; gnuplot's segments follow each other and lack at most the last one.
\* Merged texts go forward in time if the files do, and every signal of a VCD is
\* declared once.
Converted ==
  tool.status = "done" =>
    /\ \A k \in DOMAIN tool.outputs : OutputTrue(tool.outputs[k])
    /\ LET codes == Scopes(Len(tool.files))
       IN  IsInjective(codes) /\ Range(codes) = (DOMAIN tool.files) \X Signals
=============================================================================
