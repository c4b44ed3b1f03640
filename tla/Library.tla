------------------------------- MODULE Library --------------------------------
(***************************************************************************)
(* Calls of the C library and of the other pure functions of the           *)
(* repository, one call in each behaviour: the initial state chooses the   *)
(* arguments and the only step is the call.  The properties say what the   *)
(* result of each call has to do with its arguments and with the results   *)
(* of the other functions.                                                 *)
(***************************************************************************)
EXTENDS CString, Printf, Scanf, LabThreeLibc, LabOne, KernelUtil

CONSTANTS MemorySize,   \* cells of the memory that strings are in
          Letters,      \* bytes other than 0 that it holds
          Values,       \* numbers that are printed
          Widths,       \* field widths
          MaxText,      \* length of the longest text that is printed
          MaxOdd        \* length of the longest array, which is odd

VARIABLES job, result

vars == <<job, result>>

NotYet == [pending |-> TRUE]

------------------------------------------------------------------------------
(* Strings.                                                                  *)

Cells == 1 .. MemorySize

\* Every string in it ends.
Memories == {m \in [Cells -> Letters \cup {0}] : m[MemorySize] = 0}

\* What is copied fits, if the strings do not overlap.
CopyJobs ==
  {j \in [do : {"strcpy", "strcat", "strncpy", "strncat", "memmove"},
          mem : Memories, to : Cells, from : Cells, n : 0 .. 2] :
     LET len == strlen(j.mem, j.from)
         end == scan(j.mem, j.to, {0})
     IN  CASE j.do = "strcpy" -> j.n = 0 /\ j.to + len <= MemorySize
           [] j.do = "strcat" -> j.n = 0 /\ end + len <= MemorySize
           [] j.do = "strncpy" -> j.to + j.n - 1 <= MemorySize
           [] j.do = "strncat" -> end + j.n <= MemorySize
           [] j.do = "memmove" -> /\ j.to + j.n - 1 <= MemorySize
                                  /\ j.from + j.n - 1 <= MemorySize}

call_copy ==
  /\ result = NotYet
  /\ job.do \in {"strcpy", "strcat", "strncpy", "strncat", "memmove"}
  /\ result' = CASE job.do = "strcpy" -> strcpy(job.mem, job.to, job.from)
                 [] job.do = "strcat" -> strcat(job.mem, job.to, job.from)
                 [] job.do = "strncpy" -> strncpy(job.mem, job.to, job.from, job.n)
                 [] job.do = "strncat" -> strncat(job.mem, job.to, job.from, job.n)
                 [] job.do = "memmove" -> memcpy(job.mem, job.to, job.from, job.n)
  /\ UNCHANGED job

SearchJobs ==
  [do : {"search"}, mem : Memories, s1 : Cells, s2 : Cells, n : 0 .. 2,
   c : Letters \cup {0}]

call_search ==
  /\ result = NotYet
  /\ job.do = "search"
  /\ LET m == job.mem
     IN  result' = [strcmp  |-> strcmp(m, job.s1, job.s2),
                    back    |-> strcmp(m, job.s2, job.s1),
                    strncmp |-> strncmp(m, job.s1, job.s2, job.n),
                    strspn  |-> strspn(m, job.s1, job.s2),
                    strcspn |-> strcspn(m, job.s1, job.s2),
                    strpbrk |-> strpbrk(m, job.s1, job.s2),
                    strstr  |-> strstr(m, job.s1, job.s2),
                    strchr  |-> strchr(m, job.s1, job.c),
                    strrchr |-> strrchr(m, job.s1, job.c)]
  /\ UNCHANGED job

------------------------------------------------------------------------------
(* Formatted input and output.                                               *)

\* The codes of d o u x z p.
NumberConvs == {100, 111, 117, 120, 122, 112}

NumberJobs ==
  [do : {"number"}, flags : SUBSET {Hash, Minus, Plus}, zero : BOOLEAN,
   width : Widths, conv : NumberConvs, v : Values]

Decimal(n) == printnum(n, 10)
Format(flags, zero, width, prec, conv) ==
  <<Percent>> \o SetToSeq(flags) \o (IF zero THEN <<Zero>> ELSE << >>)
    \o (IF width = 0 THEN << >> ELSE Decimal(width)) \o prec \o <<conv>>
NumberFormat(j, width) == Format(j.flags, j.zero, width, << >>, j.conv)

\* The text as a string in memory, behind it a blank and the end.
InMemory(text) == text \o <<0, Blank, 0>>

call_number ==
  /\ result = NotYet
  /\ job.do = "number"
  /\ LET text == doprnt(NumberFormat(job, job.width), <<job.v>>, 0)
         m == InMemory(text)
     IN  result' = [text |-> text,
                    strtol |-> [base \in {0, 10, 16} |-> strtol(m, 1, base)],
                    strtoul |-> [base \in {0, 8, 10, 16} |-> strtoul(m, 1, base)],
                    atoi |-> atoi(m, 1),
                    scan |-> [conv \in {100, 120} |->
                                sscanf(m, 1, <<Blank, Percent, conv>>)],
                    second |-> sscanf(text \o <<44>> \o m, 1,
                                 <<Blank, Percent, Star, 100, 44, Percent, 100>>)]
  /\ UNCHANGED job

\* The text and the size of the buffer that snprintf is given, at address 2.
TextJobs ==
  [do : {"text"}, text : BoundedSeq({97, NL, 0}, MaxText), size : 0 .. MaxText,
   raised : BOOLEAN]

call_text ==
  /\ result = NotYet
  /\ job.do = "text"
  /\ LET fmt == FlattenSeq([k \in DOMAIN job.text |-> <<Percent, 99>>])
                  \o (IF job.raised THEN <<Percent, 110>> ELSE << >>)
         m == [a \in 1 .. MaxText + 3 |-> 1]
     IN  result' = [calls |-> printf(fmt, Append(job.text, 1)),
                    saved |-> IF job.raised THEN NotYet
                              ELSE snprintf(m, 2, job.size, fmt, job.text)]
  /\ UNCHANGED job

\* A string, whose width is given by an argument and whose precision is in the
\* format (-1: none), behind it what is in memory.
StringJobs ==
  [do : {"string"}, text : BoundedSeq({97, Blank}, 3), width : -4 .. 4,
   prec : -1 .. 3, behind : {<<Blank, 0>>, <<98, 0, Blank, 0>>}]

call_string ==
  /\ result = NotYet
  /\ job.do = "string"
  /\ LET prec == IF job.prec = -1 THEN << >> ELSE <<Dot>> \o Decimal(job.prec)
         text == doprnt(<<Percent, Star>> \o prec \o <<115>>, <<job.width, job.text>>, 0)
     IN  result' = [text |-> text,
                    scan |-> sscanf(text \o <<0>> \o job.behind, 1,
                                    <<Blank, Percent, 115>>)]
  /\ UNCHANGED job

\* The parts of a thread id that are printed; its first word has task and thread
\* number in it.
ThreadJobs ==
  [do : {"thread"}, flags : SUBSET {Hash, Minus}, zero : BOOLEAN, width : 0 .. 9,
   long : BOOLEAN, lthread : {0, 15, 16, 127}, task : {1, 15, 16, 255, 256, 2047}]

call_thread ==
  /\ result = NotYet
  /\ job.do = "thread"
  /\ LET tid == [lthread |-> job.lthread, task |-> job.task,
                 high |-> job.lthread * 1024 + job.task * 131072, low |-> job.task]
         long == IF job.long THEN <<108>> ELSE << >>
     IN  result' = doprnt(Format(job.flags, job.zero, job.width, long, 116), <<tid>>, 0)
  /\ UNCHANGED job

\* The example of a comment (doprnt.c:101): two bits and a field of two.
Register == [base |-> 8,
             fields |-> << [bit |-> 4, low |-> 3, name |-> <<70>>],
                           [bit |-> 2, low |-> 0, name |-> <<66>>],
                           [bit |-> 1, low |-> 0, name |-> <<65>>] >>]

DumpJobs ==
  [do : {"dump"}, bytes : {[k \in 1 .. n |-> (37 * k + b) % 256] :
                             n \in 0 .. 33, b \in {0, 7}}, u : 0 .. 31]

call_dump ==
  /\ result = NotYet
  /\ job.do = "dump"
  /\ result' = [rows |-> hexdump(job.bytes),
                bits |-> doprnt(<<Percent, 98>>, <<job.u, Register>>, 0)]
  /\ UNCHANGED job

\* H, h and the rest of a word; numbers that twister may expect.
TwisterJobs ==
  [do : {"twister"}, hello : BoundedSeq({72, 104}, 3), goodbye : {<<104>>, <<72, 72>>},
   num : {7, 42, 123}, at : {0, 90, 255}, expected : {42, 123}]

call_twister ==
  /\ result = NotYet
  /\ job.do = "twister"
  /\ result' = twister(job.hello, job.goodbye, Decimal(job.num), <<job.at, job.at>>,
                        job.expected)
  /\ UNCHANGED job

------------------------------------------------------------------------------
(* The others.                                                               *)

OddballJobs ==
  UNION {[do : {"oddball"}, arr : randGenerator(len), behind : 1 .. len \div 2 + 2] :
           len \in {n \in 1 .. MaxOdd : n % 2 = 1}}

call_oddball ==
  /\ result = NotYet
  /\ job.do = "oddball"
  /\ LET len == Cardinality(DOMAIN job.arr)
     IN  result' = [baseline |-> oddball(job.arr, len),
                    counting |-> oddball_counting(job.arr, len),
                    sorting |-> oddball2(job.arr, len, job.behind),
                    sorted |-> quicksort(job.arr, 0, len - 1)]
  /\ UNCHANGED job

BufferJobs ==
  [do : {"buffer"}, start : Addresses, count : Addresses, base : Addresses,
   bound : Addresses]

call_util ==
  /\ result = NotYet
  /\ job.do = "buffer"
  /\ result' = [valid |-> valid_addr(job.start, job.count, job.base, job.bound),
                log |-> [x \in Addresses |-> ilog2(x)]]
  /\ UNCHANGED job

Init ==
  /\ \/ job \in CopyJobs \/ job \in SearchJobs \/ job \in NumberJobs
     \/ job \in TextJobs \/ job \in StringJobs \/ job \in ThreadJobs
     \/ job \in DumpJobs \/ job \in TwisterJobs \/ job \in OddballJobs \/ job \in BufferJobs
  /\ result = NotYet

Next ==
  \/ call_copy \/ call_search
  \/ call_number \/ call_text \/ call_string \/ call_thread \/ call_dump \/ call_twister
  \/ call_oddball \/ call_util
Spec == Init /\ [][Next]_vars

Done(do) == job.do = do /\ result # NotYet

------------------------------------------------------------------------------
(* Copying.                                                                  *)

\* What is left by a copy of k bytes to address d, all else being as before.
Copied(d, k) ==
  [a \in Cells |-> IF a \in d .. d + k - 1 THEN job.mem[job.from + a - d]
                   ELSE job.mem[a]]

\* The bytes from a to b are 0.
Cleared(m, a, b) == [c \in Cells |-> IF c \in a .. b THEN 0 ELSE m[c]]

\* The functions copy what they should and touch nothing else.  strcpy and
\* strcat need a destination that does not begin behind the start of the
\* source, in it (strcpy.c:49); memmove and memcpy work for any overlap
\* (memmove.c:18-23).  strncpy pads a source that is shorter than its count; a
\* longer one is the matter of StrncpyKeepsCount.
CopiesAreExact ==
  \A do \in {"strcpy", "strcat", "strncpy", "strncat", "memmove"} : Done(do) =>
    LET len == strlen(job.mem, job.from)
        source == job.from .. job.from + len
        end == scan(job.mem, job.to, {0})
        k == Min({job.n, len})
    IN  CASE do = "strcpy" ->
               job.to \notin source \ {job.from} => result = Copied(job.to, len + 1)
          [] do = "strcat" ->
               end \notin source \ {job.from} => result = Copied(end, len + 1)
          [] do = "strncpy" ->
               len < job.n /\ job.to .. job.to + job.n - 1 \cap source = {} =>
                 result = Cleared(Copied(job.to, len), job.to + len, job.to + job.n - 1)
          [] do = "strncat" ->
               end .. end + k \cap source = {} =>
                 result = IF job.n = 0 THEN job.mem
                          ELSE Cleared(Copied(end, k), end + k, end + k)
          [] do = "memmove" -> result = Copied(job.to, job.n)

\* What is said of strncpy: "strncpy copies 'count' characters from the 'from' string
\* to the 'to' string", padded "until exactly 'count' characters have been written"
\* (strncpy.c:38-41).
StrncpyKeepsCount ==
  Done("strncpy") /\ job.n > 0 =>
    LET k == Min({job.n, strlen(job.mem, job.from)})
    IN  job.to .. job.to + job.n - 1 \cap job.from .. job.from + k = {} =>
          result = Cleared(Copied(job.to, k), job.to + k, job.to + job.n - 1)

------------------------------------------------------------------------------
(* Searching.                                                                *)

\* The functions that compare and search agree with each other: the order of
\* strcmp is antisymmetric and strncmp is strcmp for strings that end in time;
\* strpbrk finds where strcspn stops; strstr finds the first place where
\* strncmp finds the needle (strstr.c:26-33); strrchr finds no earlier place
\* than strchr, and only strchr finds the end of the string.
StringSearches ==
  Done("search") =>
    LET m == job.mem
        r == result
        len1 == strlen(m, job.s1)
        len2 == strlen(m, job.s2)
        At(a) == strncmp(m, a, job.s2, len2) = 0
    IN  /\ r.strcmp = -r.back
        /\ r.strcmp = 0 <=> len1 = len2 /\ \A k \in 0 .. len1 : m[job.s1 + k] = m[job.s2 + k]
        /\ job.n > Min({len1, len2}) => r.strncmp = r.strcmp
        /\ r.strncmp \in {0, r.strcmp}
        /\ r.strpbrk = IF r.strcspn = len1 THEN Null ELSE job.s1 + r.strcspn
        /\ r.strspn = 0 \/ r.strcspn = 0
        /\ r.strstr = Null => \A a \in job.s1 .. job.s1 + len1 : ~At(a)
        /\ r.strstr # Null => At(r.strstr) /\ \A a \in job.s1 .. r.strstr - 1 : ~At(a)
        /\ job.c # 0 => /\ (r.strchr = Null) = (r.strrchr = Null)
                        /\ r.strchr <= r.strrchr
                        /\ r.strrchr # Null =>
                             strchr(m, r.strrchr + 1, job.c) = Null
        /\ job.c = 0 => r.strchr = job.s1 + len1 /\ r.strrchr = Null

\* All three ways find the number that occurs once.  The one that sorts compares
\* the last element with what lies behind the array: if they are equal it gives
\* a number that is not in the array (part2c.c:95-98).
OddballSearches ==
  Done("oddball") =>
    LET arr == job.arr
        len == Cardinality(DOMAIN arr)
        odd == CHOOSE x \in Range(arr) :
                 \E i \in DOMAIN arr : arr[i] = x /\ \A j \in DOMAIN arr \ {i} : arr[j] # x
    IN  /\ result.baseline = odd /\ result.counting = odd
        /\ result.sorting = IF odd = len \div 2 + 1 /\ job.behind = odd
                            THEN odd + 1 ELSE odd
        /\ \A i \in 0 .. len - 2 : result.sorted[i] <= result.sorted[i + 1]
        /\ \A x \in Range(arr) :
             Cardinality({i \in DOMAIN arr : arr[i] = x})
               = Cardinality({i \in DOMAIN arr : result.sorted[i] = x})

\* Different ways to look for the same thing find the same.
SearchesAgree == StringSearches /\ OddballSearches

------------------------------------------------------------------------------
(* Formatted input and output.                                               *)

\* A number takes the width of its field, or what it needs if that is more,
\* with nothing but padding in the text besides what it needs.
WidthKept(j, text) ==
  LET natural == doprnt(NumberFormat([j EXCEPT !.zero = FALSE], 0), <<j.v>>, 0)
      width == IF j.conv = 112 THEN 0 ELSE j.width
      pad == Padding(width - Len(natural))
  IN  \E k \in 0 .. Min({3, Len(natural)}) :
        \E c \in {Zero, Blank} :
          \/ text = SubSeq(natural, 1, k) \o Repeat(c, pad) \o Drop(natural, k)
          \/ c = Blank /\ text = natural \o Repeat(c, pad)

\* What is read back of the text of a number is the number: by strtol, strtoul
\* and sscanf in its base, and in base 0 when the text has a prefix that tells
\* the base; by atoi if it begins with a digit.  A plus sign, that printf has
\* printed, stops all of them (strtol.c:35, doscan.c:83), and so does the second
\* prefix that a pointer gets with the flag for one (doprnt.c:513, 570).
ReadBack(j, r) ==
  LET u == j.v % ULONG_RANGE
      decimal == j.conv \in {100, 117}
      base == CASE decimal -> 10 [] j.conv = 111 -> 8 [] OTHER -> 16
      signed == j.conv \in {100, 122}
      plus == signed /\ j.v >= 0 /\ Plus \in j.flags
      tells == (Hash \in j.flags /\ ~decimal /\ j.v # 0) \/ j.conv = 112
      twice == j.conv = 112 /\ Hash \in j.flags /\ u # 0
      end == Len(r.text) + 1
  IN  CASE plus ->
             /\ r.strtol[10].v = 0 /\ r.strtol[16].v = 0
             /\ r.scan[100].stored = <<0>> /\ r.scan[100].vals = 1
        [] signed /\ ~plus ->
             /\ r.strtol[base].v = j.v
             /\ tells => r.strtol[0] = r.strtol[16]
             /\ decimal => /\ r.scan[100].stored = <<j.v>>
                           /\ r.second.stored = IF Head(r.text) = Blank THEN <<0>>
                                                ELSE IF Last(r.text) = Blank THEN << >>
                                                ELSE <<j.v>>
                           /\ isdigit(Head(r.text)) => r.atoi = j.v
             /\ ~decimal /\ ~tells => r.scan[120].stored = <<j.v>>
             /\ Last(r.text) # Blank => r.strtol[base].end = end
        [] OTHER ->
             /\ r.strtoul[base].v = IF twice THEN 0 ELSE u
             /\ tells => r.strtoul[0] = r.strtoul[base]
             /\ Last(r.text) # Blank /\ ~twice => r.strtoul[base].end = end

\* Numbers fill their fields and can be read back.
NumbersReadBack ==
  Done("number") => WidthKept(job, result.text) /\ ReadBack(job, result)

\* A string fills its field and no more, with the text up to the precision: to
\* the left of the padding it is one short when the precision has cut the text
\* (doprnt.c:470-479).  sscanf reads the first word of it back, and only white
\* space ends it: the end of the string does not (doscan.c:148-153).
StringsFillField ==
  Done("string") =>
    LET cut == job.prec # -1 /\ job.prec < Len(job.text)
        kept == IF cut THEN SubSeq(job.text, 1, job.prec) ELSE job.text
        width == IF job.width < 0 THEN (-job.width) - (IF cut THEN 1 ELSE 0) ELSE job.width
        pad == Repeat(Blank, Padding(width - Len(kept)))
        rest == Drop(result.text, Span(result.text, {Blank}))
        word == SubSeq(rest, 1, Span(rest, {97}))
        memory == rest \o <<0>> \o job.behind
    IN  /\ result.text = IF job.width < 0 THEN kept \o pad ELSE pad \o kept
        /\ result.scan.vals = 1
        /\ result.scan.stored[1] = IF Blank \in Range(rest) THEN word
                                   ELSE SubSeq(memory, 1, Span(memory, {97, 98, 0}))

\* A thread id fills its field, and its parts can be told from it.
ThreadsFillField ==
  Done("thread") =>
    LET natural == doprnt(Format(job.flags, FALSE, 0, IF job.long THEN <<108>> ELSE << >>, 116),
                          <<[lthread |-> job.lthread, task |-> job.task,
                             high |-> job.lthread * 1024 + job.task * 131072,
                             low |-> job.task]>>, 0)
        parts == SelectSeq(result, LAMBDA c : c \notin {Blank, 91, 93})
    IN  /\ Len(result) = Max({job.width, Len(natural)})
        /\ ~job.long =>
             LET m == [k \in DOMAIN parts |-> IF parts[k] = Dot THEN 0 ELSE parts[k]] \o <<0>>
             IN  /\ Digits(m, 1, 16, 4096).v = job.task
                 /\ Digits(m, strlen(m, 1) + 2, 16, 4096).v = job.lthread

\* The rows of a dump give the bytes back, all at the same width, each byte next
\* to the character that it is (hexdump.c:50-67); and the fields of a register
\* give their bits back.
DumpsReadBack ==
  Done("dump") =>
    LET digits == FlattenSeq([k \in DOMAIN result.rows |->
                    SelectSeq(result.rows[k].bytes, LAMBDA c : c # Blank)])
        chars == FlattenSeq([k \in DOMAIN result.rows |-> result.rows[k].chars])
        list == Drop(result.bits, Len(printnum(job.u, 8)))
    IN  /\ Len(digits) = 2 * Len(job.bytes)
        /\ \A k \in DOMAIN job.bytes :
             /\ DigitValue(digits[2 * k - 1]) * 16 + DigitValue(digits[2 * k]) = job.bytes[k]
             /\ chars[k] = IF isgraph(job.bytes[k]) THEN job.bytes[k] ELSE Dot
        /\ \A k \in DOMAIN result.rows :
             /\ Len(result.rows[k].bytes) = 36 /\ Len(result.rows[k].chars) = 16
             /\ strtoul(InMemory(result.rows[k].address), 1, 16).v = 16 * (k - 1)
        /\ list = << >> <=> job.u = 0
        /\ job.u # 0 =>
             /\ 65 \in Range(list) <=> job.u % 2 = 1
             /\ 66 \in Range(list) <=> (job.u \div 2) % 2 = 1
             /\ list[3] = Zero + ((job.u \div 4) % 4)

\* Strings, thread ids and dumps keep to their columns and can be read back.
FieldsKept == StringsFillField /\ ThreadsFillField /\ DumpsReadBack

\* printf puts all the characters of its text on the console, in order, but for
\* zero bytes, which write does not show, however they fall on the buffer, and
\* stays in the buffer (printf.c:56-71).  Of a text that ends in a conversion of
\* radix 0 it shows the lines that are complete and at most the text.
ConsoleShowsText ==
  Done("text") =>
    LET visible == SelectSeq(job.text, LAMBDA c : c # 0)
        shown == Shown(result.calls)
    IN  /\ ~job.raised => shown = visible
        /\ job.raised =>
             LET text == SubSeq(shown, 1, Len(shown) - 16)
             IN  /\ IsPrefix(text, visible)
                 /\ NL \notin Range(Drop(visible, Len(text)))
        /\ \A k \in 1 .. Len(result.calls) - (IF job.raised THEN 2 ELSE 0) :
             Len(result.calls[k]) <= Max({PRINTF_BUFMAX, 4})

\* snprintf stores as much of the text as the size says and ends it there, one
\* byte past the buffer if the text fills it (sprintf.c:44-51, 74).
SavedWithinOne ==
  Done("text") /\ ~job.raised =>
    LET n == Min({job.size, Len(job.text)})
        mem == result.saved.mem
    IN  /\ result.saved.len = n
        /\ \A k \in 1 .. n : mem[k + 1] = job.text[k]
        /\ mem[n + 2] = 0
        /\ \A a \in DOMAIN mem : a \notin 2 .. n + 2 => mem[a] = 1

\* The lines of many calls of printf and putchar come out whole and in order: what
\* twister shows of its words has their letters and their case, what it shows of
\* its numbers is read back as the numbers, and it complains of no right one
\* (twister.c:41-58).  Its line of the division has no end of its own.
LinesInOrder ==
  Done("twister") =>
    LET text == Shown(result)
        ends == {k \in DOMAIN text : text[k] = NL}
        Nth(n) == CHOOSE k \in ends : Cardinality({e \in ends : e <= k}) = n
        From(n) == IF n = 1 THEN 1 ELSE Nth(n - 1) + 1
        Shows(n) == SubSeq(text, From(n), Nth(n) - 1)
        failed == job.num # job.expected
        word == job.hello
    IN  /\ Cardinality(ends) = IF failed THEN 9 ELSE 8
        /\ Shows(1) = word /\ Shows(6) = word
        /\ Shows(2) = word \o <<Blank>> \o job.goodbye \o <<Blank>>
                        \o word \o <<Blank>> \o job.goodbye
        /\ strtoul(Shows(3) \o <<0>>, 1, 16).v = job.at
        /\ IsPrefix(word, Shows(5)) /\ IsSuffix(Decimal(Len(word)), Shows(5))
        /\ Len(Shows(7)) = Len(word) + 2
        /\ \A k \in DOMAIN word : Shows(7)[k + 1] = IF word[k] = 72 THEN 85 ELSE 76
        /\ IF failed THEN Shows(9) = Decimal(job.num) ELSE IsSuffix(Decimal(job.num), Shows(8))

\* What printf and snprintf deliver is the text, and where.
OutputIsComplete == ConsoleShowsText /\ SavedWithinOne /\ LinesInOrder

------------------------------------------------------------------------------
(* The kernel's utilities.                                                   *)

\* valid_addr accepts a buffer exactly if its start and all its bytes lie in the
\* segment, also when the end of the buffer wraps (memcheck.c:29-33), and both
\* versions of ilog2 are the same function.
UtilitiesRight ==
  Done("buffer") =>
    LET segment == job.base .. job.bound - 1
    IN  /\ result.valid <=> {job.start} \cup (job.start .. job.start + job.count - 1)
                              \subseteq segment
        /\ \A x \in Addresses : result.log[x] = ilog2_debug(x)
==============================================================================
