---------------------------- MODULE Conversions ----------------------------
(***************************************************************************)
(* The conversions NGSM depends on: command-line quoting, the registry's   *)
(* string, list and number encodings, exit-code keys, environment          *)
(* expansion, absolute paths, recognising the runner in an image path, the *)
(* access-control decision about the runner, and the tail of a log.  Each  *)
(* is a function of a text, compared with what the other side makes of the *)
(* result: the operator that reads it back, or a plain definition.         *)
(*                                                                         *)
(* A text is a sequence over the alphabet of its topic, one symbol for     *)
(* each character, word or entry that the code treats differently.         *)
(***************************************************************************)
EXTENDS Integers, FiniteSets, SequencesExt

CONSTANTS
    MaxText,     \* symbols of a text
    MaxAces,     \* entries of an access-control list
    Width,       \* 32: bits of an exit code
    MaxExpanded, \* 32767: units of an expanded string
    TailBytes, TailLines  \* 64 KiB and 400: bounds of a log's tail

ASSUME ConversionsAssumption ==
    {MaxText, MaxAces, Width, MaxExpanded, TailBytes, TailLines} \subseteq Nat \ {0}

VARIABLES topic, text

Refused == <<"refused">>

Aces == [type : {"allow", "deny", "compound"}, who : {"system", "users"},
         right : {"read", "write", "add", "delete child", "take over"}, inheritOnly : BOOLEAN]

Alphabet ==
    [argument |-> {"a", "sp", "qt", "bs"},
     words |-> {"a", "comma", "bs", "plus", "nul"},
     bytes |-> {"0", "1"},
     code |-> {"-", "+", "0", "1", "6"},
     expansion |-> {"a", "b", "z", "pc"},
     path |-> {"letter", "colon", "bs", "fs", "control"},
     image |-> {"sp", "qt", "root", "program files", "dir", "ngsm", "native", "run"},
     acl |-> Aces,
     log |-> {"a", "b", "nl"}]

ConversionsInit == topic \in DOMAIN Alphabet /\ text = <<>>

ConversionsNext ==
    /\ Len(text) < IF topic = "acl" THEN MaxAces ELSE MaxText
    /\ \E c \in Alphabet[topic] : text' = Append(text, c)
    /\ UNCHANGED topic

Repeat(c, n) == [i \in 1 .. n |-> c]

\* The pieces of s between the separators, and the lines of a text.
SplitAt(s, sep) ==
    LET Step(pieces, c) ==
            IF c = sep THEN Append(pieces, <<>>)
            ELSE [pieces EXCEPT ![Len(pieces)] = Append(@, c)]
    IN  FoldLeft(Step, <<<<>>>>, s)

LinesOf(s) == LET p == SplitAt(s, "nl") IN IF Last(p) = <<>> THEN Front(p) ELSE p

NonEmpty(pieces) == SelectSeq(pieces, LAMBDA p : p # <<>>)

-----------------------------------------------------------------------------
(* quote_windows_arg *)

\* q: what is written, and the backslashes that are still pending.
QuoteChar(q, c) ==
    CASE c = "bs" -> [q EXCEPT !.pending = @ + 1]
      [] c = "qt" -> [out |-> q.out \o Repeat("bs", 2 * q.pending + 1) \o <<c>>, pending |-> 0]
      [] OTHER -> [out |-> q.out \o Repeat("bs", q.pending) \o <<c>>, pending |-> 0]

\* Fault: backslashes before the closing quote left single.
CloseQuoteSingle(q) == q.out \o Repeat("bs", q.pending) \o <<"qt">>

CloseQuote(q) == q.out \o Repeat("bs", 2 * q.pending) \o <<"qt">>

QuoteWindowsArg(arg) ==
    IF arg # <<>> /\ ToSet(arg) \cap {"sp", "qt"} = {} THEN arg
    ELSE CloseQuote(FoldLeft(QuoteChar, [out |-> <<"qt">>, pending |-> 0], arg))

\* command_for_validated_runner: the arguments of the runner's command line.
RunnerArguments(a, b) == QuoteWindowsArg(a) \o <<"sp">> \o QuoteWindowsArg(b)

\* CommandLineToArgvW: a quote after 2n backslashes delimits, after 2n + 1 it is text.
ArgvChar(s, c) ==
    LET half == s.current \o Repeat("bs", s.pending \div 2)
        whole == s.current \o Repeat("bs", s.pending)
    IN  CASE c = "bs" -> [s EXCEPT !.pending = @ + 1, !.open = TRUE]
          [] c = "qt" /\ s.pending % 2 = 0 ->
                [s EXCEPT !.current = half, !.pending = 0, !.quoted = ~@, !.open = TRUE]
          [] c = "qt" /\ s.pending % 2 = 1 ->
                [s EXCEPT !.current = Append(half, c), !.pending = 0]
          [] c = "sp" /\ ~s.quoted ->
                [s EXCEPT !.args = IF s.open THEN Append(@, whole) ELSE @,
                          !.current = <<>>, !.pending = 0, !.open = FALSE]
          [] OTHER -> [s EXCEPT !.current = Append(whole, c), !.pending = 0, !.open = TRUE]

CommandLineToArgvW(line) ==
    FoldLeft(ArgvChar, [args |-> <<>>, current |-> <<>>, pending |-> 0,
                        quoted |-> FALSE, open |-> FALSE], Append(line, "sp")).args

\* The service recovers its name from the command line, whatever it contains.
QuotingExact ==
    topic = "argument" =>
        CommandLineToArgvW(RunnerArguments(text, Reverse(text))) = <<text, Reverse(text)>>

-----------------------------------------------------------------------------
(* Registry strings and lists; a word stands for a UTF-16 unit *)

\* write_string_typed and bytes_to_wide_string.
EncodeString(v) == IF Contains(v, "nul") THEN Refused ELSE Append(v, "nul")

BytesToWideString(w) ==
    LET nuls == {i \in DOMAIN w : w[i] = "nul"}
        end == SelectInSeq(w, LAMBDA c : c = "nul")
    IN  CASE nuls = {} -> w
          [] nuls # {} /\ nuls # end .. Len(w) -> Refused
          [] OTHER -> SubSeq(w, 1, end - 1)

\* write_multi_string and bytes_to_wide_multi.
EncodeMulti(entries) ==
    IF \E e \in ToSet(entries) : e = <<>> \/ Contains(e, "nul") THEN Refused
    ELSE FlattenSeq([i \in DOMAIN entries |-> Append(entries[i], "nul")]) \o <<"nul">>

BytesToWideMulti(w) ==
    LET pieces == SplitAt(w, "nul")
        end == SelectInSeq(pieces, LAMBDA p : p = <<>>)
    IN  CASE w = <<>> -> <<>>
          [] w # <<>> /\ (\/ Last(w) # "nul"
                          \/ end >= Len(pieces)
                          \/ \E p \in ToSet(SubSeq(pieces, end, Len(pieces))) : p # <<>>) ->
                Refused
          [] OTHER -> SubSeq(pieces, 1, end - 1)

\* join_multi_value and split_multi_value.
Escape(c) == IF c \in {"bs", "comma"} THEN <<"bs", c>> ELSE <<c>>
JoinMultiValue(entries) ==
    LET Written(e) == FlattenSeq([i \in DOMAIN e |-> Escape(e[i])])
        Step(s, e) == s \o <<"comma">> \o Written(e)
    IN  IF entries = <<>> THEN <<>> ELSE FoldLeft(Step, Written(entries[1]), Tail(entries))

SplitMultiValue(v) ==
    LET Step(s, i) ==
            CASE s.escaped -> [s EXCEPT !.entries[Len(s.entries)] = Append(@, v[i]), !.escaped = FALSE]
              [] ~s.escaped /\ v[i] = "bs" /\ i < Len(v) /\ v[i + 1] \in {"bs", "comma"} ->
                    [s EXCEPT !.escaped = TRUE]
              [] ~s.escaped /\ v[i] = "comma" -> [s EXCEPT !.entries = Append(@, <<>>)]
              [] OTHER -> [s EXCEPT !.entries[Len(s.entries)] = Append(@, v[i])]
    IN  NonEmpty(FoldLeftDomain(Step, [entries |-> <<<<>>>>, escaped |-> FALSE], v).entries)

\* encode_dependencies; services come first and a group is marked with a plus.
EncodeDependencies(services, groups) ==
    LET ServiceOK(s) == s # <<>> /\ s[1] # "plus" /\ ToSet(s) \cap {"bs", "nul"} = {}
        GroupOK(g) == g # <<>> /\ ToSet(g) \cap {"bs", "nul"} = {}
        Marked(g) == <<"plus">> \o g
    IN  CASE \/ \E s \in ToSet(services) : ~ServiceOK(s)
             \/ \E g \in ToSet(groups) : ~GroupOK(g) -> Refused
          [] services \o groups = <<>> -> <<"nul", "nul">>
          [] OTHER -> EncodeMulti(services \o [i \in DOMAIN groups |-> Marked(groups[i])])

\* collect_dependencies, from what QueryServiceConfigW returns: it stops at the first
\* two NULs in a row.
CollectDependencies(w) ==
    LET end == CHOOSE i \in 1 .. (Len(w) - 1) :
                   /\ w[i] = "nul" /\ w[i + 1] = "nul"
                   /\ \A j \in 1 .. (i - 1) : ~(w[j] = "nul" /\ w[j + 1] = "nul")
        entries == NonEmpty(SplitAt(SubSeq(w, 1, end), "nul"))
        groups == SelectSeq(entries, LAMBDA e : e[1] = "plus")
    IN  [services |-> SelectSeq(entries, LAMBDA e : e[1] # "plus"),
         groups |-> [i \in DOMAIN groups |-> Tail(groups[i])]]

\* What is written is read back, from any words what is read is all that they hold,
\* and a `get` that is fed to `set` changes nothing.
RegistryExact ==
    topic = "words" =>
        LET list == NonEmpty(SplitAt(text, "nul"))
            names == NonEmpty(SplitAt(text, "comma"))
            Padding(rest) == ToSet(rest) \subseteq {"nul"}
            s == BytesToWideString(text)
            m == BytesToWideMulti(text)
        IN  /\ ~Contains(text, "nul") => BytesToWideString(EncodeString(text)) = text
            /\ s # Refused => IsPrefix(s, text) /\ Padding(SubSeq(text, Len(s) + 1, Len(text)))
            /\ BytesToWideMulti(EncodeMulti(list)) = list
            /\ m # Refused /\ text # <<>> =>
                 LET w == EncodeMulti(m)
                 IN  IsPrefix(w, text) /\ Padding(SubSeq(text, Len(w) + 1, Len(text)))
            /\ SplitMultiValue(JoinMultiValue(list)) = list
            /\ \A k \in 0 .. Len(names) :
                 LET services == SubSeq(names, 1, k)
                     groups == SubSeq(names, k + 1, Len(names))
                     w == EncodeDependencies(services, groups)
                 IN  w # Refused => CollectDependencies(w) = [services |-> services, groups |-> groups]

-----------------------------------------------------------------------------
(* Numbers and exit codes *)

Digit(c) == CASE c = "0" -> 0 [] c = "1" -> 1 [] c = "6" -> 6

\* decode_u32: a DWORD has two of these binary bytes, a QWORD four.
LittleEndian(b) == FoldLeft(LAMBDA n, c : 2 * n + Digit(c), 0, Reverse(b))
DecodeU32(kind, b) ==
    CASE kind = "dword" /\ Len(b) = 2 -> <<"number", LittleEndian(b)>>
      [] kind = "qword" /\ Len(b) = 4 /\ LittleEndian(b) < 4 -> <<"number", LittleEndian(b)>>
      [] OTHER -> Refused

\* Rust's parse of a signed and of an unsigned number: a sign, then digits.
Signed == -(2 ^ (Width - 1)) .. (2 ^ (Width - 1) - 1)
Unsigned == 0 .. (2 ^ Width - 1)
Digits(s) == IF s # <<>> /\ s[1] \in {"-", "+"} THEN Tail(s) ELSE s
IsNumber(s) == Digits(s) # <<>> /\ ToSet(Digits(s)) \cap {"-", "+"} = {}
NumberOf(s) ==
    LET n == FoldLeft(LAMBDA k, c : 10 * k + Digit(c), 0, Digits(s))
    IN  IF s[1] = "-" THEN -n ELSE n

\* `as i32`.
AsSigned(n) == IF n \in Signed THEN n ELSE n - 2 ^ Width

\* normalize_exit_action_name, and validate_exit_action_key for keys newly entered.
NormalizeExitActionName(s) ==
    CASE s = <<>> -> <<"default">>
      [] IsNumber(s) /\ NumberOf(s) \in Signed -> <<"code", NumberOf(s)>>
      [] IsNumber(s) /\ s[1] # "-" /\ NumberOf(s) \in Unsigned \ Signed ->
            <<"code", AsSigned(NumberOf(s))>>
      [] OTHER -> Refused

Canonical(s) == s[1] # "+" /\ (Digits(s)[1] = "0" => s = <<"0">>)
ValidateExitActionKey(s) ==
    s # <<>> /\ IsNumber(s) /\ NumberOf(s) \in Signed /\ Canonical(s)

\* Every spelling of an exit code is found under the number the supervisor looks up,
\* and no other spelling is; a newly entered key is already that number.
NumbersExact ==
    /\ topic = "bytes" =>
         /\ DecodeU32("dword", text) # Refused <=> Len(text) = 2
         /\ DecodeU32("qword", text) # Refused => LittleEndian(text) = LittleEndian(SubSeq(text, 1, 2))
    /\ topic = "code" /\ text # <<>> =>
         /\ \A code \in Unsigned :
              NormalizeExitActionName(text) = <<"code", AsSigned(code)>> <=>
                  IsNumber(text) /\ NumberOf(text) \in {code, AsSigned(code)}
         /\ ValidateExitActionKey(text) =>
              NormalizeExitActionName(text) = <<"code", NumberOf(text)>>

-----------------------------------------------------------------------------
(* expand, and what the log view needs to know of it *)

\* Variables of the service's environment: the value of a holds percent signs itself.
Lookup(name) ==
    CASE name = <<"a">> -> <<"pc", "b", "pc">>
      [] name = <<"b">> -> <<"a">>
      [] name = <<"z">> -> <<"nul">>
      [] OTHER -> Refused

ExpandChar(s, c) ==
    CASE ~s.open /\ c = "pc" -> [s EXCEPT !.open = TRUE, !.name = <<>>]
      [] ~s.open /\ c # "pc" -> [s EXCEPT !.out = Append(@, c)]
      [] s.open /\ c # "pc" -> [s EXCEPT !.name = Append(@, c)]
      [] OTHER -> [open |-> FALSE, name |-> <<>>,
                   out |-> s.out \o (IF s.name # <<>> /\ Lookup(s.name) # Refused THEN Lookup(s.name)
                                     ELSE <<"pc">> \o s.name \o <<"pc">>)]

Expand(s) ==
    LET e == FoldLeft(ExpandChar, [out |-> <<>>, open |-> FALSE, name |-> <<>>], s)
        all == e.out \o IF e.open THEN <<"pc">> \o e.name ELSE <<>>
    IN  IF Contains(all, "nul") \/ Len(all) >= MaxExpanded THEN Refused ELSE all

\* log_needs_service_environment: two signs that pair up with something between.
LogNeedsServiceEnvironment(s) ==
    LET signs == SelectSeq([i \in DOMAIN s |-> i], LAMBDA i : s[i] = "pc")
    IN  \E k \in 1 .. (Len(signs) \div 2) : signs[2 * k] > signs[2 * k - 1] + 1

\* References are substituted once, in place, and nothing else changes; a log path
\* that the GUI opens as it stands is the one that the service opened.
ExpansionExact ==
    topic = "expansion" =>
        LET p == SplitAt(text, "pc")
            Piece(i) == CASE i % 2 = 1 -> p[i]
                          [] i % 2 = 0 /\ i < Len(p) /\ Lookup(p[i]) # Refused -> Lookup(p[i])
                          [] i % 2 = 0 /\ i < Len(p) /\ Lookup(p[i]) = Refused ->
                                <<"pc">> \o p[i] \o <<"pc">>
                          [] OTHER -> <<"pc">> \o p[i]
            all == FlattenSeq([i \in DOMAIN p |-> Piece(i)])
        IN  /\ Expand(text) \in {all, Refused}
            /\ Expand(text) = Refused <=> Contains(all, "nul") \/ Len(all) >= MaxExpanded
            /\ ~LogNeedsServiceEnvironment(text) /\ Len(text) < MaxExpanded => Expand(text) = text

-----------------------------------------------------------------------------
(* validate_absolute_path *)

ValidateAbsolutePath(v) ==
    LET Sep(i) == i <= Len(v) /\ v[i] \in {"bs", "fs"}
        Share(i) == Sep(i) /\ (\A j \in 3 .. (i - 1) : ~Sep(j)) /\ i < Len(v) /\ ~Sep(i + 1)
    IN  /\ ~Contains(v, "control")
        /\ IF Sep(1) /\ Sep(2) THEN \E i \in 4 .. Len(v) : Share(i)
           ELSE Len(v) >= 3 /\ v[1] = "letter" /\ v[2] = "colon" /\ Sep(3)

\* What Windows resolves an accepted path against: nothing of the process.
RootedPrefixes == {<<"letter", "colon", s>> : s \in {"bs", "fs"}}
                \cup {<<s, t>> : s, t \in {"bs", "fs"}}
PathsAbsolute ==
    topic = "path" /\ ValidateAbsolutePath(text) => \E p \in RootedPrefixes : IsPrefix(p, text)

-----------------------------------------------------------------------------
(* image_path_exe_name and is_managed; a token ends in a separator when it is a
   directory, and "program files" holds white space *)

Directories == {"root", "program files", "dir"}
HasWhite(s) == ToSet(s) \cap {"sp", "program files"} # {}

Trimmed(s) ==
    LET first == SelectInSeq(s, LAMBDA t : t # "sp")
    IN  IF first = 0 THEN <<>> ELSE SubSeq(s, first, Len(s))

\* What follows the last separator.
BaseName(s) ==
    LET cut == SelectLastInSeq(s, LAMBDA t : t \in Directories) IN SubSeq(s, cut + 1, Len(s))

\* The first place where white space, or the end, follows an .exe.
FirstExe(s) ==
    SelectInSeq([i \in DOMAIN s |-> i],
                LAMBDA i : s[i] \in {"ngsm", "native"} /\ (i = Len(s) \/ s[i + 1] = "sp"))

\* An unquoted prefix that white space makes ambiguous is only taken below Program Files.
LegacyPrefix(exe) ==
    ~HasWhite(exe) \/ (Len(exe) >= 2 /\ exe[1] = "root" /\ exe[2] = "program files"
                        /\ ~HasWhite(SubSeq(exe, 3, Len(exe))))
\* Nothing, or the runner's own arguments.
LegacyArguments(rest) == rest = <<>> \/ IsPrefix(<<"run", "sp">>, rest)

ImagePathExeName(path) ==
    LET s == Trimmed(path)
        closing == SelectInSubSeq(s, 2, Len(s), LAMBDA t : t = "qt")
        end == FirstExe(s)
        exe == SubSeq(s, 1, end)
    IN  CASE s # <<>> /\ s[1] = "qt" ->
                IF closing = 0 THEN Refused ELSE BaseName(SubSeq(s, 2, closing - 1))
          [] (s = <<>> \/ s[1] # "qt") /\ (\/ end = 0 \/ ~LegacyPrefix(exe)
                 \/ ~LegacyArguments(Trimmed(SubSeq(s, end + 1, Len(s))))) -> Refused
          [] OTHER -> BaseName(exe)

IsManagedImage(path) == ImagePathExeName(path) = <<"ngsm">>

\* The image path that install writes for a runner.
RunnerCommand(exe) ==
    (IF HasWhite(exe) THEN <<"qt">> \o exe \o <<"qt">> ELSE exe) \o <<"sp", "run", "sp", "dir">>

\* A service that install made is recognised, and one that is recognised starts the
\* runner: its quoted program, or the first .exe of the line.
ImageExact ==
    topic = "image" =>
        /\ ~Contains(text, "qt") /\ text # <<>> /\ Last(text) = "ngsm"
             /\ BaseName(text) = <<"ngsm">> => IsManagedImage(RunnerCommand(text))
        /\ IsManagedImage(text) =>
             LET s == Trimmed(text)
             IN  IF s[1] = "qt" THEN \E i \in 3 .. Len(s) :
                        s[i] = "qt" /\ s[i - 1] = "ngsm" /\ ~Contains(SubSeq(s, 2, i - 1), "qt")
                 ELSE s[FirstExe(s)] = "ngsm"

-----------------------------------------------------------------------------
(* validate_path_acl and evaluate_acl_decision *)

DangerousAccess(kind) ==
    CASE kind = "file" -> {"write", "take over"}
      [] kind = "directory" -> {"write", "add", "delete child", "take over"}
      [] kind = "volume root" -> {"delete child", "take over"}

\* allowed_grant_from_ace: entries that deny are skipped, compound ones refuse the list.
EvaluateAcl(owner, aces, kind) ==
    /\ owner = "system"
    /\ \A a \in ToSet(aces) :
         /\ a.type # "compound"
         /\ a.type = "allow" /\ ~a.inheritOnly /\ a.who # "system" =>
              a.right \notin DangerousAccess(kind)

\* The rights Windows grants: the first entry that applies decides, and an owner can
\* always change the list.
Granted(owner, aces, right) ==
    \/ owner = "users" /\ right = "take over"
    \/ \E i \in DOMAIN aces :
         /\ aces[i].who = "users" /\ aces[i].right = right /\ ~aces[i].inheritOnly
         /\ aces[i].type # "deny"
         /\ \A j \in 1 .. (i - 1) :
              ~(aces[j].type = "deny" /\ aces[j].right = right /\ ~aces[j].inheritOnly
                    /\ aces[j].who = "users")

\* A location that is accepted gives nobody but administrators a right to replace it.
AclSound ==
    topic = "acl" =>
        \A owner \in {"system", "users"}, kind \in {"file", "directory", "volume root"} :
            EvaluateAcl(owner, text, kind) =>
                \A right \in DangerousAccess(kind) : ~Granted(owner, text, right)

-----------------------------------------------------------------------------
(* tail_reader and read_tail *)

\* A file in UTF-8, or in UTF-16 after its mark: each character as one or two bytes.
FileOf(s, utf16) ==
    LET marked == <<"bom">> \o s
    IN  IF ~utf16 THEN [i \in DOMAIN s |-> <<s[i], 1>>]
        ELSE FlattenSeq([i \in DOMAIN marked |-> <<<<marked[i], 1>>, <<marked[i], 2>>>>])

\* read_tail of a snapshot's bytes: from an even offset if units are two bytes.
ReadTail(bytes, utf16) ==
    LET from == IF Len(bytes) > TailBytes THEN Len(bytes) - TailBytes ELSE 0
        start == IF utf16 /\ from % 2 = 1 THEN from + 1 ELSE from
    IN  [bytes |-> SubSeq(bytes, start + 1, Len(bytes)), partial |-> start > 0]

\* decode_tail: an odd last byte is left out, and a unit of two different characters
\* is garbage.
DecodeTail(bytes, utf16) ==
    IF ~utf16 THEN [i \in DOMAIN bytes |-> bytes[i][1]]
    ELSE [i \in 1 .. (Len(bytes) \div 2) |->
            IF bytes[2 * i - 1][2] = 1 THEN bytes[2 * i][1] ELSE "garbage"]

\* tail_reader: the first line of a tail that begins inside the file is dropped.
TailReader(bytes, utf16) ==
    LET tail == ReadTail(bytes, utf16)
        lines == LinesOf(DecodeTail(tail.bytes, utf16))
        whole == IF tail.partial /\ lines # <<>> THEN Tail(lines) ELSE lines
    IN  SubSeq(whole, IF Len(whole) > TailLines THEN Len(whole) - TailLines + 1 ELSE 1, Len(whole))

\* Every line that is shown is a whole line of the file, the last ones are shown in
\* order, and none is missing that the bounds have room for.
TailExact ==
    topic = "log" =>
        \A utf16 \in BOOLEAN : LET file == FileOf(text, utf16) IN
            \A n \in 2 .. Len(file) :
                LET snapshot == SubSeq(file, 1, n)
                    lines == LinesOf(DecodeTail(snapshot, utf16))
                    shown == TailReader(snapshot, utf16)
                    \* Bytes of the last k lines, and of half a character at the end.
                    Room(k) == LET rest == FlattenSeq(SubSeq(lines, Len(lines) - k + 1, Len(lines)))
                               IN  IF utf16 THEN 2 * (Len(rest) + k + (n % 2)) ELSE Len(rest) + k
                IN  /\ IsSuffix(shown, lines)
                    /\ \A k \in 0 .. Len(lines) :
                         k <= TailLines /\ Room(k) < TailBytes => Len(shown) >= k

-----------------------------------------------------------------------------

\* Each conversion says what the other side reads: command lines, registry bytes,
\* exit codes, %variables%, image paths and access lists come back from the reader
\* as the writer meant them (quote_windows_arg, write_string_typed, expand,
\* image_path_exe_name, evaluate_acl_decision), and a log tail shows its last lines
\* (decode_tail).
ConversionsExact ==
    /\ QuotingExact /\ RegistryExact /\ NumbersExact /\ ExpansionExact
    /\ PathsAbsolute /\ ImageExact /\ AclSound /\ TailExact
=============================================================================
