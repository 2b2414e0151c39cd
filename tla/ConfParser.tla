----------------------------- MODULE ConfParser -----------------------------
(***************************************************************************)
(* The configuration files of both servers: CBaseConfParser of             *)
(* common/base_conf_parser.cpp with the tables of its two subclasses.      *)
(* A text is a sequence of tokens: a space ("SP"), a separator, a line     *)
(* end, or a word; "NUL" is the byte 0 that ends a C string.               *)
(*                                                                         *)
(* load_conf_file() allocates one byte more than the file has and never    *)
(* sets it: tail is what that byte happens to be.                          *)
(***************************************************************************)
EXTENDS Integers, Sequences, SequencesExt, FiniteSetsExt

CONSTANTS
  Tokens,    \* what lines are written of: words, separators and spaces
  Lines,     \* the lines a file may be written of, each a sequence of tokens
  MaxLines,  \* bound: lines of a file
  Atoi,      \* atoi() of the words that are numbers
  Kilo,      \* 1024
  IntLimit   \* 2^31: an int is in -IntLimit .. IntLimit - 1

ASSUME ConfAssumption == Kilo \in Nat /\ IntLimit \in Nat \ {0} /\ MaxLines \in Nat

ASSUME LinesAssumption == Lines \subseteq Seq(Tokens) /\ {"\n", "\r", "NUL"} \cap Tokens = {}

VARIABLES
  server,     \* which server reads the file: "storage" or "proxy"
  written,    \* the lines of the file
  buf,        \* m_pconf_buf
  pos,        \* p
  conf,       \* the configuration object
  confState   \* "load", "parsing", "parsed", "refused" or "dead"

confVars == <<server, written, buf, pos, conf, confState>>

-----------------------------------------------------------------------------
(* The values. *)
AtoiOf(value) == IF value # <<>> /\ Head(value) \in DOMAIN Atoi THEN Atoi[Head(value)] ELSE 0

WrapInt(n) == ((n + IntLimit) % (2 * IntLimit)) - IntLimit

get_bit_size(value) ==
  LET n == AtoiOf(value)
      unit == IF value # <<>> /\ Head(value) \in DOMAIN Atoi THEN Tail(value) ELSE value
  IN CASE unit = <<>>     -> n
       [] unit = <<"KB">> -> WrapInt(n * Kilo)
       [] unit = <<"MB">> -> WrapInt(n * Kilo * Kilo)
       [] unit = <<"GB">> -> WrapInt(n * Kilo * Kilo * Kilo)
       [] OTHER           -> 0

LogLevels == <<"error", "warnning", "notice", "info", "debug">>
get_log_level(value) ==
  IF \E i \in DOMAIN LogLevels : value = <<LogLevels[i]>>
  THEN (CHOOSE i \in DOMAIN LogLevels : value = <<LogLevels[i]>>) - 1 ELSE -1

\* format_string(): the text without the spaces around it, NULL (<<>>) if there is nothing else.
format_string(s) ==
  LET words == {i \in DOMAIN s : s[i] # "SP"} IN
  IF words = {} THEN <<>> ELSE SubSeq(s, Min(words), Max(words))

\* The first of the tokens in a text from a position on, or the position after the text.
Find(s, from, tokens) ==
  LET at == {i \in from .. Len(s) : s[i] \in tokens} IN
  IF at = {} THEN Len(s) + 1 ELSE Min(at)

\* get_addr_value(): host : port , master_flag.  A port of spaces alone is NULL.
get_addr_value(value) ==
  LET colon == Find(value, 1, {":"})
      comma == Find(value, colon + 1, {","})
      port  == SubSeq(value, colon + 1, comma - 1)
  IN [host |-> format_string(SubSeq(value, 1, colon - 1)), port |-> AtoiOf(format_string(port)),
      master |-> format_string(SubSeq(value, comma + 1, Len(value))) = <<"master">>,
      null |-> port # <<>> /\ format_string(port) = <<>>]

-----------------------------------------------------------------------------
(* The keys a server knows and what their values are converted to. *)
BaseKeys ==
  [bind_host |-> "text", bind_port |-> "int", work_thread_count |-> "int", timeout |-> "int",
   sys_log_path |-> "text", log_level |-> "level", thread_stack_size |-> "size"]
StorageKeys ==
  [zonde_id |-> "int", weight |-> "int", device_root |-> "text", proxy_server_addr |-> "addr"]
ProxyKeys ==
  [master_flag |-> "bool", vnode_count |-> "int", replica_count |-> "int", namespace_power |-> "int"]

\* What the base class has and what the subclass adds.
Joined(base, sub) ==
  [k \in DOMAIN base \cup DOMAIN sub |-> IF k \in DOMAIN base THEN base[k] ELSE sub[k]]

KeysOf(s) == Joined(BaseKeys, IF s = "storage" THEN StorageKeys ELSE ProxyKeys)

\* init_conf(): the defaults of base and subclass.
BaseDefaults ==
  [bind_host |-> <<>>, bind_port |-> 6000, work_thread_count |-> 100, timeout |-> 5,
   sys_log_path |-> <<>>, log_level |-> 4, thread_stack_size |-> WrapInt(Kilo * Kilo)]
StorageDefaults == [zonde_id |-> 0, weight |-> 1, device_root |-> <<>>, proxy_server_addr |-> <<>>]
ProxyDefaults ==
  [master_flag |-> FALSE, vnode_count |-> 1000, replica_count |-> 3, namespace_power |-> 32]
init_conf(s) == Joined(BaseDefaults, IF s = "storage" THEN StorageDefaults ELSE ProxyDefaults)

\* A plausible slip: every proxy is appended.
AddProxyLast(list, addr) == Append(list, [host |-> addr.host, port |-> addr.port])

\* The list of proxies: a master is put before, a slave after those already there.
AddProxy(list, addr) ==
  LET entry == [host |-> addr.host, port |-> addr.port] IN
  IF addr.master THEN <<entry>> \o list ELSE Append(list, entry)

Converted(kind, value) ==
  CASE kind = "int"   -> AtoiOf(value)
    [] kind = "text"  -> value
    [] kind = "level" -> get_log_level(value)
    [] kind = "size"  -> get_bit_size(value)
    [] kind = "bool"  -> value = <<"true">>

set_value(c, s, key, value) ==
  [c EXCEPT ![key] = IF KeysOf(s)[key] = "addr" THEN AddProxy(@, get_addr_value(value))
                     ELSE Converted(KeysOf(s)[key], value)]

-----------------------------------------------------------------------------
\* What a text consists of.
TextBytes == Tokens \cup {"\n", "\r", "NUL", "?"}

(* parse_line().  pstart is the line's first token, q the first that is no space. *)
Skip(b, q) == Find(b, q, TextBytes \ {"SP"})

\* A carriage return is stepped over whatever follows it.
AfterReturn(b, q) == IF b[q] = "\r" THEN q + 1 ELSE q

LineEnds == {"\n", "NUL"}

\* The end of a comment or of a blank line: [pos, last], or NULL ([pos |-> 0]) for any other line.
BlankLine(b, p) ==
  LET q == AfterReturn(b, Skip(b, p))
      end == IF b[p] = "#" THEN Find(b, p, LineEnds) ELSE q
  IN IF b[end] \in LineEnds THEN [pos |-> end, last |-> b[end] = "NUL"] ELSE [pos |-> 0, last |-> FALSE]

\* key = value.  The key is ended by the spaces cut off behind it, not by the '=': without
\* one the string compared with the known keys goes on to the end of the value.
SettingLine(b, p) ==
  LET e == Find(b, AfterReturn(b, Skip(b, p)), {"="} \cup LineEnds)
      end == Find(b, IF b[e] = "=" THEN e + 1 ELSE e, {"\r"} \cup LineEnds)
      key == format_string(SubSeq(b, p, e - 1))
      value == format_string(SubSeq(b, e + 1, end - 1))
  IN [ok |-> b[e] = "=" /\ e # p /\ key # <<>> /\ value # <<>>,
      key |-> IF e > p /\ b[e - 1] = "SP" /\ Len(key) = 1 THEN Head(key) ELSE "none",
      value |-> value, last |-> b[end] = "NUL", pos |-> IF b[end] = "\r" THEN end + 1 ELSE end]

\* The text of a file, with the byte after it.
Text(lines, eol, ended, tail) ==
  LET n == Len(lines)
      t == FlattenSeq([i \in 1 .. n |-> lines[i] \o (IF i < n \/ ended THEN eol ELSE <<>>)])
  IN t \o (IF tail = "NUL" THEN <<"NUL">> ELSE <<tail, "NUL">>)

ConfInit ==
  /\ server \in {"storage", "proxy"}
  /\ written = <<>> /\ buf = <<"NUL">> /\ pos = 1 /\ conf = <<>> /\ confState = "load"

\* load_conf_file() and init_conf(): an empty file is refused.
ConfLoad ==
  /\ confState = "load"
  /\ \E lines \in BoundedSeq(Lines, MaxLines), eol \in {<<"\n">>, <<"\r", "\n">>},
        ended \in BOOLEAN, tail \in {"NUL", "?"} :
       /\ written' = lines
       /\ buf' = Text(lines, eol, ended, tail)
       /\ confState' = IF Text(lines, eol, ended, "NUL") = <<"NUL">> THEN "refused" ELSE "parsing"
  /\ conf' = init_conf(server) /\ pos' = 1
  /\ UNCHANGED server

\* p++ to the next line; the end of the text is the last line's or the loop's.
Advance(at, last) ==
  /\ pos' = at + 1
  /\ confState' = IF last \/ buf[at + 1] = "NUL" THEN "parsed" ELSE "parsing"

ConfBlank ==
  /\ confState = "parsing"
  /\ LET line == BlankLine(buf, pos) IN line.pos # 0 /\ Advance(line.pos, line.last)
  /\ UNCHANGED <<server, written, buf, conf>>

ConfSetting ==
  LET line == SettingLine(buf, pos) IN
  /\ confState = "parsing" /\ BlankLine(buf, pos).pos = 0
  /\ line.ok /\ line.key \in DOMAIN KeysOf(server)
  /\ ~ (KeysOf(server)[line.key] = "addr" /\ get_addr_value(line.value).null)
  /\ conf' = set_value(conf, server, line.key, line.value)
  /\ Advance(line.pos, line.last)
  /\ UNCHANGED <<server, written, buf>>

\* A line with no '=', no key, no value or a key nobody knows ends the start of the server.
ConfRefused ==
  LET line == SettingLine(buf, pos) IN
  /\ confState = "parsing" /\ BlankLine(buf, pos).pos = 0
  /\ ~ line.ok \/ line.key \notin DOMAIN KeysOf(server)
  /\ confState' = "refused"
  /\ UNCHANGED <<server, written, buf, pos, conf>>

\* atoi(NULL).
ConfDies ==
  LET line == SettingLine(buf, pos) IN
  /\ confState = "parsing" /\ BlankLine(buf, pos).pos = 0
  /\ line.ok /\ line.key \in DOMAIN KeysOf(server)
  /\ KeysOf(server)[line.key] = "addr" /\ get_addr_value(line.value).null
  /\ confState' = "dead"
  /\ UNCHANGED <<server, written, buf, pos, conf>>

ConfNext == ConfLoad \/ ConfBlank \/ ConfSetting \/ ConfRefused \/ ConfDies

ConfSpec == ConfInit /\ [][ConfNext]_confVars

-----------------------------------------------------------------------------
ConfTypeOK ==
  /\ server \in {"storage", "proxy"}
  /\ written \in BoundedSeq(Lines, MaxLines)
  /\ buf \in Seq(TextBytes) /\ Len(buf) # 0 /\ Last(buf) = "NUL"
  /\ pos \in 1 .. Len(buf) + 1 /\ (confState = "parsing" => pos \in 1 .. Len(buf))
  /\ confState \in {"load", "parsing", "parsed", "refused", "dead"}
  /\ conf = <<>> \/ DOMAIN conf = DOMAIN KeysOf(server)

(* What a file means, line by line and without positions. *)
IsSetting(line) == (\E i \in DOMAIN line : line[i] # "SP") /\ line[1] # "#"
KeyOf(line) == line[Min({i \in DOMAIN line : line[i] # "SP"})]
ValueOf(line) ==
  format_string(SubSeq(line, Min({i \in DOMAIN line : line[i] = "="}) + 1, Len(line)))

\* As conf/storage_server.conf writes it: a known key, a space, '=', a value.
Documented(line) ==
  \E k, e, v \in DOMAIN line :
    /\ line[k] \in DOMAIN KeysOf(server) /\ line[e] = "=" /\ line[v] # "SP"
    /\ k < e - 1 /\ e < v
    /\ \A i \in (1 .. e - 1) \ {k} : line[i] = "SP"
    /\ KeysOf(server)[line[k]] = "addr" => ~ get_addr_value(ValueOf(line)).null

\* The first lines of the file that set a field, by their numbers.
SettingsOf(field, n) == {i \in 1 .. n : IsSetting(written[i]) /\ KeyOf(written[i]) = field}

\* The proxies of some lines: masters first, the last one named before the others, then slaves.
ProxyOf(i) == get_addr_value(ValueOf(written[i]))
Before(i, j) ==
  IF ProxyOf(i).master THEN ProxyOf(j).master => j < i ELSE ~ ProxyOf(j).master /\ i < j
ProxiesOf(list, lines) ==
  \E order \in [DOMAIN list -> lines] :
    /\ \A i \in lines : \E k \in DOMAIN list : order[k] = i
    /\ \A k \in DOMAIN list :
         list[k] = [host |-> ProxyOf(order[k]).host, port |-> ProxyOf(order[k]).port]
    /\ \A k, l \in DOMAIN list : k < l => Before(order[k], order[l])

\* What the first lines say: the last one that sets a field counts, all that name a proxy do.
ConfSays(c, n) ==
  \A field \in DOMAIN c :
    LET own == SettingsOf(field, n) IN
    IF field = "proxy_server_addr" THEN ProxiesOf(c[field], own)
    ELSE c[field] = IF own = {} THEN init_conf(server)[field]
                    ELSE Converted(KeysOf(server)[field], ValueOf(written[Max(own)]))

(* When the byte after the text is 0, a file of documented lines, comments  *)
(* and blank lines is accepted, with either line end and with or without a  *)
(* last one, and every field is what the last line with its key says; the   *)
(* list of proxies starts with the last master named, where                 *)
(* storage_server.cpp looks for the master (base_conf_parser.cpp:78-243,    *)
(* storage_conf_parser.cpp:54-68).  A file with any other line is refused,  *)
(* and so is an empty one.                                                  *)
ConfAsWritten ==
  ~ Contains(buf, "?") =>
    /\ confState = "parsed" =>
         /\ \A i \in DOMAIN written : IsSetting(written[i]) => Documented(written[i])
         /\ ConfSays(conf, Len(written))
    /\ confState \in {"refused", "dead"} =>
         \/ Len(buf) = 1
         \/ \E i \in DOMAIN written : IsSetting(written[i]) /\ ~ Documented(written[i])
=============================================================================
