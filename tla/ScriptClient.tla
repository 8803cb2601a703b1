----------------------------- MODULE ScriptClient -----------------------------
(***************************************************************************)
(* ScriptClient (src/src/script_client.cpp): the connection to the        *)
(* controller's script port and the upload of the control script.          *)
(* sendScript() removes the script lines that need a newer controller than *)
(* the connected one: it repeatedly finds the first '$' in the text, reads *)
(* the major and minor version digits two and three characters after it,  *)
(* and either blanks the four-character marker (the line is kept) or      *)
(* erases from the '$' to the end of its line.                             *)
(*                                                                         *)
(* A script is a sequence of characters over a small alphabet; positions   *)
(* in the code are 0-based, TLA+ sequence indices 1-based (n = idx - 1).   *)
(* std::size_t arithmetic is done modulo 2^SizeBits.                       *)
(***************************************************************************)
EXTENDS Naturals, Sequences, SequencesExt

CONSTANTS
    Major, Minor,   \* major_control_version_, minor_control_version_
    Digits,         \* digit characters, with DigitValue giving their value
    DigitValue,
    Texts,          \* the scripts sendScript may load (file or UR_SCRIPT)
    SizeBits,       \* width of std::size_t
    NoValue,        \* model value: no call has returned yet
    Thrown          \* model value: the call ended with an exception

ASSUME /\ DigitValue \in [Digits -> 0..9]
       /\ SizeBits \in Nat
       /\ \A t \in Texts : Len(t) < 2 ^ SizeBits

NPOS == 2 ^ SizeBits - 1     \* std::string::npos

VARIABLES
    conn_state,     \* conn_state_: "DISCONNECTED" or "CONNECTED"
    socket,         \* socket_: "none", "open" (not connected) or "connected"
    script_file,    \* script_file_name_ is set (TRUE) or empty (FALSE)
    orig,           \* the script sendScript loaded
    text,           \* ur_script while sendScript edits it
    pc,             \* "idle", "filter" (in the while loop) or "write"
    result          \* what the last call returned

vars == <<conn_state, socket, script_file, orig, text, pc, result>>

Chars == UNION {Range(t) : t \in Texts}

TypeOK ==
    /\ conn_state \in {"DISCONNECTED", "CONNECTED"}
    /\ socket \in {"none", "open", "connected"}
    /\ script_file \in BOOLEAN
    /\ orig \in Seq(Chars) /\ text \in Seq(Chars)
    /\ pc \in {"idle", "filter", "write"}
    /\ result \in BOOLEAN \cup {NoValue, Thrown}

-----------------------------------------------------------------------------
(* The version filter, one loop iteration at a time.                       *)

\* ur_script.find(c, from) as a 1-based index, or 0 for npos.
FindFrom(s, c, from) ==
    LET hits == {k \in from..Len(s) : s[k] = c}
    IN  IF hits = {} THEN 0 ELSE Min(hits)

\* Mutant: the minor version must be strictly newer.
VersionAtLeastStrict(maj, min) ==
    \/ Major > maj
    \/ Major = maj /\ Minor > min

\* (major_control_version_, minor_control_version_) >= (maj, min)
VersionAtLeast(maj, min) ==
    \/ Major > maj
    \/ Major = maj /\ Minor >= min

\* ur_script.erase(pos, count) for a 0-based pos: removes at most count
\* characters, never past the end.
Erase(s, pos, count) ==
    SubSeq(s, 1, pos) \o SubSeq(s, pos + 1 + count, Len(s))

\* The erase length of the "Erase the line" branch:
\* ur_script.find("\n", n) - n + 1 in std::size_t.
LineEraseCount(s, n) ==
    LET nl == FindFrom(s, "\n", n + 1)
        found == IF nl = 0 THEN NPOS ELSE nl - 1
    IN  (found - n + 1) % (2 ^ SizeBits)

\* Mutant: insert(n, "    ") before erase(n, 4): the erase removes the
\* blanks just inserted and the text is unchanged.
BlankMarkerSwapped(s, n) ==
    LET ins == SubSeq(s, 1, n) \o <<" ", " ", " ", " ">> \o SubSeq(s, n + 1, Len(s))
    IN  SubSeq(ins, 1, n) \o SubSeq(ins, n + 5, Len(ins))

\* Mutant: the marker is replaced by a tab.
BlankMarkerTab(s, n) ==
    SubSeq(s, 1, n) \o <<"\t">> \o SubSeq(s, n + 5, Len(s))

\* The marker at 0-based n is kept: erase(n, 4) then insert(n, "    ").
BlankMarker(s, n) ==
    SubSeq(s, 1, n) \o <<" ", " ", " ", " ">> \o SubSeq(s, n + 5, Len(s))

-----------------------------------------------------------------------------

Init ==
    /\ conn_state = "DISCONNECTED"
    /\ socket = "none"
    /\ script_file = FALSE
    /\ orig = <<>>
    /\ text = <<>>
    /\ pc = "idle"
    /\ result = NoValue

\* connect(): socket_ is replaced by a new socket before boost::asio::connect;
\* conn_state_ becomes CONNECTED only if that does not throw.
Connect ==
    /\ pc = "idle"
    /\ \/ /\ socket' = "connected"
          /\ conn_state' = "CONNECTED"
          /\ result' = NoValue
       \/ /\ socket' = "open"
          /\ result' = Thrown
          /\ UNCHANGED conn_state
    /\ UNCHANGED <<script_file, orig, text, pc>>

\* disconnect(): socket_.reset().
Disconnect ==
    /\ pc = "idle"
    /\ socket' = "none"
    /\ conn_state' = "DISCONNECTED"
    /\ result' = NoValue
    /\ UNCHANGED <<script_file, orig, text, pc>>

\* Write a non-empty string if isConnected(), else return false;
\* boost::asio::write throws on a socket that is not connected.
WriteIfConnected(nonEmpty) ==
    result' = CASE ~(conn_state = "CONNECTED" /\ nonEmpty) -> FALSE
                [] socket = "connected"                    -> TRUE
                [] OTHER                                   -> Thrown

\* sendScriptCommand(cmd_str)
SendScriptCommand ==
    /\ pc = "idle"
    /\ \E nonEmpty \in BOOLEAN : WriteIfConnected(nonEmpty)
    /\ UNCHANGED <<conn_state, socket, script_file, orig, text, pc>>

\* setScriptFile(file_name)
SetScriptFile ==
    /\ pc = "idle"
    /\ \E named \in BOOLEAN : script_file' = named
    /\ UNCHANGED <<conn_state, socket, orig, text, pc, result>>

\* sendScript(): load the custom script file if one is set and readable,
\* else (or if it is empty) the compiled-in UR_SCRIPT; then filter.
SendScript ==
    /\ pc = "idle"
    /\ \E s \in Texts : orig' = s /\ text' = s
    /\ pc' = "filter"
    /\ result' = NoValue
    /\ UNCHANGED <<conn_state, socket, script_file>>

\* sendScript() returns; its local string is gone.
Return ==
    /\ pc' = "idle"
    /\ orig' = <<>>
    /\ text' = <<>>

\* One iteration of the while loop, or its exit.
FilterStep ==
    /\ pc = "filter"
    /\ LET idx == FindFrom(text, "$", 1)
           n == idx - 1
       IN  IF idx = 0
             THEN /\ pc' = "write"
                  /\ UNCHANGED <<orig, text, result>>
           \* ur_script.at(n + 3) throws std::out_of_range
           ELSE IF idx + 3 > Len(text)
             THEN /\ result' = Thrown
                  /\ Return
           ELSE LET maj == text[idx + 2]
                    min == text[idx + 3]
                IN  IF maj = " " \/ min = " "
                      THEN /\ result' = FALSE
                           /\ Return
                    \* std::stoi throws std::invalid_argument
                    ELSE IF maj \notin Digits \/ min \notin Digits
                      THEN /\ result' = Thrown
                           /\ Return
                    ELSE /\ text' = IF VersionAtLeast(DigitValue[maj], DigitValue[min])
                                      THEN BlankMarker(text, n)
                                      ELSE Erase(text, n, LineEraseCount(text, n))
                         /\ UNCHANGED <<orig, pc, result>>
    /\ UNCHANGED <<conn_state, socket, script_file>>

\* sendScript(): write the filtered script if connected and non-empty.
WriteScript ==
    /\ pc = "write"
    /\ WriteIfConnected(text # <<>>)
    /\ Return
    /\ UNCHANGED <<conn_state, socket, script_file>>

\* sendScript(file_name): write the file as it is, without filtering;
\* false if it cannot be read.
SendScriptFile ==
    /\ pc = "idle"
    /\ \/ result' = FALSE
       \/ \E s \in Texts : WriteIfConnected(s # <<>>)
    /\ UNCHANGED <<conn_state, socket, script_file, orig, text, pc>>

Next ==
    \/ Connect
    \/ Disconnect
    \/ SendScriptCommand
    \/ SetScriptFile
    \/ SendScript
    \/ FilterStep
    \/ WriteScript
    \/ SendScriptFile

\* The caller's thread runs sendScript() to its end once it has begun.
Spec == Init /\ [][Next]_vars /\ WF_vars(FilterStep) /\ WF_vars(WriteScript)

-----------------------------------------------------------------------------
(* Reference: the line-oriented pre-processor of spec.md 4.7 and 9.        *)

\* The first line of s, with its newline, and the rest.
FirstLine(s) ==
    LET nl == FindFrom(s, "\n", 1)
    IN  IF nl = 0 THEN s ELSE SubSeq(s, 1, nl)

\* A marker line: '$', one character, the major and the minor digit.
IsMarkerLine(l) == Len(l) >= 4 /\ l[1] = "$"

\* The controller's version is at least major.minor, compared as a number.
RefVersionOk(major, minor) == Major * 10 + Minor >= major * 10 + minor

RECURSIVE RefFilter(_)
RefFilter(s) ==
    IF s = <<>> THEN <<>>
    ELSE LET l == FirstLine(s)
             rest == SubSeq(s, Len(l) + 1, Len(s))
             kept == IF ~IsMarkerLine(l) THEN l
                     ELSE IF RefVersionOk(DigitValue[l[3]], DigitValue[l[4]])
                       THEN <<" ", " ", " ", " ">> \o SubSeq(l, 5, Len(l))
                     ELSE <<>>
         IN  kept \o RefFilter(rest)

\* Scripts as spec.md 9 says they are written: every '$' starts a line and
\* is followed by a character and two version digits.
WellFormed(s) ==
    \A k \in 1..Len(s) :
        s[k] = "$" =>
            /\ k = 1 \/ s[k - 1] = "\n"
            /\ k + 3 <= Len(s)
            /\ s[k + 1] \notin {"$", "\n"}
            /\ s[k + 2] \in Digits /\ s[k + 3] \in Digits

-----------------------------------------------------------------------------
(* Properties.                                                             *)

\* sendScript's loop turns every well-formed script into what the
\* line-oriented pre-processor gives: version-matching lines kept with the
\* marker blanked, the other lines removed with their newline.  A
\* well-formed script is never refused.
FilterMatchesReference ==
    [][FilterStep /\ pc' # "filter" /\ WellFormed(orig)
         => pc' = "write" /\ text' = RefFilter(orig)]_vars

\* sendScript() returns: the version filter loop ends.
FilterTerminates == (pc = "filter") ~> (pc # "filter")

=============================================================================
