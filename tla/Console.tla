------------------------------ MODULE Console ------------------------------
(***************************************************************************)
(* open_framebuffer and close_framebuffer of touchscreen/fbconfig.c as     *)
(* ts_main and pop call them: a console is taken over step by step, any    *)
(* step may fail, main then closes what was never opened, and the handler  *)
(* of SIGINT, SIGTERM and SIGSEGV closes everything once more and exits,   *)
(* whatever it interrupts.                                                 *)
(***************************************************************************)
EXTENDS Integers

VARIABLES
  conpc,          \* the next step of open_framebuffer, close_framebuffer or main
  consoledevice,  \* "unset" (NULL), "none", "tty", or "long": 128 characters or more
  con_fd, fb_fd,  \* "zero" (never opened: stdin), "open", "bad" (-1), or "closed"
  last_vt,        \* "unset" (-1) or "first"
  fbuffer,        \* "null", "mapped" or "failed"
  smem_len,       \* fix.smem_len is known
  line_addr,      \* "null", "allocated" or "freed"
  handling,       \* the signals whose handler is running
  mode,           \* of the console: "text" or "graphics"
  shown_vt,       \* the terminal on the screen: the "first" or "ours"
  refused         \* history: what the terminal refused

convars == <<conpc, consoledevice, con_fd, fb_fd, last_vt, fbuffer, smem_len, line_addr,
             handling, mode, shown_vt, refused>>

Gone == {"exited", "aborted", "killed", "unmapped"}

ConInit ==
  /\ conpc = "getenv" /\ consoledevice = "unset"
  /\ con_fd = "zero" /\ fb_fd = "zero" /\ last_vt = "unset"
  /\ fbuffer = "null" /\ smem_len = FALSE /\ line_addr = "null"
  /\ handling = {} /\ mode = "text" /\ shown_vt = "first" /\ refused = {}

\* close_framebuffer, from its first step
Close == "munmap"

-----------------------------------------------------------------------------
(* open_framebuffer: on every failure main goes on with close_framebuffer  *)

Getenv ==
  /\ conpc = "getenv"
  /\ \/ consoledevice' = "none" /\ conpc' = "open_fb"
     \/ consoledevice' = "tty" /\ conpc' = "query"
     \/ consoledevice' = "long" /\ conpc' = Close
  /\ UNCHANGED <<con_fd, fb_fd, last_vt, fbuffer, smem_len, line_addr, handling, mode,
                 shown_vt, refused>>

\* VT_OPENQRY on the first terminal, which is closed again either way
OpenQuery ==
  /\ conpc = "query" /\ conpc' \in {"open_tty", Close}
  /\ UNCHANGED <<consoledevice, con_fd, fb_fd, last_vt, fbuffer, smem_len, line_addr,
                 handling, mode, shown_vt, refused>>

OpenTty ==
  /\ conpc = "open_tty"
  /\ \/ con_fd' = "open" /\ conpc' = "getstate"
     \/ con_fd' = "bad" /\ conpc' = Close
  /\ UNCHANGED <<consoledevice, fb_fd, last_vt, fbuffer, smem_len, line_addr, handling,
                 mode, shown_vt, refused>>

GetState ==
  /\ conpc = "getstate" /\ conpc' = "activate"
  /\ \/ last_vt' = "first" /\ refused' = refused
     \/ last_vt' = last_vt /\ refused' = refused \cup {"VT_GETSTATE"}
  /\ UNCHANGED <<consoledevice, con_fd, fb_fd, fbuffer, smem_len, line_addr, handling,
                 mode, shown_vt>>

\* the console is closed at once if the terminal refuses
Refuses(what) ==
  /\ con_fd' = "closed" /\ conpc' = Close /\ refused' = refused \cup {what}
  /\ UNCHANGED <<mode, shown_vt>>

Activate ==
  /\ conpc = "activate"
  /\ \/ shown_vt' = "ours" /\ conpc' = "waitactive" /\ UNCHANGED <<con_fd, mode, refused>>
     \/ Refuses("VT_ACTIVATE")
  /\ UNCHANGED <<consoledevice, fb_fd, last_vt, fbuffer, smem_len, line_addr, handling>>

WaitActive ==
  /\ conpc = "waitactive"
  /\ \/ conpc' = "graphics" /\ UNCHANGED <<con_fd, mode, shown_vt, refused>>
     \/ Refuses("VT_WAITACTIVE")
  /\ UNCHANGED <<consoledevice, fb_fd, last_vt, fbuffer, smem_len, line_addr, handling>>

Graphics ==
  /\ conpc = "graphics"
  /\ \/ mode' = "graphics" /\ conpc' = "open_fb" /\ UNCHANGED <<con_fd, shown_vt, refused>>
     \/ Refuses("KDSETMODE")
  /\ UNCHANGED <<consoledevice, fb_fd, last_vt, fbuffer, smem_len, line_addr, handling>>

\* Mutant: the failure closes the console, which main then cannot restore.
OpenFbTidies ==
  /\ conpc = "open_fb"
  /\ \/ fb_fd' = "open" /\ conpc' = "fix" /\ UNCHANGED con_fd
     \/ fb_fd' = "bad" /\ conpc' = Close /\ con_fd' = "closed"
  /\ UNCHANGED <<consoledevice, last_vt, fbuffer, smem_len, line_addr, handling,
                 mode, shown_vt, refused>>

OpenFb ==
  /\ conpc = "open_fb"
  /\ \/ fb_fd' = "open" /\ conpc' = "fix"
     \/ fb_fd' = "bad" /\ conpc' = Close
  /\ UNCHANGED <<consoledevice, con_fd, last_vt, fbuffer, smem_len, line_addr, handling,
                 mode, shown_vt, refused>>

FixInfo ==
  /\ conpc = "fix"
  /\ \/ smem_len' = TRUE /\ conpc' = "var" /\ UNCHANGED fb_fd
     \/ fb_fd' = "closed" /\ conpc' = Close /\ UNCHANGED smem_len
  /\ UNCHANGED <<consoledevice, con_fd, last_vt, fbuffer, line_addr, handling, mode,
                 shown_vt, refused>>

VarInfo ==
  /\ conpc = "var"
  /\ \/ conpc' = "mmap" /\ UNCHANGED fb_fd
     \/ fb_fd' = "closed" /\ conpc' = Close
  /\ UNCHANGED <<consoledevice, con_fd, last_vt, fbuffer, smem_len, line_addr, handling,
                 mode, shown_vt, refused>>

MapBuffer ==
  /\ conpc = "mmap"
  /\ \/ fbuffer' = "mapped" /\ conpc' = "table" /\ UNCHANGED fb_fd
     \/ fbuffer' = "failed" /\ fb_fd' = "closed" /\ conpc' = Close
  /\ UNCHANGED <<consoledevice, con_fd, last_vt, smem_len, line_addr, handling, mode,
                 shown_vt, refused>>

\* a fault: its handler starts, unless it is the handler that faults
Fault ==
  IF "SIGSEGV" \in handling THEN conpc' = "killed" /\ UNCHANGED handling
  ELSE conpc' = Close /\ handling' = handling \cup {"SIGSEGV"}

\* line_addr; malloc's answer is used without a look
Table ==
  /\ conpc = "table"
  /\ \/ line_addr' = "allocated" /\ conpc' = "running" /\ UNCHANGED handling
     \/ Fault /\ UNCHANGED line_addr
  /\ UNCHANGED <<consoledevice, con_fd, fb_fd, last_vt, fbuffer, smem_len, mode, shown_vt,
                 refused>>

\* the program quits, or faults
Leave ==
  /\ conpc = "running"
  /\ \/ conpc' = Close /\ UNCHANGED handling
     \/ Fault
  /\ UNCHANGED <<consoledevice, con_fd, fb_fd, last_vt, fbuffer, smem_len, line_addr, mode,
                 shown_vt, refused>>

-----------------------------------------------------------------------------
(* close_framebuffer *)

\* munmap(NULL, smem_len) takes away the first megabytes of the address
\* space, the program linked there among them
Munmap ==
  /\ conpc = "munmap"
  /\ conpc' = IF fbuffer = "null" /\ smem_len THEN "unmapped" ELSE "close_fb"
  /\ UNCHANGED <<consoledevice, con_fd, fb_fd, last_vt, fbuffer, smem_len, line_addr,
                 handling, mode, shown_vt, refused>>

\* a descriptor never opened is stdin
CloseFb ==
  /\ conpc = "close_fb" /\ conpc' = "text"
  /\ fb_fd' = IF fb_fd = "bad" THEN "bad" ELSE "closed"
  /\ UNCHANGED <<consoledevice, con_fd, last_vt, fbuffer, smem_len, line_addr, handling,
                 mode, shown_vt, refused>>

\* strcmp of a name never set faults; con_fd "zero" was just closed as fb_fd
TextMode ==
  /\ conpc = "text"
  /\ \/ consoledevice = "unset" /\ Fault /\ UNCHANGED <<mode, refused>>
     \/ consoledevice = "none" /\ conpc' = "free" /\ UNCHANGED <<handling, mode, refused>>
     \/ /\ consoledevice \in {"tty", "long"} /\ conpc' = "back" /\ UNCHANGED handling
        /\ \/ con_fd = "open" /\ mode' = "text" /\ refused' = refused
           \/ con_fd = "open" /\ mode' = mode /\ refused' = refused \cup {"KD_TEXT"}
           \/ con_fd # "open" /\ UNCHANGED <<mode, refused>>
  /\ UNCHANGED <<consoledevice, con_fd, fb_fd, last_vt, fbuffer, smem_len, line_addr,
                 shown_vt>>

BackToFirst ==
  /\ conpc = "back" /\ conpc' = "close_tty"
  /\ \/ con_fd = "open" /\ last_vt = "first" /\ shown_vt' = "first" /\ refused' = refused
     \/ /\ con_fd = "open" /\ last_vt = "first" /\ shown_vt' = shown_vt
        /\ refused' = refused \cup {"VT_ACTIVATE"}
     \/ (con_fd # "open" \/ last_vt = "unset") /\ UNCHANGED <<shown_vt, refused>>
  /\ UNCHANGED <<consoledevice, con_fd, fb_fd, last_vt, fbuffer, smem_len, line_addr,
                 handling, mode>>

CloseTty ==
  /\ conpc = "close_tty" /\ conpc' = "free"
  /\ con_fd' = IF con_fd = "bad" THEN "bad" ELSE "closed"
  /\ UNCHANGED <<consoledevice, fb_fd, last_vt, fbuffer, smem_len, line_addr, handling,
                 mode, shown_vt, refused>>

\* the second free of the same table is caught by the C library
FreeTable ==
  /\ conpc = "free"
  /\ \/ line_addr = "freed" /\ conpc' = "aborted" /\ UNCHANGED line_addr
     \/ line_addr = "allocated" /\ conpc' = "exit" /\ line_addr' = "freed"
     \/ line_addr = "null" /\ conpc' = "exit" /\ UNCHANGED line_addr
  /\ UNCHANGED <<consoledevice, con_fd, fb_fd, last_vt, fbuffer, smem_len, handling, mode,
                 shown_vt, refused>>

\* main or the handler exits
Exit ==
  /\ conpc = "exit" /\ conpc' = "exited"
  /\ UNCHANGED <<consoledevice, con_fd, fb_fd, last_vt, fbuffer, smem_len, line_addr,
                 handling, mode, shown_vt, refused>>

\* a signal is blocked only while its own handler runs, which never returns
Signal(s) ==
  /\ conpc \notin Gone /\ s \notin handling
  /\ conpc' = Close /\ handling' = handling \cup {s}
  /\ UNCHANGED <<consoledevice, con_fd, fb_fd, last_vt, fbuffer, smem_len, line_addr, mode,
                 shown_vt, refused>>

ConNext == \/ Getenv \/ OpenQuery \/ OpenTty \/ GetState \/ Activate \/ WaitActive
           \/ Graphics \/ OpenFb \/ FixInfo \/ VarInfo \/ MapBuffer \/ Table \/ Leave
           \/ Munmap \/ CloseFb \/ TextMode \/ BackToFirst \/ CloseTty \/ FreeTable \/ Exit
           \/ \E s \in {"SIGINT", "SIGTERM"} : Signal(s)

ConSpec == ConInit /\ [][ConNext]_convars

(***************************************************************************)
(* However open_framebuffer fails and whenever signals arrive, even within *)
(* close_framebuffer, the console ends in text mode, and on the terminal   *)
(* the program was started from unless the console refused something;      *)
(* unless close_framebuffer unmaps the program itself, which a signal or a *)
(* failure between FBIOGET_FSCREENINFO and mmap makes it do.               *)
(***************************************************************************)
ConsoleComesBack ==
  conpc \in Gone \ {"unmapped"} =>
    /\ "KD_TEXT" \notin refused => mode = "text"
    /\ refused = {} => shown_vt = "first"
=============================================================================
