------------------------------ MODULE SystemOps ------------------------------
(***************************************************************************)
(* The tasks about files, processes, packages, users and the rest of the   *)
(* system, from their mapping to the op on the wire.  Per task: the form   *)
(* it is read by, what else it must satisfy (Fits), the fields render_op   *)
(* renders (Rendered), and its to_wire_op arm (Wire).  The keys a body     *)
(* refuses by name are unknown keys like any other.                        *)
(***************************************************************************)
EXTENDS TaskArgs

-----------------------------------------------------------------------------
(* Files *)

PresentAbsent == [present |-> 0, absent |-> 1]

WriteFileOp ==
  [path |-> Needed, mode |-> Mode(Must), content |-> Needed, validate |-> Opt, owner |-> Opt, group |-> Opt]
WriteFileRendered == {"path", "mode", "content", "validate", "owner", "group"}
WriteFileWire(p) ==
  op_write_file(p.path, p.mode, Bit(FALSE), p.content, OrEmpty(p.validate), OrEmpty(p.owner), OrEmpty(p.group))

DefaultMode == Mode(Num(6))
TemplateOp ==
  [src |-> Needed, dest |-> Needed, mode |-> DefaultMode, owner |-> Opt, group |-> Opt, validate |-> Opt]
TemplateRendered == {"src", "dest", "mode", "owner", "group", "validate"}
\* The file is rendered on the controller and written as it comes out.
TemplateWire(p) ==
  Checked(IsFile(p.src),
          op_write_file(p.dest, p.mode, Bit(FALSE), Rendered(FileText(p.src)), OrEmpty(p.validate),
                        OrEmpty(p.owner), OrEmpty(p.group)))

CopyOp ==
  [src |-> Opt, content |-> Opt, dest |-> Needed, mode |-> DefaultMode, owner |-> Opt, group |-> Opt,
   validate |-> Opt, remote_src |-> Flag(FALSE)]
CopyFits(p) ==
  /\ (p.src = None) # (p.content = None)
  /\ p.remote_src = Bit(TRUE) => p.content = None
CopyRendered == {"src", "content", "dest", "mode", "owner", "group", "validate"}
\* The file goes out as it is, the content rendered, or the agent copies a file of its own.
CopyWire(p) ==
  LET Written(body) ==
        op_write_file(p.dest, p.mode, Bit(FALSE), body, OrEmpty(p.validate), OrEmpty(p.owner), OrEmpty(p.group))
  IN IF p.remote_src = Bit(TRUE)
     THEN op_copy_target(p.src, p.dest, p.mode, OrEmpty(p.owner), OrEmpty(p.group), OrEmpty(p.validate))
     ELSE IF p.src = None THEN Written(p.content)
     ELSE Checked(IsFile(p.src), Written(FileText(p.src)))

FileState == [directory |-> 0, absent |-> 1, touch |-> 2, file |-> 3, link |-> 4]
FileOp ==
  [path |-> Keyed(<<"path", "dest", "name">>, Needed), state |-> Words(FileState, Must), mode |-> Mode(None),
   owner |-> Opt, group |-> Opt, recurse |-> Flag(FALSE), src |-> Opt]
FileRendered == {"path", "mode", "owner", "group", "src"}
FileWire(p) ==
  Checked(IF p.state = Num(FileState.link) THEN p.src \notin {None, Empty} ELSE p.src = None,
          op_file(p.path, p.state, p.mode, OrEmpty(p.owner), OrEmpty(p.group), p.recurse, OrEmpty(p.src)))

StatOp == [path |-> Needed, follow |-> Flag(TRUE)]
StatRendered == {"path"}
StatWire(p) == op_stat(p.path, p.follow)

SlurpOp == [src |-> Filled, max_bytes |-> Small("u32", Num(0))]
SlurpRendered == {"src"}
SlurpWire(p) == op_read_file(p.src, p.max_bytes)

LineInFileOp ==
  [path |-> Needed, line |-> Scalar(Empty), regexp |-> Text, insertbefore |-> Text, insertafter |-> Text,
   state |-> Words(PresentAbsent, Num(0)), mode |-> Mode(None), create |-> Flag(FALSE),
   backrefs |-> Flag(FALSE), validate |-> Opt]
LineInFileFits(p) ==
  /\ Empty \in {p.insertbefore, p.insertafter}
  /\ p.backrefs = Bit(TRUE) => p.regexp # Empty
  /\ p.state = Num(PresentAbsent.present) /\ p.line = Empty => p.backrefs = Bit(TRUE)
LineInFileRendered == {"path", "line", "mode", "validate"}
LineInFileWire(p) ==
  op_lineinfile(p.path, p.regexp, p.line, p.state, p.mode, p.create, p.insertbefore, p.insertafter,
                p.backrefs, OrEmpty(p.validate))

Mark == 26      \* the token {mark}
TextOr(c) == Par("text", <<"str", <<c>>>>)
BlockInFileOp ==
  [path |-> Needed, block |-> Text, marker |-> TextOr(Mark), marker_begin |-> TextOr(24),
   marker_end |-> TextOr(25), insertbefore |-> Text, insertafter |-> Text,
   state |-> Words(PresentAbsent, Num(0)), mode |-> Mode(None), create |-> Flag(FALSE), validate |-> Opt]
BlockInFileFits(p) ==
  /\ Empty \in {p.insertbefore, p.insertafter}
  /\ Mark \in ToSet(p.marker[2])
BlockInFileRendered == {"path", "block", "mode", "validate"}
BlockInFileWire(p) ==
  op_blockinfile(p.path, p.block, p.marker, p.marker_begin, p.marker_end, p.state, p.mode, p.create,
                 p.insertbefore, p.insertafter, OrEmpty(p.validate))

ArchiveFormat == [auto |-> 0, targz |-> 1, tarbz2 |-> 2, tarxz |-> 3, tar |-> 4, zip |-> 5]
UnarchiveOp ==
  [src |-> Filled, dest |-> Filled, remote_src |-> Flag(FALSE), copy |-> Flag(FALSE),
   format |-> Words(ArchiveFormat, Num(0)), creates |-> Text, owner |-> Text, group |-> Text,
   mode |-> Mode(None), keep_newer |-> Flag(FALSE), list_files |-> Flag(FALSE), include |-> Listed,
   exclude |-> Listed]
UnarchiveFits(p) == p.remote_src = Bit(TRUE) /\ p.copy = Bit(FALSE)
UnarchiveRendered == {"src", "dest", "creates", "mode", "owner", "group", "include", "exclude"}
UnarchiveWire(p) ==
  op_unarchive(p.src, p.dest, p.format, p.creates, Has(p.mode), OrZero(p.mode), p.owner, p.group,
               p.keep_newer, p.list_files, p.include, p.exclude)

-----------------------------------------------------------------------------
(* The system *)

Nothing == List(<<>>)

\* A plain text is the command itself (Simple); a mapping also has a timeout.
ShellOp == [command |-> Needed, timeout_ms |-> Small("u32", Num(0))]
ShellRendered == {"command"}
ShellWire(p) == op_shell(p.command, Nothing, Nothing, p.timeout_ms)

ExecOp ==
  [argv |-> [Listed EXCEPT !.default = Must], env |-> Par("scalarmap", NoPairs), cwd |-> Opt, stdin |-> Text,
   timeout_ms |-> Small("u32", Num(0))]
ExecRendered == {"argv", "env", "cwd", "stdin"}
ExecWire(p) ==
  Checked(p.argv # Nothing,
          op_exec(p.argv, MapKeys(p.env), MapValues(p.env), OrEmpty(p.cwd), p.stdin, p.timeout_ms))

CommandOp ==
  [cmd |-> Opt, argv |-> Par("list", None), chdir |-> Text, creates |-> Text, removes |-> Text,
   stdin |-> Text, timeout |-> Par("millis", Num(0)), warn |-> Ignored, strip_empty_ends |-> Ignored]
CommandFits(p) == (p.cmd = None) # (p.argv = None) /\ p.cmd # Empty /\ p.argv # Nothing
CommandRendered == {"cmd", "argv", "chdir", "creates", "removes", "stdin"}
\* The command is split once rendered, one argument here; `creates` and `removes`
\* were asked about before and are gone when the command is sent.
CommandWire(p) ==
  LET argv == IF p.cmd = None THEN p.argv ELSE IF p.cmd = Empty THEN Nothing ELSE List(<<p.cmd>>)
  IN Checked(argv # Nothing, op_exec(argv, Nothing, Nothing, p.chdir, p.stdin, p.timeout))

WaitForState == [present |-> 0, started |-> 0, absent |-> 1, stopped |-> 1]
WaitForOp ==
  [host |-> Opt, port |-> Port, path |-> Opt, state |-> Words(WaitForState, Num(0)), timeout |-> Seconds(300),
   delay |-> Seconds(0), sleep |-> Seconds(1), msg |-> Ignored]
WaitForFits(p) == None \in {p.port, p.path} /\ p.port # Num(0)
WaitForRendered == {"host", "port", "path"}
\* A mutant: the two pauses in the other order.
WaitForWireSwapped(p) ==
  op_wait_for(OrEmpty(p.host), OrZero(p.port), OrEmpty(p.path), p.state, p.timeout, p.sleep, p.delay)
WaitForWire(p) ==
  op_wait_for(OrEmpty(p.host), OrZero(p.port), OrEmpty(p.path), p.state, p.timeout, p.delay, p.sleep)

SystemdState == [started |-> 1, stopped |-> 2, restarted |-> 3, reloaded |-> 4]
SystemdOp ==
  [name |-> Text, state |-> Words(SystemdState, Num(0)), enabled |-> OptFlag, masked |-> OptFlag,
   daemon_reload |-> Flag(FALSE), no_block |-> Flag(FALSE), scope |-> Words([system |-> 0], Num(0))]
SystemdFits(p) ==
  LET unit == p.state # Num(0) \/ p.enabled # None \/ p.masked # None
  IN (unit \/ p.daemon_reload = Bit(TRUE)) /\ (unit => p.name # Empty)
SystemdRendered == {"name"}
SystemdWire(p) == op_systemd(p.name, p.state, p.enabled, p.masked, p.daemon_reload, p.no_block)

PackageState == [present |-> 0, installed |-> 0, absent |-> 1, removed |-> 1, latest |-> 2]
PackageManager == [package |-> 0, auto |-> 0, apt |-> 1, pip |-> 7]
\* What a manager does not know is refused; `manager:` may only repeat the one that is set.
PackageOp(manager) ==
  [manager |-> Words([m \in {m \in DOMAIN PackageManager : PackageManager[m] = PackageManager[manager]} |->
                        PackageManager[m]], Num(PackageManager[manager])),
   names |-> Keyed(<<"name", "pkg">>, Texts(Nothing)), state |-> Words(PackageState, Num(0)),
   update_cache |-> Flag(FALSE), autoremove |-> Flag(FALSE)]
  @@ (IF manager = "apt"
      THEN [cache_valid_time |-> Par("cut", Num(0)), purge |-> Flag(FALSE), default_release |-> Text,
            allow_unauthenticated |-> Flag(FALSE), force_apt_get |-> Ignored, install_recommends |-> Ignored]
      ELSE IF manager = "pip" THEN [virtualenv |-> Text, virtualenv_command |-> Text]
      ELSE <<>>)
PackageFields(p) ==
  p @@ [cache_valid_time |-> Num(0), purge |-> Bit(FALSE), default_release |-> Empty,
        allow_unauthenticated |-> Bit(FALSE), virtualenv |-> Empty, virtualenv_command |-> Empty]
PackageFits(p) ==
  LET q == PackageFields(p) IN
  /\ p.names = Nothing => Bit(TRUE) \in {p.update_cache, p.autoremove}
  /\ Empty \notin ToSet(p.names[2])
  /\ q.cache_valid_time # Num(0) => p.update_cache = Bit(TRUE)
  /\ q.virtualenv_command # Empty => q.virtualenv # Empty
PackageRendered == {"names", "default_release", "virtualenv", "virtualenv_command"}
PackageWire(p) ==
  LET q == PackageFields(p) IN
  op_package(p.manager, p.names, p.state, p.update_cache, q.cache_valid_time, q.purge, p.autoremove,
             q.default_release, q.allow_unauthenticated, q.virtualenv, q.virtualenv_command)

RepositoryManager == [repository |-> [auto |-> 0, apt |-> 1], apt_repository |-> [apt |-> 1]]
RepositoryOp(key) ==
  [manager |-> Words(RepositoryManager[key], Num(IF key = "repository" THEN 0 ELSE 1)),
   repo |-> Filled, state |-> Words(PresentAbsent, Num(0)), filename |-> Text, mode |-> Mode(None),
   update_cache |-> Flag(TRUE), codename |-> Ignored, validate_certs |-> Ignored, install_python_apt |-> Ignored]
RepositoryRendered == {"repo", "filename", "mode"}
RepositoryWire(p) == op_repository(p.manager, p.repo, p.state, p.filename, OrZero(p.mode), p.update_cache)

GroupOp == [name |-> Filled, state |-> Words(PresentAbsent, Num(0)), system |-> Flag(FALSE)]
GroupRendered == {"name"}
GroupWire(p) == op_group(p.name, p.state, p.system)

UserOp ==
  [name |-> Filled, state |-> Words(PresentAbsent, Num(0)), system |-> Flag(FALSE), shell |-> Opt, home |-> Opt,
   create_home |-> Flag(TRUE), primary_group |-> Keyed(<<"group">>, Text), groups |-> Texts(Nothing),
   append |-> Flag(FALSE)]
UserRendered == {"name", "shell", "home", "primary_group", "groups"}
UserWire(p) ==
  op_user(p.name, p.state, p.system, p.shell, p.home, p.create_home, p.primary_group, p.groups, p.append)

AuthorizedKeyOp ==
  [user |-> Filled, key |-> Filled, state |-> Words(PresentAbsent, Num(0)), exclusive |-> Flag(FALSE)]
AuthorizedKeyRendered == {"user", "key"}
AuthorizedKeyWire(p) == op_authorized_key(p.user, p.key, p.state, p.exclusive)

GetentOp == [database |-> Filled, key |-> Filled, fail_key |-> Flag(TRUE), split |-> Text]
GetentRendered == {"database", "key", "split"}
GetentWire(p) == op_getent(p.database, p.key, p.fail_key, p.split)

HostnameOp == [name |-> Filled]
HostnameRendered == {"name"}
HostnameWire(p) == op_hostname(p.name)

TimezoneOp == [name |-> Filled]
TimezoneRendered == {"name"}
TimezoneWire(p) == op_timezone(p.name)

ModprobeOp == [name |-> Filled, state |-> Words(PresentAbsent, Num(0)), params |-> Text]
ModprobeFits(p) == p.state = Num(PresentAbsent.absent) => p.params = Empty
ModprobeRendered == {"name", "params"}
ModprobeWire(p) == op_modprobe(p.name, p.state, p.params)

AsyncStatusOp == [jid |-> Scalar(Must)]
AsyncStatusRendered == {"jid"}
AsyncStatusWire(p) == Checked(IsNumeral(p.jid), op_async_status(Numeral(p.jid)))
=============================================================================
