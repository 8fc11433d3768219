---------------------------- MODULE SystemModules ----------------------------
(***************************************************************************)
(* The agent modules that drive a system tool: user, group, hostname,      *)
(* timezone, modprobe, systemd, ufw, iptables and package (apt, pip),      *)
(* under crates/agent/src/modules/.  Each asks the tool how things are,    *)
(* and yields the commands that are missing.  What the tools themselves do *)
(* and print is modelled from how these modules use them.                  *)
(*                                                                         *)
(* A field an op leaves out is "" (or {} for a list).                      *)
(***************************************************************************)
EXTENDS FileModules

Given(field, current) == IF field = "" THEN current ELSE field

SystemdSteps(op) ==
    If(op.reload, <<"reload">>) \o If(op.masked # "", <<"mask">>)
      \o If(op.enabled # "", <<"enable">>) \o If(op.state # "", <<"state">>)
AptSteps(op) == If(op.update, <<"cache">>) \o <<"packages">> \o If(op.autoremove, <<"autoremove">>)
PipSteps(op) == If(op.venv, <<"venv">>) \o <<"packages">>

SystemSteps(op) ==
    CASE op.kind = "systemd" -> SystemdSteps(op)
      [] op.kind = "apt"     -> AptSteps(op)
      [] op.kind = "pip"     -> PipSteps(op)
      [] OTHER -> <<op.kind>>

SystemProbes == {"user", "group", "hostname", "timezone", "modprobe", "ufw", "iptables",
                 "reload", "enable", "state", "mask",
                 "cache", "packages", "autoremove", "venv"}

-----------------------------------------------------------------------------
(* user and group.  `groups` is /etc/group; id -nG also prints the primary *)
(* group, which the probe leaves out.                                      *)
NoUser == [there |-> FALSE, group |-> "", home |-> "", shell |-> "", groups |-> {}]

Supplementary(user) == user.groups \ {user.group}

Useradd(op) ==
    [there |-> TRUE, group |-> Given(op.group, "own"), home |-> Given(op.home, "/home"),
     shell |-> Given(op.shell, "sh"), groups |-> op.groups]

GroupsDiffer(op, user) ==
    /\ op.groups # {}
    /\ IF op.append THEN ~(op.groups \subseteq Supplementary(user))
       ELSE op.groups # Supplementary(user)

Usermod(op, user) ==
    [user EXCEPT !.group = Given(op.group, @), !.home = Given(op.home, @), !.shell = Given(op.shell, @),
                 !.groups = CASE ~GroupsDiffer(op, user) -> @
                              [] GroupsDiffer(op, user) /\ op.append -> @ \cup op.groups
                              [] OTHER -> op.groups]

\* compute_usermod_args has something to pass.
UserDiffers(op, user) ==
    \/ Given(op.shell, user.shell) # user.shell
    \/ Given(op.home, user.home) # user.home
    \/ Given(op.group, user.group) # user.group
    \/ GroupsDiffer(op, user)

UserTodo(op, h) ==
    CASE op.state = "present" /\ ~h["user"].there -> <<Set("user", Useradd(op), TRUE)>>
      [] op.state = "present" /\ h["user"].there ->
            If(UserDiffers(op, h["user"]), <<Set("user", Usermod(op, h["user"]), TRUE)>>)
      [] op.state = "absent" -> If(h["user"].there, <<Set("user", NoUser, TRUE)>>)

GroupTodo(op, h) == If(h["group"] # (op.state = "present"), <<Set("group", op.state = "present", TRUE)>>)

-----------------------------------------------------------------------------
(* hostname and timezone: one command where systemd is, several without.   *)
CurrentHostname(h) == Given(h["/etc/hostname"], h["hostname"])

HostnameTodo(op, h) ==
    CASE CurrentHostname(h) = op.name -> <<>>
      [] CurrentHostname(h) # op.name /\ h["systemd"] -> <<Sets({"/etc/hostname", "hostname"}, op.name, TRUE)>>
      [] OTHER -> <<Set("/etc/hostname", op.name, TRUE), Set("hostname", op.name, TRUE)>>

CurrentTimezone(h) == Given(h["/etc/localtime"], h["/etc/timezone"])

\* A zone that does not exist is found out by the run, not by the check.
TimezoneTodo(r, h) ==
    LET name == r.op.name
    IN  CASE CurrentTimezone(h) = name -> <<>>
          [] CurrentTimezone(h) # name /\ ~r.check /\ ~r.op.known -> <<Refuse>>
          [] CurrentTimezone(h) # name /\ (r.check \/ r.op.known) /\ h["systemd"] ->
                <<Sets({"/etc/localtime", "/etc/timezone"}, name, TRUE)>>
          [] OTHER -> If(h["/etc/localtime"] # "", <<Set("/etc/localtime", "", TRUE)>>)
                      \o <<Set("/etc/localtime", name, TRUE), Set("/etc/timezone", name, TRUE)>>

-----------------------------------------------------------------------------
\* modprobe: a built-in module counts as loaded, and cannot be removed.
Loaded(h) == h["module"] \in {"loaded", "builtin"}

ModprobeTodo(r, h) ==
    CASE Loaded(h) = (r.op.state = "present") -> <<>>
      [] ~Loaded(h) /\ r.op.state = "present" -> <<Set("module", IF h["module"] = "builtin" THEN "builtin" ELSE "loaded", TRUE)>>
      [] Loaded(h) /\ r.op.state = "absent" ->
            IF h["module"] = "builtin" /\ ~r.check THEN <<Refuse>> ELSE <<Set("module", "none", TRUE)>>

-----------------------------------------------------------------------------
(* systemd: unit is [masked, enabled, active]; systemctl refuses to enable *)
(* or start what is masked.  --no-block leaves the unit on its way, up or   *)
(* down, and is-active says "active" of neither.                            *)
IsEnabled(unit) == IF unit.masked THEN "masked" ELSE unit.enabled

MaskTodo(op, h) ==
    If((IsEnabled(h["unit"]) = "masked") # (op.masked = "yes"),
       <<Set("unit", [h["unit"] EXCEPT !.masked = op.masked = "yes"], TRUE)>>)

EnableTodo(r, h) ==
    LET is == IsEnabled(h["unit"])
    IN  CASE r.op.enabled = "yes" /\ is \notin {"enabled", "static"} ->
                IF is = "masked" /\ ~r.check THEN <<Refuse>>
                ELSE <<Set("unit", [h["unit"] EXCEPT !.enabled = "enabled"], TRUE)>>
          [] r.op.enabled = "no" /\ is = "enabled" ->
                <<Set("unit", [h["unit"] EXCEPT !.enabled = "disabled"], TRUE)>>
          [] OTHER -> <<>>

StartUnit(r, h) ==
    IF h["unit"].masked /\ ~r.check THEN <<Refuse>>
    ELSE <<Set("unit", [h["unit"] EXCEPT !.active = IF r.op.no_block THEN "activating" ELSE "active"], TRUE)>>

StopUnit(r, h) == <<Set("unit", [h["unit"] EXCEPT !.active = IF r.op.no_block THEN "deactivating" ELSE "inactive"], TRUE)>>

StateTodo(r, h) ==
    LET active == h["unit"].active = "active"
    IN  CASE r.op.state = "started" -> If(~active, StartUnit(r, h))
          [] r.op.state = "stopped" -> If(active, StopUnit(r, h))
          [] r.op.state = "restarted" -> StartUnit(r, h)
          [] r.op.state = "reloaded" -> IF active THEN <<Set("unit", h["unit"], TRUE)>> ELSE StartUnit(r, h)

\* A job that was queued without blocking is done some time later.
Turning(h) == "unit" \in DOMAIN h /\ h["unit"].active \in {"activating", "deactivating"}
Settle ==
    /\ Turning(host)
    /\ host' = [host EXCEPT !["unit"].active = IF @ = "activating" THEN "active" ELSE "inactive"]
    /\ UNCHANGED <<scene, tmps, run, log, faults>>

-----------------------------------------------------------------------------
(* ufw: status lists rules, defaults and logging only while it is active;  *)
(* op.like are the rules whose line the loose match takes for op.rule.     *)
UfwListed(fw, op) ==
    CASE op.verb = "rule"    -> fw.active /\ fw.rules \cap op.like # {}
      [] op.verb = "default" -> fw.active /\ fw.policy = op.rule
      [] op.verb = "logging" -> fw.active /\ fw.logging = op.rule

UfwSet(op, fw) ==
    CASE op.verb = "rule" /\ ~op.delete -> [fw EXCEPT !.rules = @ \cup {op.rule}]
      [] op.verb = "rule" /\ op.delete  -> [fw EXCEPT !.rules = @ \ {op.rule}]
      [] op.verb = "enable"  -> [fw EXCEPT !.active = TRUE]
      [] op.verb = "disable" -> [fw EXCEPT !.active = FALSE]
      [] op.verb = "reset"   -> [fw EXCEPT !.active = FALSE, !.rules = {}]
      [] op.verb = "default" -> [fw EXCEPT !.policy = op.rule]
      [] op.verb = "logging" -> [fw EXCEPT !.logging = op.rule]
      [] op.verb = "reload"  -> fw

UfwSkips(op, fw) ==
    CASE op.verb = "rule" -> UfwListed(fw, op) = ~op.delete
      [] op.verb \in {"default", "logging"} -> UfwListed(fw, op)
      [] op.verb = "enable" -> fw.active
      [] op.verb = "disable" -> ~fw.active
      [] op.verb \in {"reset", "reload"} -> FALSE

UfwTodo(op, h) == If(~UfwSkips(op, h["fw"]), <<Set("fw", UfwSet(op, h["fw"]), TRUE)>>)

\* iptables: -C looks for the rule, -D takes one of its copies.
IptablesTodo(op, h) ==
    LET chain  == h["chain"]
        exists == Contains(chain, op.rule)
    IN  CASE exists = (op.state = "present") -> <<>>
          [] ~exists /\ op.state = "present" ->
                <<Set("chain", IF op.insert THEN <<op.rule>> \o chain ELSE Append(chain, op.rule), TRUE)>>
          [] exists /\ op.state = "absent" ->
                <<Set("chain", RemoveFirst(chain, op.rule), TRUE)>>

-----------------------------------------------------------------------------
(* apt: dpkg maps a name to its version, "" when it is not installed;      *)
(* op.provides maps a name to the virtual names it provides.               *)
Installed(pkgs, names) == {n \in names : pkgs[n] # ""}
Provided(op, pkgs) == UNION {op.provides[n] : n \in Installed(pkgs, DOMAIN pkgs)}

\* The newest version apt knows of, from what its cache says.
Candidate(h) == IF h["cache"] = "fresh" THEN "2" ELSE "1"

Versioned(pkgs, names, version) == [n \in DOMAIN pkgs |-> IF n \in names THEN version ELSE pkgs[n]]

\* Installing a virtual name installs what provides it.
Bought(op, names) ==
    {n \in DOMAIN op.provides : n \in names \/ op.provides[n] \cap names # {}}
      \ UNION {op.provides[n] : n \in DOMAIN op.provides}

AptMissing(op, pkgs) == (op.names \ Installed(pkgs, op.names)) \ Provided(op, pkgs)

AptTodo(r, h) ==
    LET op   == r.op
        pkgs == h["pkgs"]
        new  == Candidate(h)
        post == Versioned(pkgs, Bought(op, op.names), new)
    IN  CASE op.state = "present" ->
                If(AptMissing(op, pkgs) # {}, <<Set("pkgs", Versioned(pkgs, Bought(op, AptMissing(op, pkgs)), new), TRUE)>>)
          [] op.state = "absent" ->
                If(Installed(pkgs, op.names) # {}, <<Set("pkgs", Versioned(pkgs, Installed(pkgs, op.names), ""), TRUE)>>)
          [] op.state = "latest" ->
                <<Set("pkgs", post, IF r.check THEN Installed(pkgs, op.names) # op.names
                                    ELSE \E n \in op.names : pkgs[n] # post[n])>>

CacheTodo(op, h) == If(h["cache"] # "fresh" \/ ~op.valid, <<Set("cache", "fresh", FALSE)>>)

AutoremoveTodo(r, h) == If(~r.check, <<Set("orphans", FALSE, h["orphans"])>>)

-----------------------------------------------------------------------------
(* pip: op.pins maps each name to the version it pins, "" without one.  An *)
(* install without a pin keeps the version that is there.                  *)
PipUnmet(op, pkgs) == {n \in op.names : pkgs[n] = "" \/ Given(op.pins[n], pkgs[n]) # pkgs[n]}

PipInstall(op, pkgs, names) ==
    [n \in DOMAIN pkgs |-> CASE n \notin names -> pkgs[n]
                             [] n \in names /\ op.state = "present" /\ op.pins[n] # "" -> op.pins[n]
                             [] n \in names /\ op.state # "present" /\ pkgs[n] # "" -> pkgs[n]
                             [] OTHER -> "2"]

VenvTodo(h) == If(~h["venv"], <<Set("venv", TRUE, TRUE)>>)

PipTodo(r, h) ==
    LET op    == r.op
        pkgs  == h["pkgs"]
        unmet == PipUnmet(op, pkgs)
        post  == PipInstall(op, pkgs, op.names)
    IN  CASE op.venv /\ ~h["venv"] -> <<>>     \* announced by the check that goes no further
          [] (op.venv => h["venv"]) /\ op.state = "present" ->
                If(unmet # {}, <<Set("pkgs", PipInstall(op, pkgs, unmet), TRUE)>>)
          [] (op.venv => h["venv"]) /\ op.state = "absent" ->
                If(Installed(pkgs, op.names) # {}, <<Set("pkgs", Versioned(pkgs, op.names, ""), TRUE)>>)
          [] OTHER -> If(op.names # {}, <<Set("pkgs", post, r.check \/ post # pkgs)>>)

-----------------------------------------------------------------------------
PackagesTodo(r, h) == IF r.op.kind = "apt" THEN AptTodo(r, h) ELSE PipTodo(r, h)

SystemTodo(r, step, h) ==
    CASE step = "user"     -> UserTodo(r.op, h)
      [] step = "group"    -> GroupTodo(r.op, h)
      [] step = "hostname" -> HostnameTodo(r.op, h)
      [] step = "timezone" -> TimezoneTodo(r, h)
      [] step = "modprobe" -> ModprobeTodo(r, h)
      [] step = "ufw"      -> UfwTodo(r.op, h)
      [] step = "iptables" -> IptablesTodo(r.op, h)
      [] step = "reload"   -> <<Set("units", "fresh", FALSE)>>
      [] step = "mask"     -> MaskTodo(r.op, h)
      [] step = "enable"   -> EnableTodo(r, h)
      [] step = "state"    -> StateTodo(r, h)
      [] step = "cache"    -> CacheTodo(r.op, h)
      [] step = "packages" -> PackagesTodo(r, h)
      [] step = "autoremove" -> AutoremoveTodo(r, h)
      [] step = "venv"     -> VenvTodo(h)
=============================================================================
