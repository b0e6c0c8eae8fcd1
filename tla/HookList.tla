------------------------------ MODULE HookList ------------------------------
(***************************************************************************)
(* The hooks of HexChat's plugins: src/common/plugin.c.                    *)
(*                                                                         *)
(* Everything runs on one thread, but calls nest: a callback may hook,     *)
(* unhook, run a command (which runs hooks in its turn), load or unload a  *)
(* plugin.  `stack' holds the calls in progress, the innermost last; what  *)
(* happens next is the code of the plugin at its top, or the main loop.    *)
(*                                                                         *)
(* A hook is known by the number of its allocation, `blocks' remembers all *)
(* of them; the program knows it by its address, which is given out again  *)
(* once the block is freed.  A block is allocated as long as it is in      *)
(* `list', the hook_list of the code.                                      *)
(***************************************************************************)
EXTENDS Naturals, SequencesExt, Filter

CONSTANTS
    Plugins,     \* plugins as they are loaded: a file loaded twice would be two of them
    Addresses,   \* where malloc may put a hook
    Kinds,       \* what plugins hook: records of a type, a name and a priority
    Events,      \* what is run: records of a mask and a name
    RawLine,     \* the name that stands for every line of the server
    MaxHooks,    \* bound on hooks ever made
    MaxDepth     \* bound on calls inside calls

Types == {"COMMAND", "SERVER", "SERVER_ATTRS", "PRINT", "PRINT_ATTRS", "TIMER"}
Masks == {{"COMMAND"}, {"SERVER", "SERVER_ATTRS"}, {"PRINT", "PRINT_ATTRS"}, {"PRINT"}}

ASSUME HookAssumption ==
    /\ \A k \in Kinds : k.type \in Types /\ k.pri \in Nat
    /\ \A e \in Events : e.mask \in Masks
    /\ MaxHooks \in Nat /\ MaxDepth \in Nat

VARIABLES
    list,       \* hook_list
    blocks,     \* every hook made so far
    loaded,     \* plugin_list
    sources,    \* the timeouts GLib has armed: a tag and the address it was given
    stack,
    fault,      \* "none", or why the behaviour is undefined
    nested,     \* history: a run inside a run has freed a hook
    recycled    \* history: the hook of a timer being called was freed, its address given out

vars == <<list, blocks, loaded, sources, stack, fault, nested, recycled>>

Ids == 1..MaxHooks
Frame == [kind : {"run", "timer", "init", "unload", "reload", "shutdown"}, pl : Plugins,
          mask : Masks \cup {{}}, name : {e.name : e \in Events} \cup {RawLine},
          next : Ids \cup {0}, hook : Ids \cup {0}, called : Seq(Ids), due : SUBSET Ids]

TypeOK ==
    /\ list \in Seq(Ids) /\ IsInjective(list)
    /\ blocks \in Seq([addr : Addresses, pl : Plugins, type : Types \cup {"DELETED"},
                       name : {k.name : k \in Kinds}, pri : Nat])
    /\ loaded \subseteq Plugins
    /\ sources \subseteq [tag : Ids, addr : Addresses]
    /\ stack \in Seq(Frame)
    /\ fault \in {"none", "dangling", "unloaded", "stray"}
    /\ nested \in BOOLEAN /\ recycled \in BOOLEAN

Init ==
    /\ list = <<>> /\ blocks = <<>> /\ loaded = {} /\ sources = {} /\ stack = <<>>
    /\ fault = "none" /\ nested = FALSE /\ recycled = FALSE

-----------------------------------------------------------------------------
Allocated(h) == \E i \in DOMAIN list : list[i] = h
Deleted(h)   == blocks[h].type = "DELETED"
Live(h)      == Allocated(h) /\ ~Deleted(h)
Running      == IF stack = <<>> THEN "main loop" ELSE Last(stack).pl
Deeper       == fault = "none" /\ Len(stack) < MaxDepth

Call(kind, p) ==
    [kind |-> kind, pl |-> p, mask |-> {}, name |-> RawLine, next |-> 0, hook |-> 0,
     called |-> <<>>, due |-> {}]

\* The masks of plugin_insert_hook; a SERVER hook is put before PRINT_ATTRS
\* hooks, not before SERVER_ATTRS ones.
Mixed(type) ==
    CASE type \in {"PRINT", "PRINT_ATTRS"}   -> {"PRINT", "PRINT_ATTRS"}
      [] type \in {"SERVER", "SERVER_ATTRS"} -> {"SERVER", "PRINT_ATTRS"}
      [] OTHER                               -> {type}

\* A new hook h goes before the first hook it is mixed with and yields to.
YieldsTo_Reversed(h, new) == blocks[h].type \in Mixed(new.type) /\ blocks[h].pri >= new.pri
YieldsTo(h, new) == blocks[h].type \in Mixed(new.type) /\ blocks[h].pri <= new.pri
Before(new) ==
    LET at == SelectInSeq(list, LAMBDA h : YieldsTo(h, new))
    IN  IF at = 0 THEN Len(list) + 1 ELSE at
Inserted_NoReturn(new) == Append(InsertAt(list, Before(new), Len(blocks) + 1), Len(blocks) + 1)
Inserted(new) == InsertAt(list, Before(new), Len(blocks) + 1)

\* hexchat_hook_command, _server, _print, _timer: by the plugin that runs.
Hook(k, a) ==
    /\ fault = "none" /\ stack # <<>> /\ Len(blocks) < MaxHooks
    /\ \A i \in DOMAIN list : blocks[list[i]].addr # a
    /\ LET new == [addr |-> a, pl |-> Running, type |-> k.type, name |-> k.name, pri |-> k.pri]
       IN  /\ list' = Inserted(new)
           /\ blocks' = Append(blocks, new)
    /\ sources' = IF k.type = "TIMER" THEN sources \cup {[tag |-> Len(blocks) + 1, addr |-> a]}
                                      ELSE sources
    /\ recycled' = (recycled \/ \E i \in DOMAIN stack : stack[i].kind = "timer" /\
                                                        blocks[stack[i].hook].addr = a)
    /\ UNCHANGED <<loaded, stack, fault, nested>>

\* What hexchat_unhook leaves: the hooks are only marked, a later run frees them.
Marked(hs) == [h \in DOMAIN blocks |-> IF h \in hs THEN [blocks[h] EXCEPT !.type = "DELETED"]
                                                   ELSE blocks[h]]
Disarmed(hs) == {s \in sources : s.tag \notin hs}
Expunge_AtOnce(hs) == SelectSeq(list, LAMBDA h : h \notin hs)
Expunge(hs) == list

\* hexchat_unhook: a plugin takes back one of its hooks, perhaps the one that runs.
Unhook(h) ==
    /\ fault = "none" /\ stack # <<>> /\ Live(h) /\ blocks[h].pl = Running
    /\ blocks' = Marked({h}) /\ list' = Expunge({h}) /\ sources' = Disarmed({h})
    /\ UNCHANGED <<loaded, stack, fault, nested, recycled>>

-----------------------------------------------------------------------------
\* plugin_hook_find: the first hook from `from' on that the event is for, or 0.
Matches(h, e) ==
    /\ blocks[h].type \in e.mask
    /\ \/ blocks[h].name = e.name
       \/ "SERVER" \in e.mask /\ blocks[h].name = RawLine
Rest(from) ==
    IF from = 0 THEN <<>> ELSE SubSeq(list, SelectInSeq(list, LAMBDA h : h = from), Len(list))
Find_StopsAtDeleted(from, e) ==
    LET rest == Rest(from)
        at   == SelectInSeq(rest, LAMBDA h : Matches(h, e) \/ Deleted(h))
    IN  IF at = 0 \/ Deleted(rest[at]) THEN 0 ELSE rest[at]
Find(from, e) ==
    LET rest == Rest(from)
        at   == SelectInSeq(rest, LAMBDA h : Matches(h, e))
    IN  IF at = 0 THEN 0 ELSE rest[at]

\* list->next of the hook that is called, kept across its callback.
After(h) ==
    LET i == SelectInSeq(list, LAMBDA x : x = h) IN IF i < Len(list) THEN list[i + 1] ELSE 0

Calling(frame, h) ==
    [frame EXCEPT !.hook = h, !.pl = blocks[h].pl, !.next = After(h), !.called = Append(@, h)]

\* The purge every run ends with, which frees what was unhooked meanwhile.
Purged == Picked(list, {i \in DOMAIN list : ~Deleted(list[i])})

FreedInside(outer) == nested \/ (list' # list /\ \E i \in DOMAIN outer : outer[i].kind = "run")

\* plugin_hook_run: a command, a line of the server or a print event.
RunHooks(e) ==
    /\ Deeper
    /\ LET h     == Find(IF list = <<>> THEN 0 ELSE Head(list), e)
           frame == [Call("run", Running) EXCEPT
                        !.mask = e.mask, !.name = e.name,
                        !.due = {x \in DOMAIN blocks : Allocated(x) /\ Matches(x, e)}]
       IN  IF h = 0
           THEN /\ list' = Purged
                /\ nested' = FreedInside(stack)
                /\ UNCHANGED stack
           ELSE /\ stack' = Append(stack, Calling(frame, h))
                /\ UNCHANGED <<list, nested>>
    /\ UNCHANGED <<blocks, loaded, sources, fault, recycled>>

Top == Last(stack)
InRun == fault = "none" /\ stack # <<>> /\ Top.kind = "run"
NextHook == IF Top.next # 0 /\ Allocated(Top.next) THEN Find(Top.next, Top) ELSE 0
NoneLeft == (Top.next # 0 => Allocated(Top.next)) /\ NextHook = 0

\* The callback lets the other plugins see the event and there is one more.
RunGoesOn ==
    /\ InRun /\ NextHook # 0
    /\ stack' = Append(Front(stack), Calling(Top, NextHook))
    /\ UNCHANGED <<list, blocks, loaded, sources, fault, nested, recycled>>

\* It eats the event (HEXCHAT_EAT_PLUGIN), or there is none.
RunEnds(eaten) ==
    /\ InRun /\ (eaten \/ NoneLeft)
    /\ list' = Purged /\ stack' = Front(stack)
    /\ nested' = FreedInside(Front(stack))
    /\ UNCHANGED <<blocks, loaded, sources, fault, recycled>>

\* It does not, and the hook to go on with is freed memory.
RunDangles ==
    /\ InRun /\ Top.next # 0 /\ ~Allocated(Top.next)
    /\ fault' = "dangling"
    /\ UNCHANGED <<list, blocks, loaded, sources, stack, nested, recycled>>

-----------------------------------------------------------------------------
\* plugin_timeout_cb: GLib calls it with the address the timeout was armed with.
Fire(s) ==
    /\ fault = "none" /\ stack = <<>>
    /\ IF Live(s.tag)
       THEN /\ stack' = <<[Call("timer", blocks[s.tag].pl) EXCEPT !.hook = s.tag]>>
            /\ UNCHANGED fault
       ELSE fault' = "stray" /\ UNCHANGED stack
    /\ UNCHANGED <<list, blocks, loaded, sources, nested, recycled>>

\* "the callback might have already unhooked it": whatever hook is now at
\* the address is taken for the one that was called.
HookAt(a) == {h \in DOMAIN blocks : Live(h) /\ blocks[h].addr = a}

TimerEnds(again) ==
    /\ fault = "none" /\ stack # <<>> /\ Top.kind = "timer"
    /\ LET hs   == HookAt(blocks[Top.hook].addr)
           stay == again /\ hs # {}
       IN  /\ blocks' = IF again THEN blocks ELSE Marked(hs)
           /\ list' = IF again THEN list ELSE Expunge(hs)
           /\ sources' = IF stay THEN sources ELSE Disarmed({Top.hook})
    /\ stack' = Front(stack)
    /\ UNCHANGED <<loaded, fault, nested, recycled>>

-----------------------------------------------------------------------------
\* plugin_load: hexchat_plugin_init runs.
Load(p) ==
    /\ Deeper /\ p \notin loaded
    /\ loaded' = loaded \cup {p}
    /\ stack' = Append(stack, Call("init", p))
    /\ UNCHANGED <<list, blocks, sources, fault, nested, recycled>>

\* plugin_kill, plugin_reload, plugin_kill_all: hexchat_plugin_deinit runs.
Unload(p, why) ==
    /\ Deeper /\ p \in loaded
    /\ stack' = Append(stack, Call(why, p))
    /\ UNCHANGED <<list, blocks, loaded, sources, fault, nested, recycled>>

HooksOf(p) == {h \in DOMAIN blocks : Live(h) /\ blocks[h].pl = p}

\* The rest of plugin_free: the plugin's hooks are removed and its code is closed.
Freed(p) ==
    /\ blocks' = Marked(HooksOf(p)) /\ list' = Expunge(HooksOf(p)) /\ sources' = Disarmed(HooksOf(p))

InitEnds(ok) ==
    /\ fault = "none" /\ stack # <<>> /\ Top.kind = "init"
    /\ stack' = Front(stack)
    /\ IF ok THEN UNCHANGED <<list, blocks, sources, loaded>>
             ELSE Freed(Top.pl) /\ loaded' = loaded \ {Top.pl}
    /\ UNCHANGED <<fault, nested, recycled>>

\* Only /UNLOAD lets the plugin refuse.
DeinitRefuses ==
    /\ fault = "none" /\ stack # <<>> /\ Top.kind = "unload"
    /\ stack' = Front(stack)
    /\ UNCHANGED <<list, blocks, loaded, sources, fault, nested, recycled>>

\* A plugin one of whose callbacks is still running has no code to return to.
DeinitEnds ==
    /\ fault = "none" /\ stack # <<>> /\ Top.kind \in {"unload", "reload", "shutdown"}
    /\ Freed(Top.pl)
    /\ LET below == Front(stack)
       IN  /\ fault' = IF \E i \in DOMAIN below : below[i].pl = Top.pl THEN "unloaded" ELSE "none"
           /\ IF Top.kind = "reload"
              THEN stack' = Append(below, Call("init", Top.pl)) /\ UNCHANGED loaded
              ELSE stack' = below /\ loaded' = loaded \ {Top.pl}
    /\ UNCHANGED <<nested, recycled>>

Next ==
    \/ \E k \in Kinds, a \in Addresses : Hook(k, a)
    \/ \E h \in DOMAIN blocks : Unhook(h)
    \/ \E e \in Events : RunHooks(e)
    \/ RunGoesOn \/ RunDangles
    \/ \E b \in BOOLEAN : RunEnds(b) \/ TimerEnds(b) \/ InitEnds(b)
    \/ \E s \in sources : Fire(s)
    \/ \E p \in Plugins : Load(p) \/ \E why \in {"unload", "reload", "shutdown"} : Unload(p, why)
    \/ DeinitRefuses \/ DeinitEnds

Spec == Init /\ [][Next]_vars

-----------------------------------------------------------------------------
\* A run whose callbacks run no other hooks is safe whatever they hook and
\* unhook: only a run inside a run frees the hook the outer one goes on with
\* (plugin.c:556 keeps it, plugin.c:598 frees it).
OnlyNestedRunsDangle == fault = "dangling" => nested

\* A run calls a hook at most once and, for commands and print events, calls
\* those it found in the order of their priorities, whatever its callbacks hook
\* and unhook meanwhile (plugin_insert_hook).
RunsInOrder ==
    \A i \in DOMAIN stack :
        LET run == stack[i]  found == {n \in DOMAIN run.called : run.called[n] \in run.due}
        IN  /\ IsInjective(run.called)
            /\ "SERVER" \notin run.mask =>
                 \A m, n \in found : m < n => blocks[run.called[m]].pri >= blocks[run.called[n]].pri

\* A run that nobody cuts short has called every hook that was there for the
\* event from its beginning to its end (plugin_hook_run).
EveryHookServed ==
    [][\A n \in {Len(stack)} :
         (n > 0 /\ Len(stack') < n /\ InRun /\ NoneLeft)
            => \A h \in Top.due : Live(h) => \E i \in DOMAIN Top.called : Top.called[i] = h]_vars

\* A plugin that is not loaded has no hooks: nothing calls into code that is
\* gone (plugin_free).
UnloadedHasNoHooks == \A h \in DOMAIN blocks : Live(h) => blocks[h].pl \in loaded

\* The armed timeouts are those of the timers that are hooked, so that none is
\* called after it was unhooked or its plugin unloaded, unless a timer's
\* callback takes its own hook back and hooks again at the same address
\* (plugin_timeout_cb, hexchat_unhook).
TimeoutsAreHooked ==
    recycled \/ /\ fault # "stray"
                /\ {s.tag : s \in sources} =
                     {h \in DOMAIN blocks : Live(h) /\ blocks[h].type = "TIMER"}

\* What was unhooked or unloaded is not called again, and nothing that was freed
\* is, unless callbacks run hooks.
RemovedIsNotCalled == UnloadedHasNoHooks /\ TimeoutsAreHooked /\ OnlyNestedRunsDangle
=============================================================================
