# A TLA+ model of the JOS kernel (6.828 labs 1 and 2)

This directory models the kernel in `src/6.828/lab`: a one-processor x86 kernel
that has its boot loader, console, debugging information, physical page
allocator and two-level page tables, and ends in an interactive monitor. There
are no user environments and no interrupts yet. All paths below are under
`src/6.828/lab/`.

`PROJECT.json` lists the components, the runs with their properties, the
mutants that show each property can fail, the source lines every definition
stands for, the findings, the hazards, and the theorems.

## 1. Inventory

| Component | State it keeps | Operations | Interacts with |
|---|---|---|---|
| Boot loader, `boot/boot.S`, `boot/main.c` | the position in a segment; the ELF header in scratch space | `seta20.1`, `seta20.2`, `bootmain`, `readseg`, `readsect`, `waitdisk` | the keyboard controller, the IDE disk; jumps to `kern/entry.S` |
| Boot memory set-up, `kern/pmap.c` | `npages`, `nextfree`, `kern_pgdir`, `pages`; which directory `cr3` holds | `i386_detect_memory`, `boot_alloc`, `page_init`, `boot_map_region`, `mem_init`, self-tests | the CMOS clock's memory; hands over to the page operations |
| Physical page allocator, `kern/pmap.c` | `pages[]` (`pp_ref`, `pp_link`), `page_free_list` | `page_alloc`, `page_free`, `page_decref` | virtual memory takes page tables from it and gives back unmapped pages |
| Virtual memory, `kern/pmap.c` | the directory and its tables | `pgdir_walk`, `page_insert`, `page_lookup`, `page_remove`, `tlb_invalidate` | the processor walks the tables and caches entries at any time |
| Console input, `kern/console.c` | the circular buffer `cons` | `cons_intr`, `cons_getc`, `getchar`, `serial_intr`, `kbd_intr` | the UART and the keyboard controller fill up between any two polls |
| Keyboard decoder, `kern/console.c` | the static `shift` | `kbd_proc_data` | called by `cons_intr`; resets the machine |
| Screen, `kern/console.c` | `crt_buf`, `crt_pos`, `addr_6845` | `cga_init`, `cga_putc` | called for every character printed or echoed; calls `cons_putc` for a tab |
| Line editor, `lib/readline.c` | the static `buf` and the index | `readline` | `getchar` for input, `cputchar` for the echo |
| Debugging information, `kern/kdebug.c` | none between calls | `stab_binsearch`, `debuginfo_eip` | `mon_backtrace`, on the linker's table |
| Serial and parallel output, `kern/console.c` | none | `cons_init`, `cons_putc`, `serial_putc`, `lpt_putc` | the UART and the printer, which work at their own pace |
| Formatted output, `lib/printfmt.c`, `kern/printf.c` | none between calls | `vprintfmt`, `snprintf`, `cprintf` | `cputchar` |
| Strings, `lib/string.c` | none | `memmove`, `strcmp`, ... | everybody |
| Monitor, `kern/monitor.c` | none between lines; splits `readline`'s static buffer in place | `monitor`, `runcmd`, four commands | `readline`, `debuginfo_eip`, `pgdir_walk` |
| Start and panic, `kern/init.c` | `panicstr` | `i386_init`, `_panic`, `_warn` | calls everything above |
| Entry code, tables, tools | | | not part of the C program's logic |

What is hard about each, and what makes it correct:

- **Page allocator and virtual memory.** A page passes from the free list to a
  holder, to one or many mappings or to a page table, and back, and five pieces
  of state must agree on where it is: the list, the links, the counts, the
  tables and the TLB. The list must be exactly the free pages; `pp_ref` exactly the number of
  entries; every page in one use at a time; no page table overwritten; no
  translation left that leads to a page that was unmapped. The hardware is the
  concurrent actor: it caches and drops translations between any two operations.
- **Boot memory set-up.** Each stage runs on what the one before left, first
  with a directory that reaches four megabytes of memory only. No
  stage may touch memory that is not mapped, no page of the kernel may become
  free, and every shipped self-test must pass.
- **Console input.** Characters arrive while the buffer is drained. They must
  come out once, in order, and none may stay behind.
- **Keyboard.** Codes are read late, and each changes the meaning of the next.
  The decoder must follow the keys as they were.
- **Screen and line editor.** What one sees must be what `readline` returns.
- **Debugging information.** Binary search in a table where only some entries
  count and an exact match does not shrink the interval by itself.
- **Formatted output.** The reader of a format keeps its state in flags that any
  order of characters may set, goes back over what it does not know, and takes
  arguments as it goes: one wrong step and every later argument is another one's.
- **Boot loader.** Sectors are longer than what is asked for; segments and the
  header in use must survive, and the disk is slow. Before, two bytes go to a
  keyboard controller that may still be busy; until both are through memory above
  one megabyte is not reachable.
- **Console output.** One character goes to three devices, one after the other. Two of
  them may be absent, slow or stopped, and the third calls the whole output path
  again for a tab. Each byte must leave in order, the screen must be as if each
  character were printed at once, and nothing may wait for ever.
- **Monitor.** The line is cut into words in a buffer that is never cleared, the number
  of words is limited, commands read arguments that may be missing, and the
  backtrace follows frames until somebody's zero.

## 2. Modules

| Module | Models | State and actions in the code |
|---|---|---|
| `PhysPages` | the allocator's records | `pp_ref`, `pp_link`, `page_free_list` as in `struct PageInfo`; `TakePage` and `GivePage` are the list surgery of `page_alloc` and `page_free`; `free` is history, the pages in list order |
| `Pmap` | the page operations with a TLB | extends `PhysPages`; `kern_pgdir`, `mem` (the tables are pages of memory), `tlb`; one action per operation, `page_insert` split by what it finds at the address; `TLBFill`, `TLBEvict`, `Store`, `DirectStore` are the processor and the clients |
| `AddrSpace` | the promise to callers | abstract: a pool, holders, a map, pages kept for overhead, pages that may be dirty |
| `PmapRefinement` | `Pmap` implements `AddrSpace` | `INSTANCE AddrSpace WITH`: pool = range of the list, overhead = page tables, map = the entries, dirty = pages with a junk word |
| `PageOps` | the page operations as functions | operators from a machine (counts, list, directory, memory, `cr3`, TLB) to the machine they leave, for code that calls them one after the other |
| `SelfTests` | `check_page_alloc`, `check_page`, `check_page_installed_pgdir` | extends `PageOps`; each test is the sequence of its statements, and `Run` executes it until it ends, panics or faults |
| `MemInit` | `mem_init` | extends `SelfTests`; `pc` names the stage; one step per stage or self-test, one per page inside `boot_map_region`; ends in `"done"`, `"panic"` or `"fault"` |
| `ConsInput` | console input | `pc` is the place in `getchar`'s loop; each poll of a device is a step, devices move in between |
| `Keyboard` | `kbd_proc_data` | real scan codes; the keys' state, when they went down, is kept next to what the decoder makes of it |
| `CString` | `strlen`, `strcmp`, `strchr`, `memmove` | operators on a memory, each the loop of the code; a string is an address |
| `Cga` | `cga_putc` | an operator on `[buf, pos]`; scrolls with `CString`'s `memmove` |
| `Terminal` | the promise of `cputchar` | abstract: a screen on which one character after the other appears, each at once |
| `ConsOutput` | `cons_init`, `cons_putc`, `serial_putc`, `lpt_putc`, `cga_init`, the nested calls of `cga_putc` | `call` is the stack of calls of `cons_putc`; one step per look at a status register, write, and part of `cga_putc`; the devices move in between |
| `Readline` | `readline` | extends `Cga`; one action per branch of the loop |
| `StabSearch`, `SearchCall` | `stab_binsearch` | one step per round of the loop; one call of it by itself |
| `Kdebug` | `debuginfo_eip` | extends `StabSearch`, whose variables are the running search's; one action per call or return |
| `Monitor` | `i386_init`, `_panic`, `monitor`, `runcmd`, the commands | `mem` is `readline`'s buffer, `argv` holds addresses in it; one action per run of white space, word, command and round of a command's loop |
| `Printfmt` | `vprintfmt`, `snprintf`, `cprintf` | the format as directives with plain text before and behind them, and as the characters `Written` makes of them; one action per plain character, `%`, flag and conversion; `va_arg` takes any argument of the type asked for |
| `Boot` | `boot.S`'s A20 handshake, `bootmain` | a byte of memory is the offset in the file it came from; the bytes for the controller, the disk's commands and the devices' answers are steps |
| `MC...` | instances for TLC | definitions for the constants only |
| `PmapProofs`, `ConsInputProofs`, `ConsOutputProofs`, `KeyboardProofs`, `ReadlineProofs`, `KdebugProofs`, `PrintfmtProofs`, `BootProofs` | theorems and proofs | each extends the module it is named for (`PmapProofs` the refinement, `KdebugProofs` also `SearchCall`); section 5 |

`Pmap` starts where `MemInit` ends: `MemInit!CountsMatchList` is what
`PhysPages!page_init` assumes (each page on the list once with count 0, or off
it and counted). `Kdebug` composes three calls of `StabSearch`, `Readline`
composes the editor with the screen, `Pmap` composes the allocator, the tables
and the processor. `Readline` echoes a character in one step although `cputchar`
takes many: that is what `ConsOutput` implementing `Terminal` allows. `Monitor` takes any line
`readline` can return, and begins both where `MemInit` ends in `"done"` and where it
ends in `"panic"`. `ConsInput` takes what the keyboard decoder returns (a
character or 0) as an input, which `Keyboard` shows to be right.

Abstractions: a physical page is a model value in `Pmap` and a number in
`MemInit`; a page holds one word per page table index in use; in `Pmap` a store spoils a
whole page, which is the worst it can do, and in `MemInit` it writes a word; the accessed and dirty bits and
attributes of screen cells are left out. A kernel operation is one
step in `Pmap`: there is one processor and interrupts are off. What the TLB does
in the middle of an operation has the same result as the same fill before it or
after it. The one exception is the window in `page_remove` in which the page is
free and still mapped; nobody else runs in it.

## 3. Runs

All runs end within seconds or a few minutes. Deadlock is checked in `Pmap`,
`ConsInput`, `ConsOutput` and `Readline`, whose systems never stop, and off where a program
ends (`MemInit`, `StabSearch`, `Kdebug`, `Boot`, `Printfmt`) or the machine resets
(`Keyboard`, `Monitor`). The type invariant of a module is checked by itself in `Pmap` and as the
first conjunct of a safety property elsewhere.

### What holds

| Run | Shows |
|---|---|
| `Pmap` | the seven invariants of the page operations, and that every behaviour is one of `AddrSpace` |
| `MemInit` | on 123 machines: no page fault, no kernel page free, counts and list agree, all memory mapped; every assertion of the shipped self-tests holds and they leave nothing mapped below `UPAGES`; the boot ends, and finishes exactly when the `PageInfo` array is a whole number of pages |
| `ConsInput` | queue order, oldest first, 0 only for an empty buffer, everything up to a mouse byte read once the devices are quiet; the one exception is the character that takes the buffer's last place, which loses all that wait |
| `ConsOutput` | every byte goes to both ports in order, a device loses one only after a whole wait; screen and cursor behave as `Terminal`, for every adapter; every call returns, whatever the devices do |
| `Monitor` | the command named, and no other, runs on exactly the words of the last line, whatever the buffer held before; backtrace lists every frame; the prompt returns unless `showmappings` lacks an argument |
| `Keyboard` | with one key per modifier every key decodes as it was pressed; no flag or escape is stuck, also with left and right modifiers; the reset needs Delete pressed with Ctrl and Alt down |
| `Readline` | screen and buffer agree, and nothing erased stays visible |
| `StabSearch` | on every table of up to five stabs the search ends, keeps its loop invariant, finds the region, or leaves what its caller takes for nothing |
| `Kdebug` | the right function, argument count and line stab (or one that follows it address by address), the right file where no included file begins between the function and the line, and failure before the first file and a file's first function |
| `Boot` | the whole image is in memory when it is entered, nothing of it wrapped around at one megabyte, the header until then, and the loader finishes |
| `Printfmt` | every mix of flags, width and precision takes its own arguments and prints them as the comments on the flags say, but for a number's `-` and a string's width, which are read as the code has them (`OwnReadings`); `snprintf` keeps to its buffer, every format ends |

### What the code does otherwise than its documents say

This run checks one sentence of a comment, and TLC finds the behaviour that
contradicts it.

| Run | Sentence | What happens |
|---|---|---|
| `PmapStalePerm` | `pmap.c:432` "The TLB must be invalidated if a page was formerly present" | re-inserting the same page with fewer permissions leaves the old ones cached |

Other disagreements met while modelling have no run of their own. The modules
follow the code in each, and the properties that hold make the exceptions named here:

- `pmap.c:303` counts on `pp_link` for detecting double frees, and the page at the
  end of the list has a `NULL` link: freeing that one again is not noticed. The clients of
  `Pmap` free only what they hold, so `FreeListWellFormed` and `NoPanic` do not show it.
- `memlayout.h:179` calls `pp_ref` "the count of pointers"; it wraps at 2^16, and
  after 2^16 + 1 mappings one removal frees a mapped page. `Countable` is the guard
  that keeps `Pmap` below that; `RefCountExact` is false without it.
- `boot_alloc` neither rounds its size up (`pmap.c:74`) nor notices the end of
  memory (`pmap.c:80`); `pages` is mapped writable for the user (`pmap.c:185`
  against 178), and allocated for `npages` pointers, not records (`pmap.c:158`).
- `pmap.c:708-710` asserts that every page of `pages` is mapped; `boot_map_region` drops
  a last, partial one, and the boot panics. `MemInit!Boots` says that exactly then it does.
- `console.c:409` "or 0 if none waiting": `cons_intr` does not look at `rpos`, and a
  full buffer looks empty. `Queued` of `ConsInput` is what becomes of its characters, so
  `RingIsQueue` and `OldestFirst` hold in spite of the loss.
- `console.c:325` "Ignore data from mouse": the byte is not read and
  blocks the keyboard; `AllTypedRead` makes the exception.
- `monitor.c:135` "Too many arguments (max 16)": 15 words are the limit, the command's
  name included, as the last place of `argv` is for the null pointer.
- `showmappings` tests neither `argc` nor the `0x` of a number (`monitor.c:92-94`), and
  makes no use of the second bound. With an argument missing it reads the interrupt vectors as a
  string while `entry_pgdir` is in use, that is after a panic before `lcr3`; later it faults,
  and a machine without interrupt descriptors resets.
- `serial_putc` does not ask `serial_exists`. A tab is sent to the lines as a tab and as five
  spaces, and `\b` erases on the screen only (`ConsOutput!OnLine`).
- `boot.S` does not wait after its second byte (line 42), and the address line may come on
  later than the switch to protected mode. Nothing is stored above one megabyte before the
  disk has answered for the kernel's first page; `DiskReady` has the assumption.
- `kdebug.c:32-34`: a search among stabs that all lie behind the address does not
  return an empty region; `NothingFound` says what it returns. After an exact match the search
  goes on for the next address, so a stab there may be returned, and so on from address
  to address, and of several stabs at one address not always the last; `FindsRegion` says
  how far it can go. `LineStabRight` makes the same exception, as instructions may be one byte long.
- `kdebug.c:173` "the right line number": `eip_line` is an index of the stab table, in
  every backtrace; `LineStabRight` is about the stab and not about that number.
- `kdebug.c:189`: the scan for the file name starts at the function, not at the line, and misses
  an included file that begins between them; `FileRight` is about the addresses where none does.
- `printfmt.c:107` calls `-` the "flag to pad on the right"; before a number it pads on
  the left, with the flag's own character, so that `%-5d` of 42 prints `---42`.
  `printfmt.c:12-13` says "Space or zero padding and a field width are supported for the numeric
  formats only"; `%s` is padded to its width as well. `PrintsAsDirected` is about the formats
  without either, and `OwnReadings` about what the code prints for the others.
- A negative number's sign is printed before the padding and does not count for the width
  (`printfmt.c:193-197`): `%5d` of -42 is six characters long. A precision whose first digit is 0 is
  read as a flag (`printfmt.c:113`). `%e` of the most negative number would index
  `error_string` with it; `CodesFit` leaves that code out, as nobody returns it.
- `printf.c:13`: `*cnt++` moves the pointer, so `cprintf` always returns 0.

### Bounds, and why they are enough

- `Pmap`: three pages on the list, two directory and two table indices, a count below
  4, two cached translations. Two indices each make two tables, two slots in a
  table, a page mapped up to three times and in both tables; three pages are enough for two
  tables and a mapped page, or for one table and one page replacing another. The
  theorems of section 5 hold for any numbers.
- `MemInit`: 16 entries to a table, pages of 16 bytes, 8 records to a page:
  proportions of the real machine, with up to 32 pages, half of which
  `entry_pgdir` reaches and all of which the window at `KERNBASE` holds. `MCMachines`
  has base memory up to and below the hole and both ways of sizing extended memory,
  with arrays that do and do not fill their pages. A machine with more memory than the
  window stops in `check_kern_pgdir`, one with hardly more than the kernel's image in
  `page_init` or a self-test. In a self-test the TLB keeps every translation until it is
  told otherwise, which is the hardest case for what the test reads next.
- `ConsInput`: a buffer of four, so both positions wrap often; `MaxAhead` = 5
  characters ahead of the reader, so that the buffer fills and goes on from there; two
  characters that differ.
- `ConsOutput`: a screen of two rows of two cells, so that a tab goes over every row end
  and scrolls twice; `Polls` = 2, the least that tells a counter that was set back from one
  that was not, at the first and at a later look; a serial port, a printer, both or neither;
  both adapters; a screen that was empty or full.
- `Monitor`: room for three arguments (`MAXARGS` = 4) and a buffer of 12, in which each line
  leaves its end behind for the next. The lines are all texts of up to three characters from a
  space and two letters, where one command's name is the beginning of another's, and longer
  ones at and over the limit, with and without white space at their end, with numbers that
  leave `Word` (2^8 for 2^32), and with missing arguments. A boot that panics does so in a stage
  of `mem_init` itself or in the longest chain of calls below one.
- `Keyboard`: two keyboards, of ten keys together that stand for each way a code is handled, and two
  events (up to four bytes) in flight, so that a modifier and a key overtake each other.
- `Readline`: 3 rows of 2 columns, a line of three characters with a prompt, so
  a line crosses two row ends and scrolls; every cursor position at the start.
- `StabSearch`: all tables of one to five stabs in order at three addresses two apart, and
  of one to four at three adjacent ones; every address below, at, between and above; and a
  table of fifteen in which the search ends at the first of two stabs at one address.
  `SearchesInOrder` is the linker's order.
- `Kdebug`: tables as the compiler and linker lay them out (`TablesLinked`), zero to two
  parameters, one or two functions, with and without an included file, lines one and two
  addresses apart, an empty file one address before the next, and every address around them.
- `Boot`: two-byte sectors, two segments at every offset within a sector,
  contiguous, adjacent or apart; files that are ELF and files that are not. `ImagesFit` is what
  `kern/kernel.ld` makes of the kernel, and TLC evaluates it on all of them. `A20Line` is the
  address of the first segment at the earliest, a controller empty or not, the line on or off,
  and a disk that is or is not ready when a command is due.
- `Printfmt`: formats whose directives have their flags in the usual order, each at most once
  (`FormatsWritten`; the code takes any order). One directive with all combinations of padding flag, width (none, one
  and two digits, an argument), precision and length, and pairs of directives that take
  none, one or two arguments; unknown directives and formats that end in one; words of
  four and six bits with the most negative number of each; buffers of 0 to 7 bytes, where 0
  stands for a null pointer too: `vsnprintf` refuses both alike.

### Fairness

`Pmap`, `Keyboard`, `Readline` and `Kdebug` assume none: they state safety only (each search of
`Kdebug` ends because `StabSearch` does). `MemInit`,
`StabSearch` and `Printfmt` assume weak fairness of the whole next-state relation:
interrupts are off, nothing else runs, so the processor executes the next
instruction. `Monitor` assumes it of the kernel and not of the user, who need not type.
`ConsOutput` assumes it of the kernel and of no device: that is what the limit on the
polls is for. `ConsInput` assumes it of the kernel's own steps only; the devices
may stop or go on for ever, and the liveness property speaks of behaviours in
which they are quiet from some point on, because `cons_intr` drains for as long
as bytes come in. `Boot` assumes it of the loader, of the disk's answer and of the
keyboard controller: the loader spins for as long as one of them is busy, by design.

## 4. Mutants

Next to a definition stands at times another one with a suffix
(`GivePage_DropsList`, `After_KeepsRight`). These are plausible mistakes in the
code. `PROJECT.json` names one for each property of each passing run; with the
definition replaced by it TLC finds that property violated.

The self-tests are strong tests of `PageOps`: with a table that is not cleared, a count
that `page_insert` adds twice or `page_remove` never takes off, or a last reference that
frees nothing, `CountsMatchList` or `Boots` fails, and with a `tlb_invalidate` that does
nothing `Boots` does.

## 5. What is proved

All proofs are checked by TLAPS and hold for every value of the constants that meets the
assumptions, which are named `ASSUME`s of the modules and evaluated by TLC in the runs.

| Module | Theorem | Statement |
|---|---|---|
| `PmapProofs` | `Invariance` | `Spec => []IInv` |
| | `TypeCorrect` | `pp_ref` stays in a `uint16_t`, and the other variables in their types |
| | `FreeListCorrect` | the links chain exactly the free pages, once each, ending in `NULL` |
| | `RefCountCorrect` | `pp_ref` is the number of entries that point to the page |
| | `OwnershipCorrect` | each page is free, held, mapped or one page table |
| | `TablesCorrect` | a page table holds nothing but entries |
| | `TranslationCorrect` | no cached translation leads to a page that is not mapped at its address |
| | `NeverPanics` | `page_free` never panics |
| | `PmapImplementsAddrSpace` | every behaviour is one of `AddrSpace` |
| `ConsInputProofs` | `InputIsQueue` | the circular buffer holds exactly what was fetched and not read, in order |
| | `InputInOrder` | `getchar` takes the oldest character, and 0 from an empty buffer only |
| `ConsOutputProofs` | `LinesCorrect` | every byte goes to both ports in order, and is given up only after all polls |
| | `OutputImplementsTerminal` | the drivers, with the nested calls of a tab, implement `Terminal` |
| `KeyboardProofs` | `KeyboardInvariance` | `Spec => []IInv` |
| | `ModifiersReleased` | no flag or escape stays set whose key is up |
| | `KeysDecoded` | every key decodes as it was pressed, however late |
| | `ResetRequested` | the reset needs Delete pressed with Ctrl and Alt down |
| `ReadlineProofs` | `EditorInvariance` | `Spec => []IInv` |
| | `LineShown` | the line in the buffer is what the screen shows behind the prompt |
| | `NothingErasedStays` | a step that erases leaves a blank |
| `KdebugProofs` | `SearchInvariance` | `SearchSpec => []SearchInv` |
| | `SearchBrackets` | every round keeps the address between the ends |
| | `SearchFinds` | a search that matches returns the region of the address |
| | `SearchFindsNothing` | one that does not returns what its caller takes for nothing |
| | `KdebugInvariance` | `Spec => []IInv` |
| | `FunctionNamed` | the function named is the one the address lies in, with its parameters |
| | `LineFoundRight` | the line stab is the address's, or one that follows it address by address; failure where there is none |
| | `FileNamedRight` | the file is the line's where no included one begins before it |
| `PrintfmtProofs` | `PrinterInvariance` | `Spec => []IInv` |
| | `BufferKept` | `snprintf` keeps to its n bytes, ends them with a 0 and returns the whole length |
| | `DirectivesPrinted` | every directive takes its own arguments, and is printed as the reference says, an unknown one as it is written, in formats without a `-` before a number and a width before a string |
| | `OtherDirectivesPrinted` | in the formats with one of these the number is padded on the left with the `-` itself, the string filled to its width, and nothing else is different |
| `BootProofs` | `LoaderInvariance` | `Spec => []IInv` |
| | `KernelLoaded` | a kernel that is entered is in memory as a whole, with the address line on |
| | `HeaderSurvives` | the program headers are intact for as long as they are read |

**Page operations.** For every set of pages, every finite set of indices, all permissions,
every initial list, every width of `pp_ref` and every TLB size. Assumed: `NULL` is no page,
the list `page_init` leaves has no duplicates, the pages of the I/O hole are not
on it, the index sets are finite, the three kinds of memory words are distinct.
Through the guard `Countable` of the specification the clients map no page more
often than `pp_ref` can count; section 3 says what happens when they do.
None of the seven invariants is inductive alone, so `IInv` is
their conjunction. A count is exact only because a new page's count starts at
0, which needs a free page to be unmapped (`OneUseEach`); a free page is unmapped
because `page_decref` frees at an exact count of 0 (`RefCountExact`); entries
stay entries because no store reaches a page table (`PageTablesIntact`), which
needs that no translation, cached ones included, leads there (`OneUseEach`,
`TLBFrameCoherent`); `page_free` does not panic because the link of a page off
the list is `NULL` (`FreeListWellFormed`). Lemmas say what taking from and giving to the list
preserve, and how one changed entry changes `Mappings`; then comes one lemma per action
with one step per conjunct. The refinement uses `IInv` again: each action is shown to be one action
of `AddrSpace` or to change nothing it sees, the walk that installs a table being the
one that moves a page to the overhead.

**Console input.** For every buffer size above one and every controller queue. `RingIsQueue` is
inductive as it stands: the two positions move around the ring by one at a time, and the
overflow is the step in which the ring becomes empty.

**Console output.** For every screen of at least two rows and columns, every text, any number of
polls, all devices. The invariant has the stack of calls (two at most, the
outer one a tab's), how many bytes the calls have put on each port as a prefix of
what is due, what the polling loop has seen, and the screen as what it was `before` with the part of the
character that has been printed. From it each step of `ConsOutput` is a stutter or one character
of `Terminal`. That the five spaces of a tab are put one by one is unrolled, not induced. Assumed:
characters to print are glyphs or control characters and `Mark`, the word of the probe, is no glyph.

**Keyboard.** For every keyboard made of the modelled keys and any number of bytes in flight. The
decoder lags behind the keys, so the invariant follows its flags through the queue: there are flags for
each event still to be read, each the result of the one before, that begin
with the decoder's and end with the keys as they are now; and a pending escape belongs to
the first event. The claim about decoding and the reset is for keyboards with
one key per modifier, as the run's is.

**Line editor.** For every screen size, key set, prompt and `BUFLEN` such that the line leaves a row
free (1026 characters and 1920 cells in the code). The invariant: the prompt and the line end
exactly before the cursor. `PutStays` and `ScrollStays` carry it over a scroll, `MovedDown` shows
what `memmove` does there, with its overlap, and `PromptShown` that a prompt of any length is on the screen.

**Search.** For tables of any length and any addresses, in the order the linker leaves (`SearchesInOrder`).
`Bracketed` is not inductive: the invariant also has how `region_left` moves with
`l` and `region_right` with `r`, and that whatever was skipped by an exact match is a run
of stabs at consecutive addresses. The lemmas ask only that the running call is in order
(`InOrder`), so they serve `SearchSpec` and the three searches of `Kdebug` alike.

**Debugging information.** For every table that the compiler and the linker make (`TablesLinked`):
files in order, a file with code and a function longer than one byte (`-fno-omit-frame-pointer`: it pushes
`%ebp` and moves `%esp`), the lines of a function in order, parameters right behind their function.
The invariant says what each search hands to the next: the region of a file, which
is the address's unless that one has no code, and in it `HasNoFunction`, `AllBehind` or `InFunction`. From it follow
that the next search's region is in order, that a search for a function never runs on
(two of them would have to be adjacent), and that before the first function there are no lines,
so that the difference `addr -= eip_fn_addr`, which wraps around there, is looked for in vain. That the parameters are
counted to the last one is an argument about the last stab that is none of them.

**Formatted output.** For all formats, arguments, word sizes and buffers. The invariant says that `b.buf` is
as far as the text or the last byte, whichever is less, that the bytes before it are the text's and those from `n` on
untouched, and that inside an escape there is a `%` to go back to. That every conversion gives a finite text at
all takes the recursion of `printnum` and the loop of a width's digits. Assumed: the texts given are finite
sequences, and arguments fit their type.

`DirectivesPrinted` and `OtherDirectivesPrinted` rest on an invariant of their own, `PlaceInv`: until it is done `vprintfmt` is at one of three
kinds of places (`Placed`). It copies the plain text before a directive (`Copying`), or the characters of a directive it
did not know (`Literal`), or it has read some of the parts of a directive (`Reading`), and
then its flags are what `Reads` says of those parts and of the arguments they took. At each place all that is
before is printed as the reference has it, and no argument of a later directive is taken. The
steps from place to place are one lemma for each part. Beneath are three facts. The digits `printnum` leaves by
recursion are the digits by weight of `Numeral` (`DigitsByWeight`, `PrintnumNumeral`). Once its flags are read
a directive's width, precision and padding are the reference's (`AmountsAgree`), a negative width of an
argument and a width that a precision made 0 included. Going back to the last `%` leads to that of the
directive being read, because no flag is one (`PercentBefore`). Assumed is `FormatsWritten`: the
text between directives has no `%`, and a directive is `%`, then padding, `#`, width, precision, length and conversion,
each at most once, or ends the format.

**Boot loader.** For every sector size, memory and kernel whose segments lie in the file as in memory and
leave each other's bytes, and the header's, alone (`HeaderFits`, `ImagesFit`, from `kern/kernel.ld`). The
invariant joins the handshake (which byte the controller holds at which point; nothing is
stored before the line is on) with the place of `readseg` (`pa` and `offset` in step) and with what is in
memory up to it.

Induction over data. The library's induction theorems take an operator as a parameter, which the
provers cannot instantiate. Where a recursive function matters (`Put` of a prompt, `printnum`,
`Number`, the pieces of a format, the powers of a base, the loops of `memmove`) the proofs take the least argument at which the claim fails instead;
that works for functions of one number.

Only model-checked: `MemInit` and `Monitor`, whose self-tests and commands are long fixed programs, written as folds
and recursive functions over statements and words (`KernelPagesNotFree`, `CountsMatchList`, `NoFault`,
`KernelMapComplete`, `AnswerRight`); `AllTypedRead`, `Finishes` and the other liveness properties,
which with `ENABLED` are out of TLAPS's reach in this version.

## 6. Not modelled

- Of `lib/string.c` the functions nothing in the kernel calls (`strcpy`, `strcat`, `strncpy`,
  `strlcpy`, `strncmp`, `memcmp`, `memcpy`, `memfind`, `strtol`); `memset`, `strnlen` and
  `strfind` are modelled by their effect where they are called.
- The speed and line settings of `serial_init`, the attributes of screen cells, and of what the
  commands print all but the words that tell one answer from another. `mon_backtrace` names the
  functions as frames do; that `debuginfo_eip` names them right is `Kdebug`.
- The frames of `mon_backtrace` are those of the source's calls; the compiler may inline
  `runcmd` or others.
- `page_lookup`'s `pte_store`: assigned to the parameter and lost. The one caller that
  passes it, line 789 of `check_page`, looks at the result only.
- `_warn`, which nothing calls; clearing `.bss`; the switch to protected mode and to paging, the linker script, grading tools and left-over files.

## 7. Plan

1. `MemInit`: `KernelPagesNotFree` and `NoFault` up to the first self-test, which needs no recursion.
2. `Printfmt`: formats with their flags in any order.
3. `Console`: `ConsInput` with `Keyboard` in place of the abstract characters.
