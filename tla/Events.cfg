\* Channels of two events; one job and a page that connects twice, or once with a list asked
\* for by a click on top of those asked for after a batch; or two jobs and the box ticked
\* twice.
CONSTANTS
    MaxJobs = 2
    ChannelSize = 2
    MaxPageJobs = 1
    MaxVisits = 2
    MaxTicks = 2
    MaxStuck = 1
SPECIFICATION EventSpec
INVARIANTS ViewIsRight NoticesAreAskedFor NoMissedNotice
