SPECIFICATION ServicesSpec
CONSTANTS
    Parts = {"torrent", "vod", "upload", "watcher", "scanner", "refresh", "preview"}
    None = None
    t1 = t1
    t2 = t2
    magnet = magnet
    link = link
    torrentFile = torrentFile
    Torrents <- MCTorrents
    Sources <- MCSources
    TorrentOf <- MCTorrentOf
    Tasks = {k1, k2}
    MaxActive = 1
    Requests = {r1, r2}
    Slots = {s1, s2}
    Reaper = Reaper
    Closer = Closer
    u1 = u1
    u2 = u2
    u3 = u3
    Uploads <- MCUploads
    SizeOf <- MCSizeOf
    Names = {name}
    Quota = 2
    MaxSuffix = 1
    root = root
    series = series
    season = season
    Root = root
    Dirs <- MCDirs
    Parent <- MCParent
    Files = {f1, f2}
    MaxVersion = 2
    MaxEvents = 2
    Libraries = {l1, l2}
    MaxImports = 1
    Items = {i1, i2}
    Viewers = {v1, v2}
    GenSlots = 1
SYMMETRY Symmetry
CHECK_DEADLOCK FALSE
INVARIANTS
    ServicesTypeOK
    TorrentsSafe
    PlaysSafe
    QuotaExact
    CopyNeverOverwrites
    DirsCovered
    RefreshSafe
    PreviewsSafe

    
