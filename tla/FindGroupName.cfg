CONSTANTS
    s1 = s1
    s2 = s2
    s3 = s3
    g1 = g1
    g2 = g2
    v1 = v1
    v2 = v2
    rg1 = rg1
    rg2 = rg2
    plain = plain
    odd = odd
    bare = bare
    default = default
    k1 = k1
    k2 = k2
    Subnets <- AllSubnets
    SecurityGroups <- AllSecurityGroups
    VPCs <- AllVPCs
    VpcOf <- Where
    Names <- AllNames
    Canonical <- Sanitised
    DefaultName <- default
    Groups <- AllGroups
    Keys <- AllKeys
    Cases <- NamedGroupOnly
SPECIFICATION Spec
INVARIANT GroupNameHonoured
