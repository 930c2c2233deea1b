CONSTANTS
    u1 = u1
    ip1 = ip1
    t1 = t1
    t2 = t2
    Tunnels = {t1, t2}
    Users = {u1}
    UserOf <- MCUserOf
    IpOf <- MCIpOf
    DeviceLimit <- MCDeviceLimit
    MaxAlive = 1
SPECIFICATION Spec
PROPERTY OpenDeviceNotRefused
